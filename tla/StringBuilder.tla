--------------------------- MODULE StringBuilder ---------------------------
(***************************************************************************)
(* CP::basic_string_builder (string_builder.H): a growing buffer whose     *)
(* length and capacity are 32-bit numbers.                                 *)
(*                                                                         *)
(* The allocated memory is a sequence of cells; what malloc and realloc    *)
(* return beyond the old contents is Junk.  A call runs through reserve(), *)
(* whose loop is one step per round, and ends with the step that writes.   *)
(* The user keeps the length within max_size().                            *)
(***************************************************************************)
EXTENDS Integers, Sequences

CONSTANTS
  Chars,        \* characters
  Nul,          \* the terminator
  Junk,         \* an uninitialized cell
  Modulus,      \* the number of values of size_type
  minCapacity,
  MaxSize,      \* max_size()
  FormatRoom,   \* the room that append_format asks for first
  Texts         \* the texts that the user appends or assigns

ASSUME StringBuilderAssumption ==
  /\ Nul \notin Chars /\ Junk \notin Chars
  /\ Modulus \in Nat
  /\ MaxSize \in Nat /\ FormatRoom \in Nat
  /\ 2 * (MaxSize + FormatRoom + 1) <= Modulus
  /\ minCapacity \in 1..(Modulus - 1)
  /\ Texts \subseteq Seq(Chars)

VARIABLES
  buffer,          \* the allocated cells
  bufferLength,
  bufferCapacity,
  pc,              \* where the call in progress is
  call,            \* the call in progress
  newCapacity,     \* local of reserve()
  extent,          \* history: where the last write ended
  value            \* history: the text the user has built

vars == <<buffer, bufferLength, bufferCapacity, pc, call, newCapacity, extent,
          value>>

object == <<buffer, bufferLength, bufferCapacity>>

Cells == Chars \cup {Nul, Junk}
SizeType == 0..(Modulus - 1)

\* s is the text to write, count the argument of reserve() or _init().
Calls ==
  [op : {"append", "assign", "resize", "format", "reformat", "construct"},
   s : Seq(Chars), count : SizeType]

NoCall == [op |-> "append", s |-> <<>>, count |-> 0]

\* "dead": no object; "idle": no call; "reserve": at the entry of reserve();
\* "grow": at the test of its loop; "init": at that of _init(); "write": after
\* reserve() or _init().
Locations == {"dead", "idle", "reserve", "grow", "init", "write"}

TypeOK ==
  /\ buffer \in Seq(Cells)
  /\ bufferLength \in SizeType
  /\ bufferCapacity \in SizeType
  /\ pc \in Locations
  /\ call \in Calls
  /\ newCapacity \in SizeType
  /\ extent \in Nat
  /\ value \in Seq(Cells)

Init ==
  /\ buffer = <<>> /\ bufferLength = 0 /\ bufferCapacity = 0
  /\ pc = "idle"
  /\ call = NoCall
  /\ newCapacity = 0
  /\ extent = 0
  /\ value = <<>>

-----------------------------------------------------------------------------
Wrap(n) == n % Modulus

\* Memory b of size n: what was there stays, the rest is uninitialized.
Resized(b, n) == [k \in 1..n |-> IF k <= Len(b) THEN b[k] ELSE Junk]

\* b after the cells of s were copied to it from offset off.
Copied(b, off, s) ==
  [k \in 1..Len(b) |-> IF off < k /\ k <= off + Len(s) THEN s[k - off] ELSE b[k]]

\* The first n characters of s, and a terminator.
Terminated(s, n) == Append(SubSeq(s, 1, n), Nul)

-----------------------------------------------------------------------------
(***************************************************************************)
(* The user's calls.                                                       *)
(***************************************************************************)
Begin(op, s, count, loc) ==
  /\ pc = "idle"
  /\ call' = [op |-> op, s |-> s, count |-> Wrap(count)]
  /\ pc' = loc
  /\ UNCHANGED <<object, newCapacity, extent, value>>

\* append(s, count), and begin_append(room) followed by end_append(Len(s)); a
\* reserve() that the user calls is the same with an empty text.
AppendText(s, room) ==
  /\ Len(s) <= room
  /\ bufferLength + room <= MaxSize
  /\ Begin("append", s, bufferLength + room, "reserve")

\* append(c) has a test of its own.
AppendChar(c) ==
  /\ bufferLength + 1 <= MaxSize
  /\ Begin("append", <<c>>, bufferLength + 1,
           IF Wrap(bufferLength + 2) >= bufferCapacity THEN "reserve" ELSE "write")

\* append_format: s is what the format expands to.
AppendFormat(s) ==
  /\ bufferLength + Len(s) <= MaxSize
  /\ Begin("format", s, bufferLength + FormatRoom, "reserve")

\* operator=, by _assign.
Assign(s) ==
  /\ Len(s) <= MaxSize
  /\ Begin("assign", s, Len(s), "reserve")

Resize(count) ==
  /\ count <= MaxSize
  /\ Begin("resize", <<>>, count, "reserve")

Clear ==
  /\ pc = "idle"
  /\ bufferLength' = 0
  /\ value' = <<>>
  /\ UNCHANGED <<buffer, bufferCapacity, pc, call, newCapacity, extent>>

\* c_str writes the terminator.
CStr ==
  /\ pc = "idle"
  /\ bufferCapacity # 0
  /\ buffer' = Copied(buffer, bufferLength, <<Nul>>)
  /\ extent' = bufferLength + 1
  /\ UNCHANGED <<bufferLength, bufferCapacity, pc, call, newCapacity, value>>

\* The object is moved from: its buffer belongs to another one.
MoveFrom ==
  /\ pc = "idle"
  /\ buffer' = <<>> /\ bufferLength' = 0 /\ bufferCapacity' = 0
  /\ extent' = 0
  /\ value' = <<>>
  /\ UNCHANGED <<pc, call, newCapacity>>

\* The destructor.
Destroy ==
  /\ pc = "idle"
  /\ pc' = "dead"
  /\ buffer' = <<>> /\ bufferLength' = 0 /\ bufferCapacity' = 0
  /\ extent' = 0
  /\ value' = <<>>
  /\ UNCHANGED <<call, newCapacity>>

\* The constructors that copy a text: _init(count) and its loop.
Construct(s) ==
  /\ pc = "dead"
  /\ Len(s) <= MaxSize
  /\ call' = [op |-> "construct", s |-> s, count |-> Len(s)]
  /\ bufferCapacity' = minCapacity
  /\ pc' = "init"
  /\ UNCHANGED <<buffer, bufferLength, newCapacity, extent, value>>

-----------------------------------------------------------------------------
(***************************************************************************)
(* reserve() and _init().                                                  *)
(***************************************************************************)

\* Fault: no room for the terminator.
NeedBare(count) == Wrap(count)

\* The capacity that holds count characters and a terminator.
Need(count) == Wrap(count + 1)

\* Fault: an empty builder starts to grow from capacity 0.
GrowthStartEmpty == bufferCapacity

\* Where the loop of reserve() starts.
GrowthStart == IF bufferCapacity < minCapacity THEN minCapacity ELSE bufferCapacity

Reserve ==
  /\ pc = "reserve"
  /\ IF Need(call.count) <= bufferCapacity
       THEN pc' = "write" /\ UNCHANGED newCapacity
       ELSE pc' = "grow" /\ newCapacity' = GrowthStart
  /\ UNCHANGED <<object, call, extent, value>>

Grow ==
  /\ pc = "grow"
  /\ newCapacity < Need(call.count)
  /\ newCapacity' = Wrap(2 * newCapacity)
  /\ UNCHANGED <<object, pc, call, extent, value>>

\* Fault: the new block is not filled from the old one.
ReallocFresh ==
  /\ pc = "grow"
  /\ newCapacity >= Need(call.count)
  /\ buffer' = Resized(<<>>, newCapacity)
  /\ bufferCapacity' = newCapacity
  /\ newCapacity' = 0
  /\ pc' = "write"
  /\ UNCHANGED <<bufferLength, call, extent, value>>

\* realloc succeeds.
Realloc ==
  /\ pc = "grow"
  /\ newCapacity >= Need(call.count)
  /\ buffer' = Resized(buffer, newCapacity)
  /\ bufferCapacity' = newCapacity
  /\ newCapacity' = 0
  /\ pc' = "write"
  /\ UNCHANGED <<bufferLength, call, extent, value>>

\* realloc fails: bad_alloc leaves the object as it is.
ReallocFails ==
  /\ pc = "grow"
  /\ newCapacity >= Need(call.count)
  /\ pc' = "idle"
  /\ call' = NoCall
  /\ newCapacity' = 0
  /\ UNCHANGED <<object, extent, value>>

InitGrow ==
  /\ pc = "init"
  /\ bufferCapacity < Need(call.count)
  /\ bufferCapacity' = Wrap(2 * bufferCapacity)
  /\ UNCHANGED <<buffer, bufferLength, pc, call, newCapacity, extent, value>>

\* malloc succeeds, or the constructor throws and there is no object.
Malloc ==
  /\ pc = "init"
  /\ bufferCapacity >= Need(call.count)
  /\ \/ /\ buffer' = Resized(<<>>, bufferCapacity)
        /\ bufferLength' = call.count
        /\ pc' = "write"
        /\ UNCHANGED <<bufferCapacity, call>>
     \/ /\ pc' = "dead"
        /\ bufferCapacity' = 0
        /\ call' = NoCall
        /\ UNCHANGED <<buffer, bufferLength>>
  /\ UNCHANGED <<newCapacity, extent, value>>

-----------------------------------------------------------------------------
(***************************************************************************)
(* The end of a call.                                                      *)
(***************************************************************************)

\* memcpy or a single store, then the new length.
WriteAppend ==
  /\ pc = "write"
  /\ call.op = "append"
  /\ buffer' = Copied(buffer, bufferLength, call.s)
  /\ extent' = bufferLength + Len(call.s)
  /\ bufferLength' = Wrap(bufferLength + Len(call.s))
  /\ value' = value \o call.s
  /\ pc' = "idle"
  /\ call' = NoCall
  /\ UNCHANGED <<bufferCapacity, newCapacity>>

WriteWhole ==
  /\ pc = "write"
  /\ call.op \in {"assign", "construct"}
  /\ bufferLength' = call.count
  /\ buffer' = Copied(buffer, 0, call.s)
  /\ extent' = Len(call.s)
  /\ value' = call.s
  /\ pc' = "idle"
  /\ call' = NoCall
  /\ UNCHANGED <<bufferCapacity, newCapacity>>

\* resize: characters beyond the old length are what the memory holds.
WriteResize ==
  /\ pc = "write"
  /\ call.op = "resize"
  /\ bufferLength' = call.count
  /\ value' = [k \in 1..call.count |->
                 IF k <= Len(value) THEN value[k] ELSE buffer[k]]
  /\ pc' = "idle"
  /\ call' = NoCall
  /\ UNCHANGED <<buffer, bufferCapacity, newCapacity, extent>>

Space == bufferCapacity - bufferLength

\* The first snprintf of append_format; a second one if it was cut short.
WriteFormat ==
  /\ pc = "write"
  /\ call.op = "format"
  /\ LET n == IF Len(call.s) < Space THEN Len(call.s) ELSE Space - 1 IN
     /\ buffer' = Copied(buffer, bufferLength, Terminated(call.s, n))
     /\ extent' = bufferLength + n + 1
  /\ \/ /\ Len(call.s) < Space
        /\ bufferLength' = Wrap(bufferLength + Len(call.s))
        /\ value' = value \o call.s
        /\ pc' = "idle"
        /\ call' = NoCall
     \/ /\ Len(call.s) >= Space
        /\ call' = [op |-> "reformat", s |-> call.s,
                    count |-> Wrap(bufferLength + Len(call.s))]
        /\ pc' = "reserve"
        /\ UNCHANGED <<bufferLength, value>>
  /\ UNCHANGED <<bufferCapacity, newCapacity>>

WriteReformat ==
  /\ pc = "write"
  /\ call.op = "reformat"
  /\ buffer' = Copied(buffer, bufferLength, Terminated(call.s, Len(call.s)))
  /\ extent' = bufferLength + Len(call.s) + 1
  /\ bufferLength' = Wrap(bufferLength + Len(call.s))
  /\ value' = value \o call.s
  /\ pc' = "idle"
  /\ call' = NoCall
  /\ UNCHANGED <<bufferCapacity, newCapacity>>

-----------------------------------------------------------------------------
User ==
  \/ \E s \in Texts, room \in 0..MaxSize : AppendText(s, room)
  \/ \E c \in Chars : AppendChar(c)
  \/ \E s \in Texts : AppendFormat(s) \/ Assign(s) \/ Construct(s)
  \/ \E count \in 0..MaxSize : Resize(count)
  \/ Clear \/ CStr \/ MoveFrom \/ Destroy

Builder ==
  \/ Reserve \/ Grow \/ Realloc \/ ReallocFails \/ InitGrow \/ Malloc
  \/ WriteAppend \/ WriteWhole \/ WriteResize \/ WriteFormat \/ WriteReformat

Next == User \/ Builder

Spec == Init /\ [][Next]_vars

\* A call that was made runs.
LiveSpec == Spec /\ WF_vars(Builder)

-----------------------------------------------------------------------------
(***************************************************************************)
(* Properties.                                                             *)
(***************************************************************************)

\* No write leaves the allocated memory: not the memcpy of append and assign,
\* not the store of append(c), which reserves by a test of its own, not the
\* two snprintf of append_format, and not the terminator that c_str writes
\* without asking for room.
NoOverrun == extent <= Len(buffer)

\* The builder holds what the user put in, however the calls were split over
\* reallocations, and a call that failed with bad_alloc has changed nothing.
Contents ==
  pc = "idle" => /\ bufferLength = Len(value)
                 /\ bufferLength <= Len(buffer)
                 /\ \A k \in 1..bufferLength : buffer[k] = value[k]

\* Every call returns: the doubling loops end, from capacity 0 (a new or a
\* moved-from builder) as well as near max_size().
CallsReturn == pc \notin {"idle", "dead"} ~> pc \in {"idle", "dead"}
=============================================================================
