------------------------ MODULE StringBuilderProofs ------------------------
(***************************************************************************)
(* Proofs about StringBuilder, for any texts, any minCapacity and any      *)
(* width of size_type that leaves room to double max_size().               *)
(***************************************************************************)
EXTENDS StringBuilder, SequenceTheorems, TLAPS

-----------------------------------------------------------------------------
(***************************************************************************)
(* Arithmetic and memory.                                                  *)
(***************************************************************************)

\* A number below the modulus does not wrap.
LEMMA WrapSmall ==
  ASSUME NEW n \in Nat, n < Modulus
  PROVE  Wrap(n) = n
<1>1. Modulus \in Nat \ {0}
  BY StringBuilderAssumption
<1> QED BY <1>1 DEF Wrap

\* A function on 1..n is a sequence.
LEMMA FunctionIsSeq ==
  ASSUME NEW S, NEW n \in Nat, NEW f \in [1..n -> S]
  PROVE  f \in Seq(S) /\ Len(f) = n
OBVIOUS

\* Memory as a sequence: its size, and what a copy into it leaves.
LEMMA ResizedFacts ==
  ASSUME NEW bb \in Seq(Cells), NEW n \in Nat
  PROVE  /\ Resized(bb, n) \in Seq(Cells)
         /\ Len(Resized(bb, n)) = n
         /\ \A k \in 1..n : k <= Len(bb) => Resized(bb, n)[k] = bb[k]
<1>1. \A k \in 1..n : (IF k <= Len(bb) THEN bb[k] ELSE Junk) \in Cells
  BY DEF Cells
<1> QED BY <1>1 DEF Resized

LEMMA CopiedFacts ==
  ASSUME NEW bb \in Seq(Cells), NEW off \in Nat, NEW s \in Seq(Cells)
  PROVE  /\ Copied(bb, off, s) \in Seq(Cells)
         /\ Len(Copied(bb, off, s)) = Len(bb)
         /\ \A k \in 1..Len(bb) : k <= off => Copied(bb, off, s)[k] = bb[k]
         /\ \A k \in 1..Len(bb) : off < k /\ k <= off + Len(s)
                                    => Copied(bb, off, s)[k] = s[k - off]
<1>1. \A k \in 1..Len(bb) :
        (IF off < k /\ k <= off + Len(s) THEN s[k - off] ELSE bb[k]) \in Cells
  OBVIOUS
<1> QED BY <1>1 DEF Copied

\* A text with its terminator.
LEMMA TerminatedFacts ==
  ASSUME NEW s \in Seq(Chars), NEW n \in 0..Len(s)
  PROVE  /\ Terminated(s, n) \in Seq(Cells)
         /\ Len(Terminated(s, n)) = n + 1
         /\ \A k \in 1..n : Terminated(s, n)[k] = s[k]
<1>1. Chars \subseteq Cells /\ Nul \in Cells
  BY DEF Cells
<1>2. \A k \in 1..n : s[k] \in Cells
  BY <1>1
<1>3. /\ SubSeq(s, 1, n) \in Seq(Cells)
      /\ Len(SubSeq(s, 1, n)) = n
      /\ \A k \in 1..n : SubSeq(s, 1, n)[k] = s[k]
  BY <1>2
<1> DEFINE t == SubSeq(s, 1, n)
<1> HIDE DEF t
<1>4. /\ t \in Seq(Cells)
      /\ Len(t) = n
      /\ \A k \in 1..n : t[k] = s[k]
  BY <1>3 DEF t
<1>5. /\ Append(t, Nul) \in Seq(Cells)
      /\ Len(Append(t, Nul)) = n + 1
      /\ \A k \in 1..n : Append(t, Nul)[k] = s[k]
  BY <1>1, <1>4
<1> QED BY <1>5 DEF Terminated, t

-----------------------------------------------------------------------------
(***************************************************************************)
(* The inductive invariant.                                                *)
(***************************************************************************)
Busy == pc \in {"reserve", "grow", "init", "write"}

\* bufferCapacity is the size of the memory, except in the loop of _init().
MemoryInv ==
  /\ pc \in {"dead", "init"} => buffer = <<>> /\ bufferLength = 0 /\ value = <<>>
  /\ pc # "init" => Len(buffer) = bufferCapacity
  /\ pc = "init" => bufferCapacity >= 1

\* There is room for the terminator, or no memory at all.
RoomInv ==
  /\ bufferLength <= MaxSize
  /\ bufferLength < Len(buffer) \/ (bufferLength = 0 /\ Len(buffer) = 0)

\* What reserve() is asked for covers what the call will write.
CallInv ==
  Busy =>
    /\ call.count <= MaxSize + FormatRoom
    /\ call.op \in {"append", "reformat"} =>
         bufferLength + Len(call.s) <= call.count /\ call.count <= MaxSize
    /\ call.op \in {"assign", "construct"} =>
         Len(call.s) = call.count /\ call.count <= MaxSize
    /\ call.op = "resize" => call.count <= MaxSize
    /\ call.op = "format" =>
         bufferLength <= call.count /\ bufferLength + Len(call.s) <= MaxSize
    /\ pc = "init" => call.op = "construct"
    /\ pc \in {"reserve", "grow"} => call.op # "construct"

\* The loop of reserve() never shrinks the buffer; after it there is room.
GrowInv ==
  /\ pc = "grow" => newCapacity >= 1 /\ newCapacity >= bufferCapacity
  /\ pc = "write" => call.count < bufferCapacity

\* The memory holds the text, but for a constructor that has yet to copy it.
ValueInv ==
  ~(pc = "write" /\ call.op = "construct") =>
    /\ bufferLength = Len(value)
    /\ \A k \in 1..bufferLength : buffer[k] = value[k]

Inv == /\ TypeOK /\ MemoryInv /\ RoomInv /\ CallInv /\ GrowInv
       /\ NoOverrun /\ ValueInv

\* Sizes as numbers.
LEMMA Sizes ==
  ASSUME TypeOK
  PROVE  /\ bufferLength \in Nat /\ bufferLength < Modulus
         /\ bufferCapacity \in Nat /\ bufferCapacity < Modulus
         /\ newCapacity \in Nat /\ newCapacity < Modulus
         /\ call.count \in Nat /\ call.s \in Seq(Chars) /\ Len(call.s) \in Nat
         /\ Len(buffer) \in Nat /\ Len(value) \in Nat
         /\ Modulus \in Nat /\ MaxSize \in Nat /\ FormatRoom \in Nat
         /\ MaxSize + FormatRoom + 1 < Modulus
         /\ minCapacity \in Nat /\ minCapacity >= 1 /\ minCapacity < Modulus
BY StringBuilderAssumption DEF TypeOK, Calls, SizeType

\* What a call needs does not wrap.
LEMMA NeedFacts ==
  ASSUME Inv, Busy
  PROVE  Need(call.count) = call.count + 1
<1>1. call.count \in Nat /\ call.count + 1 < Modulus
  BY Sizes DEF Inv, CallInv
<1> QED BY <1>1, WrapSmall DEF Need

LEMMA InvInit == Init => Inv
<1> SUFFICES ASSUME Init PROVE Inv
  OBVIOUS
<1>1. 0 \in SizeType /\ MaxSize >= 0
  BY StringBuilderAssumption DEF SizeType
<1>2. NoCall \in Calls
  BY <1>1 DEF NoCall, Calls
<1>3. buffer = <<>> /\ value = <<>> /\ Len(buffer) = 0 /\ Len(value) = 0
      /\ bufferLength = 0 /\ bufferCapacity = 0 /\ newCapacity = 0 /\ extent = 0
      /\ pc = "idle" /\ call = NoCall
  BY DEF Init
<1>4. buffer \in Seq(Cells) /\ value \in Seq(Cells)
  BY <1>3
<1>5. TypeOK
  BY <1>1, <1>2, <1>3, <1>4 DEF TypeOK, Locations
<1>6. MemoryInv /\ RoomInv /\ NoOverrun
  BY <1>1, <1>3 DEF MemoryInv, RoomInv, NoOverrun
<1>7. CallInv /\ GrowInv
  BY <1>3 DEF CallInv, GrowInv, Busy
<1>8. ValueInv
  BY <1>3 DEF ValueInv
<1> QED BY <1>5, <1>6, <1>7, <1>8 DEF Inv

-----------------------------------------------------------------------------
(***************************************************************************)
(* The user's calls.                                                       *)
(***************************************************************************)

\* A call that starts: its record is well formed and its demands are bounded.
LEMMA InvBegin ==
  ASSUME Inv, NEW o \in {"append", "assign", "resize", "format"},
         NEW s \in Seq(Chars), NEW count \in Nat, NEW loc \in {"reserve", "write"},
         Begin(o, s, count, loc),
         count <= MaxSize + FormatRoom,
         o = "append" => bufferLength + Len(s) <= count /\ count <= MaxSize,
         o = "assign" => Len(s) = count /\ count <= MaxSize,
         o = "resize" => count <= MaxSize,
         o = "format" => bufferLength <= count /\ bufferLength + Len(s) <= MaxSize,
         loc = "write" => count < bufferCapacity
  PROVE  Inv'
<1>1. Wrap(count) = count /\ count \in SizeType
  BY WrapSmall, Sizes DEF Inv, SizeType
<1>2. call' = [op |-> o, s |-> s, count |-> count] /\ call' \in Calls
  BY <1>1 DEF Begin, Calls
<1>3. call'.op = o /\ call'.s = s /\ call'.count = count
  BY <1>2
<1>4. /\ pc = "idle" /\ pc' = loc
      /\ UNCHANGED <<buffer, bufferLength, bufferCapacity, newCapacity, extent, value>>
  BY DEF Begin, object
<1>5. TypeOK'
  BY <1>2, <1>4 DEF Inv, TypeOK, Locations
<1>6. (MemoryInv /\ RoomInv /\ NoOverrun)'
  BY <1>4 DEF Inv, MemoryInv, RoomInv, NoOverrun
<1>7. CallInv'
  BY <1>3, <1>4 DEF CallInv, Busy
<1>8. GrowInv' /\ ValueInv'
  BY <1>3, <1>4 DEF Inv, GrowInv, ValueInv
<1> QED BY <1>5, <1>6, <1>7, <1>8 DEF Inv

LEMMA InvCalls ==
  ASSUME Inv,
         \/ \E s \in Texts, room \in 0..MaxSize : AppendText(s, room)
         \/ \E c \in Chars : AppendChar(c)
         \/ \E s \in Texts : AppendFormat(s) \/ Assign(s)
         \/ \E count \in 0..MaxSize : Resize(count)
  PROVE  Inv'
<1>0. /\ bufferLength \in Nat /\ MaxSize \in Nat /\ FormatRoom \in Nat
      /\ Modulus \in Nat /\ MaxSize + FormatRoom + 1 < Modulus
      /\ bufferCapacity \in Nat /\ bufferLength <= MaxSize
  BY Sizes DEF Inv, RoomInv
<1>1. \A s \in Texts : s \in Seq(Chars) /\ Len(s) \in Nat
  BY StringBuilderAssumption
<1>2. ASSUME NEW s \in Texts, NEW room \in 0..MaxSize, AppendText(s, room)
      PROVE  Inv'
  BY <1>0, <1>1, <1>2, InvBegin DEF AppendText
<1>3. ASSUME NEW c \in Chars, AppendChar(c)
      PROVE  Inv'
  <2> DEFINE t == <<c>>
             n == bufferLength + 1
  <2>1. t \in Seq(Chars) /\ Len(t) = 1
    OBVIOUS
  <2>2. n <= MaxSize
    BY <1>3 DEF AppendChar
  <2>3. n \in Nat /\ n <= MaxSize + FormatRoom /\ bufferLength + Len(t) <= n
    BY <1>0, <2>1, <2>2
  <2>4. Wrap(bufferLength + 2) = n + 1
    BY <1>0, <2>2, WrapSmall
  <2>5. CASE Wrap(bufferLength + 2) >= bufferCapacity
    <3>1. Begin("append", t, n, "reserve")
      BY <1>3, <2>5 DEF AppendChar
    <3> HIDE DEF t, n
    <3> QED BY <2>1, <2>2, <2>3, <3>1, InvBegin
  <2>6. CASE ~(Wrap(bufferLength + 2) >= bufferCapacity)
    <3>1. Begin("append", t, n, "write")
      BY <1>3, <2>6 DEF AppendChar
    <3>2. n < bufferCapacity
      BY <1>0, <2>3, <2>4, <2>6
    <3> HIDE DEF t, n
    <3> QED BY <2>1, <2>2, <2>3, <3>1, <3>2, InvBegin
  <2> QED BY <2>5, <2>6
<1>4. ASSUME NEW s \in Texts, AppendFormat(s)
      PROVE  Inv'
  BY <1>0, <1>1, <1>4, InvBegin DEF AppendFormat
<1>5. ASSUME NEW s \in Texts, Assign(s)
      PROVE  Inv'
  BY <1>0, <1>1, <1>5, InvBegin DEF Assign
<1>6. ASSUME NEW count \in 0..MaxSize, Resize(count)
      PROVE  Inv'
  <2> DEFINE t == <<>>
  <2>1. t \in Seq(Chars) /\ Begin("resize", t, count, "reserve")
    BY <1>6 DEF Resize
  <2>2. count \in Nat /\ count <= MaxSize
    BY <1>0
  <2> HIDE DEF t
  <2> QED BY <1>0, <2>1, <2>2, InvBegin
<1> QED BY <1>2, <1>3, <1>4, <1>5, <1>6

\* Calls that run at once, and the start of a constructor.
LEMMA InvAtOnce ==
  ASSUME Inv, Clear \/ CStr \/ MoveFrom \/ Destroy
  PROVE  Inv'
<1>0. /\ bufferLength \in Nat /\ bufferCapacity \in Nat /\ MaxSize \in Nat
      /\ Len(buffer) \in Nat /\ bufferLength <= MaxSize /\ 0 \in SizeType
  BY Sizes, StringBuilderAssumption DEF Inv, RoomInv, SizeType
<1>1. pc = "idle" /\ UNCHANGED <<call, newCapacity>> /\ pc' \in {"idle", "dead"}
  BY DEF Clear, CStr, MoveFrom, Destroy
<1>2. CallInv' /\ GrowInv'
  BY <1>1 DEF CallInv, GrowInv, Busy
<1>3. Len(buffer) = bufferCapacity
  BY <1>1 DEF Inv, MemoryInv
<1>4. CASE Clear
  <2>1. value' = <<>> /\ value' \in Seq(Cells) /\ Len(value') = 0
    BY <1>4 DEF Clear
  <2>2. bufferLength' = 0 /\ UNCHANGED <<buffer, bufferCapacity, extent, pc>>
    BY <1>4 DEF Clear
  <2>3. TypeOK'
    BY <1>0, <1>1, <2>1, <2>2 DEF Inv, TypeOK
  <2>4. (MemoryInv /\ RoomInv /\ NoOverrun /\ ValueInv)'
    BY <1>0, <1>1, <2>1, <2>2 DEF Inv, MemoryInv, RoomInv, NoOverrun, ValueInv
  <2> QED BY <1>2, <2>3, <2>4 DEF Inv
<1>5. CASE CStr
  <2> DEFINE t == <<Nul>>
  <2>1. t \in Seq(Cells) /\ Len(t) = 1
    BY DEF Cells
  <2>2. buffer' = Copied(buffer, bufferLength, t)
    BY <1>5 DEF CStr
  <2>3. buffer \in Seq(Cells)
    BY DEF Inv, TypeOK
  <2> HIDE DEF t
  <2>4. /\ buffer' \in Seq(Cells)
        /\ Len(buffer') = Len(buffer)
        /\ \A k \in 1..Len(buffer) : k <= bufferLength => buffer'[k] = buffer[k]
    BY <1>0, <2>1, <2>2, <2>3, CopiedFacts
  <2>5. /\ extent' = bufferLength + 1 /\ bufferCapacity # 0 /\ pc' = "idle"
        /\ UNCHANGED <<bufferLength, bufferCapacity, value>>
    BY <1>1, <1>5 DEF CStr
  <2>6. bufferLength < Len(buffer)
    BY <1>3, <2>5 DEF Inv, RoomInv
  <2>7. TypeOK'
    BY <1>0, <1>1, <2>4, <2>5 DEF Inv, TypeOK
  <2>8. (MemoryInv /\ RoomInv /\ NoOverrun)'
    BY <1>0, <1>1, <2>4, <2>5, <2>6 DEF Inv, MemoryInv, RoomInv, NoOverrun
  <2>9. ValueInv'
    BY <1>0, <1>1, <2>4, <2>5, <2>6 DEF Inv, ValueInv
  <2> QED BY <1>2, <2>7, <2>8, <2>9 DEF Inv
<1>6. CASE MoveFrom \/ Destroy
  <2>1. /\ buffer' = <<>> /\ value' = <<>> /\ bufferLength' = 0
        /\ bufferCapacity' = 0 /\ extent' = 0
    BY <1>6 DEF MoveFrom, Destroy
  <2>2. /\ buffer' \in Seq(Cells) /\ Len(buffer') = 0
        /\ value' \in Seq(Cells) /\ Len(value') = 0
    BY <2>1
  <2>3. TypeOK'
    BY <1>0, <1>1, <2>1, <2>2 DEF Inv, TypeOK, Locations
  <2>4. (MemoryInv /\ RoomInv /\ NoOverrun /\ ValueInv)'
    BY <1>0, <1>1, <2>1, <2>2 DEF MemoryInv, RoomInv, NoOverrun, ValueInv
  <2> QED BY <1>2, <2>3, <2>4 DEF Inv
<1> QED BY <1>4, <1>5, <1>6

LEMMA InvConstruct ==
  ASSUME Inv, NEW s \in Texts, Construct(s)
  PROVE  Inv'
<1>1. s \in Seq(Chars) /\ Len(s) \in Nat /\ Len(s) <= MaxSize
  BY StringBuilderAssumption DEF Construct
<1>2. Len(s) \in SizeType /\ minCapacity \in SizeType /\ minCapacity >= 1
  BY <1>1, StringBuilderAssumption DEF SizeType
<1>3. call' = [op |-> "construct", s |-> s, count |-> Len(s)] /\ call' \in Calls
  BY <1>1, <1>2 DEF Construct, Calls
<1>4. call'.op = "construct" /\ call'.s = s /\ call'.count = Len(s)
  BY <1>3
<1>5. /\ pc = "dead" /\ pc' = "init" /\ bufferCapacity' = minCapacity
      /\ UNCHANGED <<buffer, bufferLength, newCapacity, extent, value>>
  BY DEF Construct
<1>6. TypeOK'
  BY <1>2, <1>3, <1>5 DEF Inv, TypeOK, Locations
<1>7. (MemoryInv /\ RoomInv /\ NoOverrun)'
  BY <1>2, <1>5 DEF Inv, MemoryInv, RoomInv, NoOverrun
<1>8. CallInv'
  BY <1>1, <1>4, <1>5, StringBuilderAssumption DEF CallInv, Busy
<1>9. GrowInv' /\ ValueInv'
  BY <1>5 DEF Inv, GrowInv, ValueInv
<1> QED BY <1>6, <1>7, <1>8, <1>9 DEF Inv

-----------------------------------------------------------------------------
(***************************************************************************)
(* reserve() and _init().                                                  *)
(***************************************************************************)
LEMMA InvReserve ==
  ASSUME Inv, Reserve \/ Grow
  PROVE  Inv'
<1>0. /\ bufferCapacity \in Nat /\ newCapacity \in Nat /\ call.count \in Nat
      /\ bufferCapacity < Modulus /\ Modulus \in Nat
      /\ minCapacity \in Nat /\ minCapacity >= 1 /\ minCapacity < Modulus
  BY Sizes DEF Inv
<1>1. /\ pc \in {"reserve", "grow"} /\ pc' \in {"grow", "write"}
      /\ UNCHANGED <<buffer, bufferLength, bufferCapacity, call, extent, value>>
  BY DEF Reserve, Grow, object
<1>2. Need(call.count) = call.count + 1
  BY <1>1, NeedFacts DEF Busy
<1>3. newCapacity' \in SizeType /\ GrowInv'
  <2>1. CASE Reserve
    BY <1>0, <1>1, <1>2, <2>1 DEF Reserve, GrowthStart, GrowInv, Inv, TypeOK, SizeType
  <2>2. CASE Grow
    <3>1. call.count <= MaxSize + FormatRoom /\ newCapacity < call.count + 1
      BY <1>1, <1>2, <2>2 DEF Inv, CallInv, Busy, Grow
    <3>2. 2 * newCapacity < Modulus /\ 2 * newCapacity \in Nat
      BY <1>0, <3>1, StringBuilderAssumption
    <3>3. newCapacity' = 2 * newCapacity
      BY <2>2, <3>2, WrapSmall DEF Grow
    <3>4. pc = "grow" /\ pc' = "grow"
      BY <2>2 DEF Grow
    <3>5. newCapacity >= 1 /\ newCapacity >= bufferCapacity
      BY <3>4 DEF Inv, GrowInv
    <3> QED BY <1>0, <1>1, <3>2, <3>3, <3>4, <3>5 DEF GrowInv, SizeType
  <2> QED BY <2>1, <2>2
<1>4. TypeOK'
  BY <1>1, <1>3 DEF Inv, TypeOK, Locations
<1>5. (MemoryInv /\ RoomInv /\ NoOverrun)'
  BY <1>1 DEF Inv, MemoryInv, RoomInv, NoOverrun
<1>6. CallInv' /\ call.op # "construct"
  BY <1>1 DEF Inv, CallInv, Busy
<1>7. ValueInv'
  BY <1>1, <1>6 DEF Inv, ValueInv
<1> QED BY <1>3, <1>4, <1>5, <1>6, <1>7 DEF Inv

LEMMA InvRealloc ==
  ASSUME Inv, Realloc \/ ReallocFails
  PROVE  Inv'
<1>0. /\ bufferCapacity \in Nat /\ newCapacity \in Nat /\ call.count \in Nat
      /\ bufferLength \in Nat /\ Len(buffer) \in Nat /\ 0 \in SizeType
  BY Sizes, StringBuilderAssumption DEF Inv, SizeType
<1>1. /\ pc = "grow" /\ newCapacity' = 0
      /\ UNCHANGED <<bufferLength, extent, value>>
  BY DEF Realloc, ReallocFails, object
<1>2. /\ newCapacity >= 1 /\ newCapacity >= bufferCapacity
      /\ newCapacity >= call.count + 1 /\ Len(buffer) = bufferCapacity
      /\ call.op # "construct"
  BY <1>1, NeedFacts DEF Inv, GrowInv, MemoryInv, CallInv, Busy, Realloc, ReallocFails
<1>3. CASE Realloc
  <2>1. /\ buffer' = Resized(buffer, newCapacity) /\ bufferCapacity' = newCapacity
        /\ pc' = "write" /\ call' = call
    BY <1>3 DEF Realloc
  <2>2. buffer \in Seq(Cells)
    BY DEF Inv, TypeOK
  <2>3. /\ buffer' \in Seq(Cells) /\ Len(buffer') = newCapacity
        /\ \A k \in 1..newCapacity : k <= Len(buffer) => buffer'[k] = buffer[k]
    BY <1>0, <2>1, <2>2, ResizedFacts
  <2>4. TypeOK'
    BY <1>0, <1>1, <2>1, <2>3 DEF Inv, TypeOK, Locations
  <2>5. (MemoryInv /\ RoomInv /\ NoOverrun)'
    BY <1>0, <1>1, <1>2, <2>1, <2>3, <2>4
       DEF Inv, TypeOK, MemoryInv, RoomInv, NoOverrun
  <2>6. CallInv'
    BY <1>1, <1>2, <2>1 DEF Inv, CallInv, Busy
  <2>7. GrowInv'
    BY <1>0, <1>2, <2>1 DEF GrowInv
  <2>8. bufferLength <= Len(buffer) /\ Len(buffer) <= newCapacity
    BY <1>0, <1>2 DEF Inv, RoomInv
  <2>9. ValueInv'
    BY <1>0, <1>1, <1>2, <2>1, <2>3, <2>8 DEF Inv, ValueInv
  <2> QED BY <2>4, <2>5, <2>6, <2>7, <2>9 DEF Inv
<1>4. CASE ReallocFails
  <2>1. pc' = "idle" /\ UNCHANGED <<buffer, bufferCapacity>> /\ call' = NoCall
    BY <1>4 DEF ReallocFails, object
  <2>2. NoCall \in Calls
    BY <1>0 DEF NoCall, Calls
  <2>3. TypeOK'
    BY <1>0, <1>1, <2>1, <2>2 DEF Inv, TypeOK, Locations
  <2>4. (MemoryInv /\ RoomInv /\ NoOverrun)'
    BY <1>1, <1>2, <2>1 DEF Inv, MemoryInv, RoomInv, NoOverrun
  <2>5. CallInv' /\ GrowInv'
    BY <2>1 DEF CallInv, GrowInv, Busy
  <2>6. ValueInv'
    BY <1>1, <2>1 DEF Inv, ValueInv
  <2> QED BY <2>3, <2>4, <2>5, <2>6 DEF Inv
<1> QED BY <1>3, <1>4

LEMMA InvMalloc ==
  ASSUME Inv, InitGrow \/ Malloc
  PROVE  Inv'
<1>0. /\ bufferCapacity \in Nat /\ call.count \in Nat /\ 0 \in SizeType
      /\ bufferCapacity < Modulus /\ Modulus \in Nat
  BY Sizes, StringBuilderAssumption DEF Inv, SizeType
<1>1. pc = "init" /\ UNCHANGED <<newCapacity, extent, value>>
  BY DEF InitGrow, Malloc
<1>2. /\ Need(call.count) = call.count + 1 /\ call.op = "construct"
      /\ call.count <= MaxSize + FormatRoom /\ call.count <= MaxSize
      /\ buffer = <<>> /\ bufferLength = 0 /\ value = <<>> /\ bufferCapacity >= 1
  BY <1>1, NeedFacts DEF Inv, CallInv, MemoryInv, Busy
<1>3. Len(buffer) = 0 /\ Len(value) = 0 /\ extent = 0
  BY <1>2 DEF Inv, TypeOK, NoOverrun
<1>4. CASE InitGrow
  <2>1. 2 * bufferCapacity \in Nat /\ 2 * bufferCapacity < Modulus
    BY <1>0, <1>2, <1>4, StringBuilderAssumption DEF InitGrow
  <2>2. /\ bufferCapacity' = 2 * bufferCapacity /\ pc' = "init"
        /\ UNCHANGED <<buffer, bufferLength, call>>
    BY <1>4, <2>1, WrapSmall, <1>1 DEF InitGrow
  <2>3. bufferCapacity' \in SizeType /\ bufferCapacity' >= 1
    BY <1>0, <1>2, <2>1, <2>2 DEF SizeType
  <2>4. TypeOK'
    BY <1>1, <2>2, <2>3 DEF Inv, TypeOK
  <2>5. (MemoryInv /\ RoomInv /\ NoOverrun)'
    BY <1>1, <2>2, <2>3 DEF Inv, MemoryInv, RoomInv, NoOverrun
  <2>6. (CallInv /\ GrowInv /\ ValueInv)'
    BY <1>1, <2>2 DEF Inv, CallInv, GrowInv, ValueInv, Busy
  <2> QED BY <2>4, <2>5, <2>6 DEF Inv
<1>5. CASE Malloc /\ pc' = "write"
  <2>1. /\ buffer' = Resized(<<>>, bufferCapacity) /\ bufferLength' = call.count
        /\ UNCHANGED <<bufferCapacity, call>> /\ bufferCapacity >= call.count + 1
    BY <1>2, <1>5 DEF Malloc
  <2> DEFINE e == <<>>
  <2>2. e \in Seq(Cells)
    OBVIOUS
  <2>3. buffer' = Resized(e, bufferCapacity)
    BY <2>1
  <2> HIDE DEF e
  <2>4. buffer' \in Seq(Cells) /\ Len(buffer') = bufferCapacity
    BY <1>0, <2>2, <2>3, ResizedFacts
  <2>5. call.count \in SizeType
    BY DEF Inv, TypeOK, Calls
  <2>6. TypeOK'
    BY <1>1, <1>5, <2>1, <2>4, <2>5 DEF Inv, TypeOK, Locations
  <2>7. (MemoryInv /\ RoomInv /\ NoOverrun)'
    BY <1>0, <1>1, <1>2, <1>3, <1>5, <2>1, <2>4 DEF MemoryInv, RoomInv, NoOverrun
  <2>8. CallInv'
    BY <1>1, <1>2, <1>5, <2>1 DEF Inv, CallInv, Busy
  <2>9. (GrowInv /\ ValueInv)'
    BY <1>0, <1>2, <1>5, <2>1 DEF GrowInv, ValueInv
  <2> QED BY <2>6, <2>7, <2>8, <2>9 DEF Inv
<1>6. CASE Malloc /\ pc' = "dead"
  <2>1. /\ bufferCapacity' = 0 /\ call' = NoCall /\ UNCHANGED <<buffer, bufferLength>>
    BY <1>6 DEF Malloc
  <2>2. NoCall \in Calls
    BY <1>0 DEF NoCall, Calls
  <2>3. TypeOK'
    BY <1>0, <1>1, <1>6, <2>1, <2>2 DEF Inv, TypeOK, Locations
  <2>4. (MemoryInv /\ RoomInv /\ NoOverrun)'
    BY <1>1, <1>2, <1>3, <1>6, <2>1 DEF Inv, MemoryInv, RoomInv, NoOverrun
  <2>5. (CallInv /\ GrowInv /\ ValueInv)'
    BY <1>1, <1>2, <1>3, <1>6, <2>1 DEF CallInv, GrowInv, ValueInv, Busy
  <2> QED BY <2>3, <2>4, <2>5 DEF Inv
<1> QED BY <1>4, <1>5, <1>6 DEF Malloc

-----------------------------------------------------------------------------
(***************************************************************************)
(* The end of a call.                                                      *)
(***************************************************************************)

\* A call that copies t, which begins with the text s, to the end of the
\* builder and adds s to the length.
LEMMA InvExtend ==
  ASSUME Inv, pc = "write", call.op # "construct",
         NEW s \in Seq(Chars), NEW t \in Seq(Cells),
         Len(s) <= Len(t), \A k \in 1..Len(s) : t[k] = s[k],
         bufferLength + Len(t) <= bufferCapacity,
         bufferLength + Len(s) < bufferCapacity,
         bufferLength + Len(s) <= MaxSize,
         buffer' = Copied(buffer, bufferLength, t),
         extent' = bufferLength + Len(t),
         bufferLength' = Wrap(bufferLength + Len(s)),
         value' = value \o s,
         pc' = "idle", call' = NoCall, UNCHANGED <<bufferCapacity, newCapacity>>
  PROVE  Inv'
<1>0. /\ bufferLength \in Nat /\ bufferCapacity \in Nat /\ bufferCapacity < Modulus
      /\ Len(buffer) \in Nat /\ Len(value) \in Nat /\ Len(s) \in Nat /\ Len(t) \in Nat
      /\ Modulus \in Nat /\ 0 \in SizeType /\ buffer \in Seq(Cells)
      /\ value \in Seq(Cells)
  BY Sizes, StringBuilderAssumption DEF Inv, TypeOK, SizeType
<1>1. bufferLength' = bufferLength + Len(s) /\ bufferLength' \in SizeType
  BY <1>0, WrapSmall DEF SizeType
<1>2. Len(buffer) = bufferCapacity /\ bufferLength = Len(value)
      /\ \A k \in 1..bufferLength : buffer[k] = value[k]
  BY DEF Inv, MemoryInv, ValueInv
<1>3. /\ buffer' \in Seq(Cells) /\ Len(buffer') = Len(buffer)
      /\ \A k \in 1..Len(buffer) : k <= bufferLength => buffer'[k] = buffer[k]
      /\ \A k \in 1..Len(buffer) : bufferLength < k /\ k <= bufferLength + Len(t)
                                     => buffer'[k] = t[k - bufferLength]
  <2> DEFINE c == Copied(buffer, bufferLength, t)
  <2>1. c = buffer'
    OBVIOUS
  <2>2. /\ c \in Seq(Cells)
        /\ Len(c) = Len(buffer)
        /\ \A k \in 1..Len(buffer) : k <= bufferLength => c[k] = buffer[k]
        /\ \A k \in 1..Len(buffer) : bufferLength < k /\ k <= bufferLength + Len(t)
                                       => c[k] = t[k - bufferLength]
    BY <1>0, CopiedFacts, Zenon
  <2> HIDE DEF c
  <2> QED BY <2>1, <2>2
<1>4. s \in Seq(Cells)
  <2>1. Chars \subseteq Cells
    BY DEF Cells
  <2> QED BY <2>1
<1>5. /\ value' \in Seq(Cells) /\ Len(value') = Len(value) + Len(s)
      /\ \A k \in 1..(Len(value) + Len(s)) :
           value'[k] = IF k <= Len(value) THEN value[k] ELSE s[k - Len(value)]
  BY <1>0, <1>4
<1>6. \A k \in 1..bufferLength' : buffer'[k] = value'[k]
  <2> TAKE k \in 1..bufferLength'
  <2>1. k \in 1..Len(buffer) /\ k \in 1..(Len(value) + Len(s))
    BY <1>0, <1>1, <1>2
  <2>2. CASE k <= bufferLength
    BY <1>0, <1>2, <1>3, <1>5, <2>1, <2>2
  <2>3. CASE bufferLength < k
    <3>1. k - bufferLength \in 1..Len(s)
      BY <1>0, <1>1, <2>3
    <3>2. k <= bufferLength + Len(t)
      BY <1>0, <1>1
    <3>3. buffer'[k] = t[k - bufferLength]
      BY <1>3, <2>1, <2>3, <3>2
    <3>4. t[k - bufferLength] = s[k - bufferLength]
      BY <3>1
    <3>5. value'[k] = s[k - bufferLength]
      BY <1>0, <1>2, <1>5, <2>1, <2>3
    <3> QED BY <3>3, <3>4, <3>5
  <2> QED BY <1>0, <2>1, <2>2, <2>3
<1>7. NoCall \in Calls
  BY <1>0 DEF NoCall, Calls
<1>8. TypeOK'
  BY <1>0, <1>1, <1>3, <1>5, <1>7 DEF Inv, TypeOK, Locations
<1>9. (MemoryInv /\ RoomInv /\ NoOverrun)'
  BY <1>0, <1>1, <1>2, <1>3 DEF MemoryInv, RoomInv, NoOverrun
<1>10. (CallInv /\ GrowInv)'
  BY DEF CallInv, GrowInv, Busy
<1>11. ValueInv'
  BY <1>0, <1>1, <1>2, <1>5, <1>6 DEF ValueInv
<1> QED BY <1>8, <1>9, <1>10, <1>11 DEF Inv

LEMMA InvWriteAppend ==
  ASSUME Inv, WriteAppend
  PROVE  Inv'
<1>0. /\ call.s \in Seq(Chars) /\ Len(call.s) \in Nat /\ call.count \in Nat
      /\ bufferLength \in Nat /\ bufferCapacity \in Nat /\ MaxSize \in Nat
  BY Sizes DEF Inv
<1>1. pc = "write" /\ call.op = "append"
  BY DEF WriteAppend
<1>2. /\ bufferLength + Len(call.s) <= call.count /\ call.count <= MaxSize
      /\ call.count < bufferCapacity
  BY <1>1 DEF Inv, CallInv, GrowInv, Busy
<1>3. call.s \in Seq(Cells)
  <2>1. Chars \subseteq Cells
    BY DEF Cells
  <2> QED BY <1>0, <2>1
<1>4. /\ bufferLength + Len(call.s) < bufferCapacity
      /\ bufferLength + Len(call.s) <= bufferCapacity
      /\ bufferLength + Len(call.s) <= MaxSize
  BY <1>0, <1>2
<1> DEFINE t == call.s
<1>5. /\ t \in Seq(Chars) /\ t \in Seq(Cells) /\ Len(t) \in Nat
      /\ bufferLength + Len(t) < bufferCapacity
      /\ bufferLength + Len(t) <= bufferCapacity
      /\ bufferLength + Len(t) <= MaxSize
  BY <1>0, <1>3, <1>4
<1>6. /\ buffer' = Copied(buffer, bufferLength, t)
      /\ extent' = bufferLength + Len(t)
      /\ bufferLength' = Wrap(bufferLength + Len(t))
      /\ value' = value \o t
      /\ pc' = "idle" /\ call' = NoCall /\ UNCHANGED <<bufferCapacity, newCapacity>>
  BY DEF WriteAppend
<1> HIDE DEF t
<1>7. Len(t) <= Len(t) /\ \A k \in 1..Len(t) : t[k] = t[k]
  BY <1>5
<1>8. call.op # "construct"
  BY <1>1
<1> QED BY <1>1, <1>5, <1>6, <1>7, <1>8, InvExtend

LEMMA InvWriteWhole ==
  ASSUME Inv, WriteWhole
  PROVE  Inv'
<1>0. /\ call.s \in Seq(Chars) /\ Len(call.s) \in Nat /\ call.count \in Nat
      /\ bufferLength \in Nat /\ bufferCapacity \in Nat /\ MaxSize \in Nat
      /\ Len(buffer) \in Nat /\ buffer \in Seq(Cells) /\ call.count \in SizeType
      /\ 0 \in SizeType
  BY Sizes, StringBuilderAssumption DEF Inv, TypeOK, Calls, SizeType
<1>1. /\ pc = "write" /\ call.op \in {"assign", "construct"} /\ pc' = "idle"
      /\ bufferLength' = call.count /\ buffer' = Copied(buffer, 0, call.s)
      /\ extent' = Len(call.s) /\ value' = call.s /\ call' = NoCall
      /\ UNCHANGED <<bufferCapacity, newCapacity>>
  BY DEF WriteWhole
<1>2. /\ Len(call.s) = call.count /\ call.count <= MaxSize
      /\ call.count < bufferCapacity /\ Len(buffer) = bufferCapacity
  BY <1>1 DEF Inv, CallInv, GrowInv, MemoryInv, Busy
<1>3. call.s \in Seq(Cells)
  <2>1. Chars \subseteq Cells
    BY DEF Cells
  <2> QED BY <1>0, <2>1
<1>4. /\ buffer' \in Seq(Cells) /\ Len(buffer') = Len(buffer)
      /\ \A k \in 1..Len(buffer) : k <= Len(call.s) => buffer'[k] = call.s[k]
  <2> DEFINE t == call.s
             off == 0
  <2>1. t \in Seq(Cells) /\ off \in Nat /\ buffer' = Copied(buffer, off, t)
    BY <1>1, <1>3
  <2>2. off = 0 /\ t = call.s
    OBVIOUS
  <2> HIDE DEF t, off
  <2>3. /\ buffer' \in Seq(Cells) /\ Len(buffer') = Len(buffer)
        /\ \A k \in 1..Len(buffer) : off < k /\ k <= off + Len(t)
                                       => buffer'[k] = t[k - off]
    BY <1>0, <2>1, CopiedFacts
  <2>4. ASSUME NEW k \in 1..Len(buffer), k <= Len(call.s)
        PROVE  buffer'[k] = call.s[k]
    <3>1. off < k /\ k <= off + Len(t) /\ k - off = k
      BY <1>0, <2>2, <2>4
    <3>2. buffer'[k] = t[k - off]
      BY <2>3, <3>1
    <3> QED BY <2>2, <3>1, <3>2
  <2> QED BY <2>3, <2>4
<1>5. \A k \in 1..call.count : buffer'[k] = call.s[k]
  BY <1>0, <1>2, <1>4
<1>6. NoCall \in Calls
  BY <1>0 DEF NoCall, Calls
<1>7. TypeOK'
  BY <1>0, <1>1, <1>3, <1>4, <1>6 DEF Inv, TypeOK, Locations
<1>8. (MemoryInv /\ RoomInv /\ NoOverrun)'
  BY <1>0, <1>1, <1>2, <1>4 DEF MemoryInv, RoomInv, NoOverrun
<1>9. (CallInv /\ GrowInv)'
  BY <1>1 DEF CallInv, GrowInv, Busy
<1>10. ValueInv'
  BY <1>0, <1>1, <1>2, <1>5 DEF ValueInv
<1> QED BY <1>7, <1>8, <1>9, <1>10 DEF Inv

LEMMA InvWriteResize ==
  ASSUME Inv, WriteResize
  PROVE  Inv'
<1>0. /\ call.count \in Nat /\ bufferLength \in Nat /\ bufferCapacity \in Nat
      /\ MaxSize \in Nat /\ Len(buffer) \in Nat /\ Len(value) \in Nat
      /\ buffer \in Seq(Cells) /\ value \in Seq(Cells)
      /\ call.count \in SizeType /\ 0 \in SizeType
  BY Sizes, StringBuilderAssumption DEF Inv, TypeOK, Calls, SizeType
<1>1. /\ pc = "write" /\ call.op = "resize" /\ pc' = "idle"
      /\ bufferLength' = call.count /\ call' = NoCall
      /\ value' = [k \in 1..call.count |->
                     IF k <= Len(value) THEN value[k] ELSE buffer[k]]
      /\ UNCHANGED <<buffer, bufferCapacity, newCapacity, extent>>
  BY DEF WriteResize
<1>2. /\ call.count <= MaxSize /\ call.count < bufferCapacity
      /\ Len(buffer) = bufferCapacity /\ bufferLength = Len(value)
      /\ \A k \in 1..bufferLength : buffer[k] = value[k]
  BY <1>1 DEF Inv, CallInv, GrowInv, MemoryInv, ValueInv, Busy
<1>3. \A k \in 1..call.count : value'[k] = buffer[k] /\ buffer[k] \in Cells
  BY <1>0, <1>1, <1>2
<1>4. value' \in Seq(Cells) /\ Len(value') = call.count
  <2> DEFINE n == call.count
  <2>1. value' \in [1..n -> Cells] /\ n \in Nat
    BY <1>0, <1>1, <1>3
  <2>2. n = call.count
    OBVIOUS
  <2> HIDE DEF n
  <2> QED BY <2>1, <2>2, FunctionIsSeq
<1>5. NoCall \in Calls
  BY <1>0 DEF NoCall, Calls
<1>6. TypeOK'
  BY <1>0, <1>1, <1>4, <1>5 DEF Inv, TypeOK, Locations
<1>7. (MemoryInv /\ RoomInv /\ NoOverrun)'
  BY <1>0, <1>1, <1>2 DEF Inv, MemoryInv, RoomInv, NoOverrun
<1>8. (CallInv /\ GrowInv)'
  BY <1>1 DEF CallInv, GrowInv, Busy
<1>9. ValueInv'
  BY <1>1, <1>3, <1>4 DEF ValueInv
<1> QED BY <1>6, <1>7, <1>8, <1>9 DEF Inv

LEMMA InvWriteFormat ==
  ASSUME Inv, WriteFormat
  PROVE  Inv'
<1>0. /\ call.s \in Seq(Chars) /\ Len(call.s) \in Nat /\ call.count \in Nat
      /\ bufferLength \in Nat /\ bufferCapacity \in Nat /\ MaxSize \in Nat
      /\ FormatRoom \in Nat /\ Modulus \in Nat /\ MaxSize + FormatRoom + 1 < Modulus
      /\ Len(buffer) \in Nat /\ buffer \in Seq(Cells)
  BY Sizes DEF Inv, TypeOK
<1>1. pc = "write" /\ call.op = "format" /\ UNCHANGED <<bufferCapacity, newCapacity>>
  BY DEF WriteFormat
<1>2. /\ bufferLength <= call.count /\ bufferLength + Len(call.s) <= MaxSize
      /\ call.count < bufferCapacity /\ Len(buffer) = bufferCapacity
  BY <1>1 DEF Inv, CallInv, GrowInv, MemoryInv, Busy
<1> DEFINE u == call.s
           n == IF Len(u) < Space THEN Len(u) ELSE Space - 1
           t == Terminated(u, n)
<1>3. u \in Seq(Chars) /\ Len(u) \in Nat /\ bufferLength + Len(u) <= MaxSize
  BY <1>0, <1>2
<1>4. Space = bufferCapacity - bufferLength /\ Space \in Nat /\ Space >= 1
  BY <1>0, <1>2 DEF Space
<1>5. n \in 0..Len(u) /\ n + 1 <= Space
  BY <1>3, <1>4
<1>6. /\ buffer' = Copied(buffer, bufferLength, t)
      /\ extent' = bufferLength + n + 1
  BY DEF WriteFormat
<1>7. CASE Len(u) < Space
  <2>1. n = Len(u)
    BY <1>7
  <2>2. /\ bufferLength' = Wrap(bufferLength + Len(u)) /\ value' = value \o u
        /\ pc' = "idle" /\ call' = NoCall
    BY <1>4, <1>3, <1>7 DEF WriteFormat
  <2> HIDE DEF u, n
  <2>3. t \in Seq(Cells) /\ Len(t) = n + 1 /\ \A k \in 1..n : t[k] = u[k]
    BY <1>3, <1>5, TerminatedFacts
  <2> HIDE DEF t
  <2>4. /\ Len(u) <= Len(t) /\ \A k \in 1..Len(u) : t[k] = u[k]
        /\ bufferLength + Len(t) <= bufferCapacity
        /\ bufferLength + Len(u) < bufferCapacity
        /\ extent' = bufferLength + Len(t)
    BY <1>0, <1>3, <1>4, <1>5, <1>6, <1>7, <2>1, <2>3
  <2>5. call.op # "construct"
    BY <1>1
  <2> QED BY <1>1, <1>3, <1>6, <2>2, <2>3, <2>4, <2>5, InvExtend
<1>8. CASE ~(Len(u) < Space)
  <2> DEFINE c == bufferLength + Len(u)
  <2>1. c \in Nat /\ c <= MaxSize /\ c < Modulus /\ Wrap(c) = c /\ c \in SizeType
    BY <1>0, <1>3, WrapSmall DEF SizeType
  <2>2. /\ call' = [op |-> "reformat", s |-> u, count |-> Wrap(c)]
        /\ pc' = "reserve" /\ UNCHANGED <<bufferLength, value>>
    BY <1>3, <1>4, <1>8 DEF WriteFormat
  <2> HIDE DEF u, n
  <2>3. t \in Seq(Cells) /\ Len(t) = n + 1
    BY <1>3, <1>5, TerminatedFacts
  <2> HIDE DEF t
  <2>4. /\ buffer' \in Seq(Cells) /\ Len(buffer') = Len(buffer)
        /\ \A k \in 1..Len(buffer) : k <= bufferLength => buffer'[k] = buffer[k]
    BY <1>0, <1>6, <2>3, CopiedFacts
  <2>5. extent' \in Nat /\ extent' <= Len(buffer)
    BY <1>0, <1>2, <1>3, <1>4, <1>5, <1>6
  <2> HIDE DEF c
  <2>6. call' \in Calls /\ call'.op = "reformat" /\ call'.s = u /\ call'.count = c
    BY <1>3, <2>1, <2>2 DEF Calls
  <2>7. bufferLength + Len(u) <= c
    BY <1>0, <1>3 DEF c
  <2>8. TypeOK'
    BY <1>1, <2>2, <2>4, <2>5, <2>6 DEF Inv, TypeOK, Locations
  <2>9. (MemoryInv /\ RoomInv /\ NoOverrun)'
    BY <1>0, <1>1, <1>2, <2>2, <2>4, <2>5 DEF Inv, MemoryInv, RoomInv, NoOverrun
  <2>10. CallInv'
    BY <1>0, <2>1, <2>2, <2>6, <2>7 DEF CallInv, Busy
  <2>11. GrowInv'
    BY <2>2 DEF GrowInv
  <2>12. ValueInv'
    <3>1. bufferLength = Len(value) /\ \A k \in 1..bufferLength : buffer[k] = value[k]
      BY <1>1 DEF Inv, ValueInv
    <3>2. \A k \in 1..bufferLength : k \in 1..Len(buffer) /\ k <= bufferLength
      BY <1>0, <1>2
    <3>3. \A k \in 1..bufferLength : buffer'[k] = value[k]
      BY <2>4, <3>1, <3>2
    <3> QED BY <2>2, <3>1, <3>3 DEF ValueInv
  <2> QED BY <2>8, <2>9, <2>10, <2>11, <2>12 DEF Inv
<1> QED BY <1>7, <1>8

LEMMA InvWriteReformat ==
  ASSUME Inv, WriteReformat
  PROVE  Inv'
<1>0. /\ call.s \in Seq(Chars) /\ Len(call.s) \in Nat /\ call.count \in Nat
      /\ bufferLength \in Nat /\ bufferCapacity \in Nat /\ MaxSize \in Nat
  BY Sizes DEF Inv
<1>1. pc = "write" /\ call.op = "reformat"
  BY DEF WriteReformat
<1>2. /\ bufferLength + Len(call.s) <= call.count /\ call.count <= MaxSize
      /\ call.count < bufferCapacity
  BY <1>1 DEF Inv, CallInv, GrowInv, Busy
<1> DEFINE u == call.s
           n == Len(u)
           t == Terminated(u, n)
<1>3. /\ u \in Seq(Chars) /\ n \in 0..Len(u) /\ n = Len(u) /\ Len(u) \in Nat
      /\ bufferLength + Len(u) < bufferCapacity /\ bufferLength + Len(u) <= MaxSize
  BY <1>0, <1>2
<1>4. /\ buffer' = Copied(buffer, bufferLength, t)
      /\ extent' = bufferLength + n + 1
      /\ bufferLength' = Wrap(bufferLength + Len(u))
      /\ value' = value \o u
      /\ pc' = "idle" /\ call' = NoCall /\ UNCHANGED <<bufferCapacity, newCapacity>>
  BY DEF WriteReformat
<1> HIDE DEF u, n
<1>5. t \in Seq(Cells) /\ Len(t) = n + 1 /\ \A k \in 1..n : t[k] = u[k]
  BY <1>3, TerminatedFacts
<1> HIDE DEF t
<1>6. /\ Len(u) <= Len(t) /\ \A k \in 1..Len(u) : t[k] = u[k]
      /\ bufferLength + Len(t) <= bufferCapacity
      /\ extent' = bufferLength + Len(t)
  BY <1>0, <1>3, <1>4, <1>5
<1>7. call.op # "construct"
  BY <1>1
<1> QED BY <1>1, <1>3, <1>4, <1>5, <1>6, <1>7, InvExtend

-----------------------------------------------------------------------------
(***************************************************************************)
(* The theorems.                                                           *)
(***************************************************************************)
LEMMA InvNext == Inv /\ [Next]_vars => Inv'
<1> SUFFICES ASSUME Inv, [Next]_vars PROVE Inv'
  OBVIOUS
<1>1. CASE UNCHANGED vars
  BY <1>1 DEF vars, Inv, TypeOK, MemoryInv, RoomInv, CallInv, GrowInv, NoOverrun,
              ValueInv, Busy
<1>2. CASE User
  BY <1>2, InvCalls, InvAtOnce, InvConstruct DEF User
<1>3. CASE Builder
  BY <1>3, InvReserve, InvRealloc, InvMalloc, InvWriteAppend, InvWriteWhole,
     InvWriteResize, InvWriteFormat, InvWriteReformat DEF Builder
<1> QED BY <1>1, <1>2, <1>3 DEF Next

LEMMA Invariance == Spec => []Inv
BY InvInit, InvNext, PTL DEF Spec

\* Every size stays a size_type and no character of the builder is anything
\* but a character, a terminator or what uninitialized memory holds.
THEOREM TypeCorrect == Spec => []TypeOK
<1>1. Inv => TypeOK
  BY DEF Inv
<1> QED BY <1>1, Invariance, PTL

\* No write of the builder leaves the memory that reserve() or _init() got,
\* whatever the texts and the width of size_type, as long as the length stays
\* within max_size(): the terminators of c_str and of append_format included.
THEOREM WritesStayInside == Spec => []NoOverrun
<1>1. Inv => NoOverrun
  BY DEF Inv
<1> QED BY <1>1, Invariance, PTL

\* Between two calls the builder holds exactly what the user has put in.
THEOREM ContentsKept == Spec => []Contents
<1>1. Inv => Contents
  <2> SUFFICES ASSUME Inv, pc = "idle"
               PROVE  /\ bufferLength = Len(value)
                      /\ bufferLength <= Len(buffer)
                      /\ \A k \in 1..bufferLength : buffer[k] = value[k]
    BY DEF Contents
  <2>1. bufferLength \in Nat /\ Len(buffer) \in Nat
    BY Sizes DEF Inv
  <2> QED BY <2>1 DEF Inv, RoomInv, ValueInv
<1> QED BY <1>1, Invariance, PTL
=============================================================================
