-------------------------------- MODULE Iov --------------------------------
(***************************************************************************)
(* The buffers of readvAll and writevAll (cpoll.C, doOperation): a vector  *)
(* of buffers is filled from, or written to, a stream by several readv or  *)
(* writev calls of any length, and between two calls the code advances the *)
(* caller's array in place.  When a call is made is the subject of FileOp; *)
(* this module is about where the bytes go and what the callback is told.  *)
(*                                                                         *)
(* The caller's vector is given by its boundaries: buffer i holds bytes    *)
(* bound[i-1] to bound[i] - 1 of the stream, counted from 0.               *)
(***************************************************************************)
EXTENDS Integers, Sequences

CONSTANTS
  MaxBufs,  \* bound: buffers of a vector
  MaxLen,   \* bound: the length of a buffer
  IntMax    \* INT_MAX

ASSUME IovAssumption == MaxBufs \in Nat /\ MaxLen \in Nat /\ IntMax \in Nat \ {0}

VARIABLES
  pc,        \* "idle", "total" (iovBytesTotal), "call", "copy" (the system
             \* call), "advance", "wait" (for epoll) or "done"
  bound,     \* history: the boundaries of the caller's vector
  iov,       \* the caller's array of [base, len]; base is the offset in the buffer
  first,     \* rwVInfo.iov: the buffers before it are done
  lenTotal,  \* rwVInfo.lenTotal, an int
  lenDone,   \* rwVInfo.lenDone, an int
  r,         \* the bytes of this call, less those of the buffers dropped
  cursor,    \* iovBytesTotal: the loop variable; the kernel: its buffer
  offset,    \* the kernel: its offset in that buffer
  hup,       \* doOperation's parameter
  ended,     \* history: an error, an end of stream or a hangup was met
  moved,     \* history: the cell <<buffer, offset>> of each byte moved so far
  answer     \* what the callback was told

vars == <<pc, bound, iov, first, lenTotal, lenDone, r, cursor, offset, hup,
          ended, moved, answer>>

Bufs == 0..Len(iov)

TypeOK ==
  /\ pc \in {"idle", "total", "call", "copy", "advance", "wait", "done"}
  /\ iov \in Seq([base : Nat, len : Nat])
  /\ bound \in [Bufs -> Nat]
  /\ first \in 1..Len(iov) + 1
  /\ lenTotal \in -IntMax - 1..IntMax
  /\ lenDone \in -IntMax - 1..IntMax
  /\ r \in 0..IntMax
  /\ cursor \in 1..Len(iov) + 1
  /\ offset \in Nat
  /\ hup \in BOOLEAN /\ ended \in BOOLEAN
  /\ moved \in Seq((1..Len(iov)) \X Nat)
  /\ answer \in -IntMax - 1..IntMax

Init ==
  /\ pc = "idle"
  /\ bound = [i \in {0} |-> 0]
  /\ iov = <<>>
  /\ first = 1 /\ cursor = 1 /\ offset = 0
  /\ lenTotal = 0 /\ lenDone = 0 /\ r = 0 /\ answer = 0
  /\ hup = FALSE /\ ended = FALSE
  /\ moved = <<>>

\* An int that a larger number was put into.
Wrap(n) == ((n + IntMax + 1) % (2 * (IntMax + 1))) - (IntMax + 1)

\* The vectors of n buffers, by their boundaries.
Vectors(n) ==
  {b \in [0..n -> 0..n * MaxLen] :
     /\ b[0] = 0
     /\ \A i, j \in 0..n : i <= j => b[i] <= b[j]
     /\ \A i \in 1..n : b[i] - b[i - 1] <= MaxLen}

-----------------------------------------------------------------------------
\* readvAll and writevAll.
Start ==
  /\ pc \in {"idle", "done"}
  /\ \E n \in 0..MaxBufs : \E b \in Vectors(n) :
       /\ bound' = b
       /\ iov' = [i \in 1..n |-> [base |-> 0, len |-> b[i] - b[i - 1]]]
  /\ pc' = "total"
  /\ first' = 1 /\ cursor' = 1 /\ offset' = 0
  /\ lenTotal' = 0 /\ lenDone' = 0 /\ r' = 0 /\ answer' = 0
  /\ hup' = FALSE /\ ended' = FALSE
  /\ moved' = <<>>

\* Fault: the loop of iovBytesTotal ends one buffer early.
MoreToSumShort == cursor < Len(iov)

\* The condition of iovBytesTotal's loop.
MoreToSum == cursor <= Len(iov)

\* One round of iovBytesTotal; after it the synchronous attempt is made, unless
\* skipSynchronousAttempt is set.
Total ==
  /\ pc = "total"
  /\ IF MoreToSum
       THEN /\ lenTotal' = Wrap(lenTotal + iov[cursor].len)
            /\ cursor' = cursor + 1
            /\ UNCHANGED pc
       ELSE /\ pc' \in {"call", "wait"}
            /\ UNCHANGED <<lenTotal, cursor>>
  /\ UNCHANGED <<bound, iov, first, lenDone, r, offset, hup, ended, moved, answer>>

\* dispatch() calls doOperation; a hangup, once reported, stays.
Wake ==
  /\ pc = "wait"
  /\ hup' \in BOOLEAN /\ (hup => hup')
  /\ ended' = (ended \/ hup')
  /\ pc' = "call"
  /\ UNCHANGED <<bound, iov, first, lenTotal, lenDone, r, cursor, offset, moved, answer>>

\* cancelRead and cancelWrite; the caller's array stays as it is then.
Cancel ==
  /\ pc = "wait"
  /\ pc' = "idle"
  /\ UNCHANGED <<bound, iov, first, lenTotal, lenDone, r, cursor, offset, hup,
                 ended, moved, answer>>

-----------------------------------------------------------------------------
(***************************************************************************)
(* readv(rwVInfo.iov, rwVInfo.iovcnt): the kernel goes through the buffers *)
(* that are left, byte by byte, and may stop anywhere.                     *)
(***************************************************************************)
Call ==
  /\ pc = "call"
  /\ pc' = "copy"
  /\ cursor' = first /\ offset' = 0 /\ r' = 0
  /\ UNCHANGED <<bound, iov, first, lenTotal, lenDone, hup, ended, moved, answer>>

Copy ==
  /\ pc = "copy" /\ cursor <= Len(iov) /\ r < IntMax
  /\ IF offset < iov[cursor].len
       THEN /\ moved' = Append(moved, <<cursor, iov[cursor].base + offset>>)
            /\ offset' = offset + 1 /\ r' = r + 1
            /\ UNCHANGED cursor
       ELSE /\ cursor' = cursor + 1 /\ offset' = 0
            /\ UNCHANGED <<moved, r>>
  /\ UNCHANGED <<pc, bound, iov, first, lenTotal, lenDone, hup, ended, answer>>

Finish(a) == pc' = "done" /\ answer' = a

\* The system call returns nothing: it would block, or it meets an error or
\* the end of the stream, which for a vector without bytes is always so.
CallFails ==
  /\ pc = "copy" /\ r = 0
  /\ \/ /\ \E i \in first..Len(iov) : iov[i].len > 0
        /\ pc' = "wait"
        /\ UNCHANGED <<ended, answer>>
     \/ /\ ended' = TRUE
        /\ \E e \in {0, -1} : Finish(IF lenDone = 0 THEN e ELSE lenDone)
  /\ UNCHANGED <<bound, iov, first, lenTotal, lenDone, r, cursor, offset, hup, moved>>

\* The system call returns r bytes.
CallSucceeds ==
  /\ pc = "copy" /\ r > 0
  /\ lenDone' = Wrap(lenDone + r)
  /\ pc' = "advance"
  /\ UNCHANGED <<bound, iov, first, lenTotal, r, cursor, offset, hup, ended, moved, answer>>

-----------------------------------------------------------------------------
\* Fault: no buffer is ever dropped.
BufferDoneNever == FALSE

\* The condition of the loop that drops the buffers this call has completed.
BufferDone == first <= Len(iov) /\ iov[first].len <= r

\* Fault: the bytes of a dropped buffer are not taken off r.
DropKeepsCount ==
  /\ pc = "advance" /\ BufferDone
  /\ first' = first + 1
  /\ UNCHANGED <<pc, bound, iov, lenTotal, lenDone, r, cursor, offset, hup,
                 ended, moved, answer>>

Drop ==
  /\ pc = "advance" /\ BufferDone
  /\ r' = r - iov[first].len
  /\ first' = first + 1
  /\ UNCHANGED <<pc, bound, iov, lenTotal, lenDone, cursor, offset, hup, ended,
                 moved, answer>>

\* Fault: the first buffer gets shorter, its start stays.
AdvancedNoBase ==
  IF first > Len(iov) THEN iov
  ELSE [iov EXCEPT ![first].len = @ - r]

\* "add offset to first buffer".
Advanced ==
  IF first > Len(iov) THEN iov
  ELSE [iov EXCEPT ![first] = [base |-> @.base + r, len |-> @.len - r]]

\* The target or a hangup is reached, or epoll is waited for.
Advance ==
  /\ pc = "advance" /\ ~BufferDone
  /\ iov' = Advanced
  /\ IF lenDone >= lenTotal \/ hup THEN Finish(lenDone)
     ELSE pc' = "wait" /\ UNCHANGED answer
  /\ UNCHANGED <<bound, first, lenTotal, lenDone, r, cursor, offset, hup, ended, moved>>

Next ==
  \/ Start \/ Total \/ Wake \/ Cancel
  \/ Call \/ Copy \/ CallFails \/ CallSucceeds
  \/ Drop \/ Advance

Spec == Init /\ [][Next]_vars

-----------------------------------------------------------------------------
Size == bound[Len(iov)]

\* Byte p of the stream is in its place in the caller's buffers, wherever the
\* system calls were cut: the buffers are filled in order, without a gap, a
\* byte that is overwritten or one beside its buffer.
InPlace ==
  \A p \in DOMAIN moved :
    LET b == moved[p][1]
        o == moved[p][2]
    IN bound[b - 1] + o = p - 1 /\ bound[b - 1] + o < bound[b]

\* readv is never called without a byte to transfer, unless the caller's
\* vector has none: its result, 0, would be taken for the end of the stream.
NoEmptyCall ==
  pc = "call" /\ Size > 0 => \E i \in first..Len(iov) : iov[i].len > 0

\* The callback is told the number of bytes that were moved, or the 0 or -1 of
\* a first call without any; and fewer than all only at an error, an end or a
\* hangup.  This is so for vectors whose size an int can count; the total of a
\* larger one wraps, and the transfer is answered after its first part.
NoShortAnswer ==
  pc = "done" /\ Size <= IntMax =>
    /\ answer = Len(moved) \/ (moved = <<>> /\ answer = -1)
    /\ Len(moved) = Size \/ ended
=============================================================================
