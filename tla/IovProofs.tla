----------------------------- MODULE IovProofs -----------------------------
(***************************************************************************)
(* Proofs about Iov, for every vector, every way to cut the transfer into  *)
(* system calls, and every INT_MAX.                                        *)
(***************************************************************************)
EXTENDS Iov, SequenceTheorems, WellFoundedInduction, TLAPS

\* An int holds what fits, and only that.
LEMMA WrapFits ==
  ASSUME NEW n \in -IntMax - 1..IntMax
  PROVE  Wrap(n) = n
<1> DEFINE K == IntMax + 1
<1>1. IntMax \in Nat /\ IntMax > 0
  BY IovAssumption
<1>2. n + K \in 0..2 * K - 1 /\ K \in Nat
  BY <1>1
<1>3. (n + K) % (2 * K) = n + K
  BY <1>2, Z3
<1> QED BY <1>1, <1>3 DEF Wrap

LEMMA WrapRange ==
  ASSUME NEW n \in Int
  PROVE  Wrap(n) \in -IntMax - 1..IntMax
<1> DEFINE K == IntMax + 1
           d == 2 * K
<1>1. IntMax \in Nat /\ K \in Nat /\ K > 0
  BY IovAssumption
<1>2. n + K \in Int /\ d \in Nat /\ d > 0
  BY <1>1
<1> HIDE DEF d
<1>3. (n + K) % d \in 0..d - 1
  BY <1>2
<1> QED BY <1>1, <1>3 DEF Wrap, d
-----------------------------------------------------------------------------
(***************************************************************************)
(* The inductive invariant: the array, the stream position and the         *)
(* counters belong together.                                               *)
(***************************************************************************)

\* The boundaries are those of a vector.
Layout ==
  /\ bound[0] = 0
  /\ \A i, j \in Bufs : i <= j => bound[i] <= bound[j]

\* The buffers that are left end where the caller's do, and all but the first
\* of them start there too.
Tails ==
  \A i \in first..Len(iov) :
    /\ iov[i].base + iov[i].len = bound[i] - bound[i - 1]
    /\ i > first => iov[i].base = 0

\* The position in the stream of the start of entry c.
At(c) == bound[c - 1] + (IF c = first /\ c <= Len(iov) THEN iov[c].base ELSE 0)

\* The kernel's position in the buffers is its position in the stream.
KernelPosition ==
  pc = "copy" =>
    /\ cursor >= first
    /\ Len(moved) = At(cursor) + offset
    /\ IF cursor <= Len(iov) THEN offset <= iov[cursor].len ELSE offset = 0

\* The array starts where the stream stands, less what this call has moved.
Position ==
  /\ pc \in {"total", "call", "wait"} => Len(moved) = At(first)
  /\ pc \in {"copy", "advance"} => Len(moved) = At(first) + r
  /\ pc = "advance" => Len(moved) <= Size

\* A hangup was met if one was reported.
HangupSeen == hup => ended

\* The counters of a vector that an int can count.
Counted ==
  Size <= IntMax =>
    /\ pc = "total" =>
         first = 1 /\ moved = <<>> /\ lenDone = 0 /\ lenTotal = bound[cursor - 1]
    /\ pc \in {"call", "copy", "wait", "advance"} => lenTotal = Size
    /\ pc \in {"call", "wait", "advance"} => lenDone = Len(moved)
    /\ pc = "copy" => lenDone + r = Len(moved)

IInv == /\ TypeOK /\ Layout /\ Tails /\ KernelPosition /\ Position
        /\ HangupSeen /\ Counted /\ InPlace /\ NoShortAnswer
-----------------------------------------------------------------------------
\* What the type invariant says of the parts of the array.
LEMMA Shape ==
  ASSUME TypeOK
  PROVE  /\ Len(iov) \in Nat /\ Len(moved) \in Nat
         /\ IntMax \in Nat /\ IntMax > 0
         /\ \A i \in 1..Len(iov) : iov[i] \in [base : Nat, len : Nat]
         /\ \A i \in Bufs : bound[i] \in Nat
         /\ Len(iov) \in Bufs
<1>1. iov \in Seq([base : Nat, len : Nat]) /\ bound \in [Bufs -> Nat]
  BY DEF TypeOK
<1>2. Len(iov) \in Nat /\ iov \in [1..Len(iov) -> [base : Nat, len : Nat]]
  BY <1>1, LenProperties
<1>3. moved \in Seq((1..Len(iov)) \X Nat)
  BY DEF TypeOK
<1>4. Len(moved) \in Nat
  BY <1>3, LenProperties
<1>5. Len(iov) \in Bufs
  BY <1>2 DEF Bufs
<1>6. \A i \in 1..Len(iov) : iov[i] \in [base : Nat, len : Nat]
  BY <1>1, ElementOfSeq
<1>7. \A i \in Bufs : bound[i] \in Nat
  BY <1>1
<1>8. IntMax \in Nat /\ IntMax > 0
  BY IovAssumption
<1> QED BY <1>2, <1>4, <1>5, <1>6, <1>7, <1>8, Zenon

\* The initial state: nothing was asked for.
LEMMA InitInv ==
  ASSUME Init
  PROVE  IInv
<1>1. Len(iov) = 0 /\ Len(moved) = 0 /\ Bufs = {0}
  BY DEF Init, Bufs
<1>2. TypeOK
  BY <1>1, IovAssumption DEF Init, TypeOK
<1>3. Layout /\ Tails
  BY <1>1 DEF Init, Layout, Tails
<1>4. KernelPosition /\ Position /\ HangupSeen /\ Counted /\ NoShortAnswer
  BY DEF Init, KernelPosition, Position, HangupSeen, Counted, NoShortAnswer
<1>5. InPlace
  BY DEF Init, InPlace
<1> QED BY <1>2, <1>3, <1>4, <1>5 DEF IInv

\* readvAll: a new vector, and nothing of it is done.
LEMMA StartStep ==
  ASSUME IInv, Start
  PROVE  IInv'
<1>0. PICK n \in 0..MaxBufs : \E b \in Vectors(n) :
        /\ bound' = b
        /\ iov' = [i \in 1..n |-> [base |-> 0, len |-> b[i] - b[i - 1]]]
  BY DEF Start
<1>1. PICK b \in Vectors(n) :
        /\ bound' = b
        /\ iov' = [i \in 1..n |-> [base |-> 0, len |-> b[i] - b[i - 1]]]
  BY <1>0
<1>2. n \in Nat /\ MaxLen \in Nat /\ n * MaxLen \in Nat
  BY IovAssumption
<1>3. /\ b \in [0..n -> Nat] /\ b[0] = 0
      /\ \A i, j \in 0..n : i <= j => b[i] <= b[j]
  BY <1>1, <1>2 DEF Vectors
<1>4. \A i \in 1..n : b[i] - b[i - 1] \in Nat
  <2> TAKE i \in 1..n
  <2>1. i \in 0..n /\ i - 1 \in 0..n /\ i - 1 <= i
    BY <1>2
  <2> QED BY <2>1, <1>3
<1>5. /\ iov' \in Seq([base : Nat, len : Nat])
      /\ Len(iov') = n
      /\ \A i \in 1..n : iov'[i] = [base |-> 0, len |-> b[i] - b[i - 1]]
  BY <1>1, <1>2, <1>4
<1>6. /\ pc' = "total" /\ first' = 1 /\ cursor' = 1 /\ offset' = 0
      /\ lenTotal' = 0 /\ lenDone' = 0 /\ r' = 0 /\ answer' = 0
      /\ hup' = FALSE /\ ended' = FALSE /\ moved' = <<>>
  BY DEF Start
<1>7. Bufs' = 0..n
  BY <1>5 DEF Bufs
<1>8. TypeOK'
  <2>1. moved' \in Seq((1..n) \X Nat)
    BY <1>6, EmptySeq
  <2>2. bound' \in [Bufs' -> Nat]
    BY <1>1, <1>3, <1>7
  <2>3. 0 \in -IntMax - 1..IntMax /\ 0 \in 0..IntMax
    BY IovAssumption
  <2>4. first' \in 1..Len(iov') + 1 /\ cursor' \in 1..Len(iov') + 1
    BY <1>2, <1>5, <1>6
  <2>5. moved' \in Seq((1..Len(iov')) \X Nat) /\ offset' \in Nat
    BY <1>5, <1>6, <2>1
  <2> QED BY <1>5, <1>6, <2>2, <2>3, <2>4, <2>5, Zenon DEF TypeOK
<1>9. Layout'
  BY <1>1, <1>3, <1>7 DEF Layout
<1>10. Tails'
  BY <1>1, <1>2, <1>3, <1>5, <1>6 DEF Tails
<1>11. At(first)' = 0
  <2>1. At(first)' = bound'[0] + (IF 1 <= Len(iov') THEN iov'[1].base ELSE 0)
    BY <1>6, <1>2 DEF At
  <2>2. 1 <= n => iov'[1].base = 0
    BY <1>2, <1>5
  <2> QED BY <2>1, <2>2, <1>1, <1>3, <1>5
<1>12. KernelPosition' /\ Position' /\ HangupSeen' /\ NoShortAnswer' /\ InPlace'
  BY <1>6, <1>11 DEF KernelPosition, Position, HangupSeen, NoShortAnswer, InPlace
<1>13. Counted'
  BY <1>1, <1>3, <1>6 DEF Counted
<1> QED BY <1>8, <1>9, <1>10, <1>12, <1>13 DEF IInv

\* iovBytesTotal: the array is only read.
LEMMA TotalStep ==
  ASSUME IInv, Total
  PROVE  IInv'
<1>1. TypeOK /\ Layout /\ Tails /\ HangupSeen /\ Counted /\ InPlace /\ Position
  BY DEF IInv
<1>2. /\ Len(iov) \in Nat /\ IntMax \in Nat
      /\ \A i \in 1..Len(iov) : iov[i] \in [base : Nat, len : Nat]
      /\ \A i \in Bufs : bound[i] \in Nat
  BY <1>1, Shape
<1>3. /\ pc = "total"
      /\ UNCHANGED <<bound, iov, first, lenDone, r, offset, hup, ended, moved, answer>>
  BY DEF Total
<1>4. At(first)' = At(first) /\ Size' = Size
  BY <1>3 DEF At, Size
<1>5. Layout' /\ Tails' /\ HangupSeen' /\ InPlace'
  BY <1>1, <1>3 DEF Layout, Tails, HangupSeen, InPlace, Bufs
<1>6. CASE MoreToSum
  <2>1. /\ pc' = pc /\ cursor' = cursor + 1
        /\ lenTotal' = Wrap(lenTotal + iov[cursor].len)
        /\ cursor \in 1..Len(iov)
    BY <1>1, <1>2, <1>6 DEF Total, MoreToSum, TypeOK
  <2>2. lenTotal \in Int /\ iov[cursor].len \in Nat
    <3>1. iov[cursor] \in [base : Nat, len : Nat]
      BY <1>2, <2>1
    <3>2. lenTotal \in -IntMax - 1..IntMax
      BY <1>1 DEF TypeOK
    <3> QED BY <1>2, <3>1, <3>2
  <2>3. lenTotal' \in -IntMax - 1..IntMax
    <3>1. lenTotal + iov[cursor].len \in Int
      BY <2>2
    <3> QED BY <2>1, <3>1, WrapRange, Zenon
  <2>4. TypeOK'
    <3>1. cursor' \in 1..Len(iov) + 1
      BY <1>2, <2>1
    <3> QED BY <1>1, <1>3, <2>1, <2>3, <3>1, Zenon DEF TypeOK, Bufs
  <2>5. KernelPosition' /\ Position' /\ NoShortAnswer'
    BY <1>1, <1>3, <1>4, <2>1 DEF KernelPosition, Position, NoShortAnswer
  <2>6. Counted'
    <3> SUFFICES ASSUME Size <= IntMax
                 PROVE  lenTotal' = bound[cursor]
      BY <1>1, <1>2, <1>3, <1>4, <2>1 DEF Counted, TypeOK
    <3>1. lenTotal = bound[cursor - 1] /\ first = 1 /\ moved = <<>>
      BY <1>1, <1>3 DEF Counted
    <3>2. cursor \in Bufs /\ cursor - 1 \in Bufs /\ Len(iov) \in Bufs
      BY <1>2, <2>1 DEF Bufs
    <3>3. bound[cursor] \in Nat /\ bound[cursor] <= IntMax
      BY <1>1, <1>2, <2>1, <3>2 DEF Layout, Size
    <3>4. iov[cursor].base = 0
      <4>1. At(first) = 0
        BY <1>1, <1>3, <3>1 DEF Position
      <4>2. CASE cursor = 1
        <5>1. At(first) = bound[0] + iov[1].base
          BY <1>2, <2>1, <3>1, <4>2 DEF At
        <5> QED BY <1>1, <1>2, <2>1, <4>1, <4>2, <5>1 DEF Layout
      <4>3. CASE cursor > 1
        BY <1>1, <1>2, <2>1, <3>1, <4>3 DEF Tails
      <4> QED BY <4>2, <4>3, <2>1
    <3>5. lenTotal + iov[cursor].len = bound[cursor]
      <4>1. cursor \in first..Len(iov)
        BY <1>2, <2>1, <3>1
      <4>2. iov[cursor].base + iov[cursor].len = bound[cursor] - bound[cursor - 1]
        BY <1>1, <4>1 DEF Tails
      <4>3. bound[cursor] \in Nat /\ bound[cursor - 1] \in Nat
        BY <1>2, <3>2
      <4>4. \A l, lo, hi \in Nat : 0 + l = hi - lo => lo + l = hi
        OBVIOUS
      <4> QED BY <2>2, <3>1, <3>4, <4>2, <4>3, <4>4
    <3> QED BY <2>1, <3>3, <3>5, <1>2, WrapFits
  <2> QED BY <1>5, <2>4, <2>5, <2>6 DEF IInv
<1>7. CASE ~MoreToSum
  <2>1. /\ pc' \in {"call", "wait"} /\ cursor' = cursor /\ lenTotal' = lenTotal
        /\ cursor = Len(iov) + 1
    <3>1. cursor \in 1..Len(iov) + 1
      BY <1>1 DEF TypeOK
    <3> QED BY <1>2, <1>7, <3>1 DEF Total, MoreToSum
  <2>2. TypeOK'
    BY <1>1, <1>3, <2>1 DEF TypeOK, Bufs
  <2>3. KernelPosition' /\ Position' /\ NoShortAnswer'
    BY <1>1, <1>3, <1>4, <2>1 DEF KernelPosition, Position, NoShortAnswer
  <2>4. Counted'
    <3> SUFFICES ASSUME Size <= IntMax
                 PROVE  lenTotal = Size /\ lenDone = Len(moved)
      BY <1>3, <1>4, <2>1 DEF Counted
    <3> QED BY <1>1, <1>2, <1>3, <2>1 DEF Counted, Size
  <2> QED BY <1>5, <2>2, <2>3, <2>4 DEF IInv
<1> QED BY <1>6, <1>7
\* doOperation's start and cancel*: only pc, the hangup and the kernel's
\* position are set.
LEMMA WakeStep ==
  ASSUME IInv, Wake
  PROVE  IInv'
<1>1. /\ pc = "wait" /\ pc' = "call" /\ hup' \in BOOLEAN
      /\ ended' = (ended \/ hup')
      /\ UNCHANGED <<bound, iov, first, lenTotal, lenDone, r, cursor, offset, moved, answer>>
  BY DEF Wake
<1>2. At(first)' = At(first) /\ Size' = Size
  BY <1>1 DEF At, Size
<1>3. TypeOK'
  BY <1>1, Zenon DEF IInv, TypeOK, Bufs
<1>4. Layout' /\ Tails' /\ InPlace' /\ HangupSeen'
  BY <1>1 DEF IInv, Layout, Tails, InPlace, HangupSeen, Bufs
<1>5. KernelPosition' /\ Position' /\ NoShortAnswer' /\ Counted'
  BY <1>1, <1>2 DEF IInv, KernelPosition, Position, NoShortAnswer, Counted
<1> QED BY <1>3, <1>4, <1>5 DEF IInv

LEMMA CancelStep ==
  ASSUME IInv, Cancel
  PROVE  IInv'
<1>1. /\ pc' = "idle"
      /\ UNCHANGED <<bound, iov, first, lenTotal, lenDone, r, cursor, offset, hup,
                     ended, moved, answer>>
  BY DEF Cancel
<1>2. TypeOK'
  BY <1>1, Zenon DEF IInv, TypeOK, Bufs
<1>3. Layout' /\ Tails' /\ InPlace' /\ HangupSeen'
  BY <1>1 DEF IInv, Layout, Tails, InPlace, HangupSeen, Bufs
<1>4. KernelPosition' /\ Position' /\ NoShortAnswer' /\ Counted'
  BY <1>1 DEF KernelPosition, Position, NoShortAnswer, Counted
<1> QED BY <1>2, <1>3, <1>4 DEF IInv

LEMMA CallStep ==
  ASSUME IInv, Call
  PROVE  IInv'
<1>1. /\ pc = "call" /\ pc' = "copy" /\ cursor' = first /\ offset' = 0 /\ r' = 0
      /\ UNCHANGED <<bound, iov, first, lenTotal, lenDone, hup, ended, moved, answer>>
  BY DEF Call
<1>2. TypeOK /\ Position /\ Counted
  BY DEF IInv
<1>3. /\ Len(iov) \in Nat /\ Len(moved) \in Nat /\ IntMax \in Nat
      /\ \A i \in 1..Len(iov) : iov[i] \in [base : Nat, len : Nat]
      /\ first \in 1..Len(iov) + 1
  BY <1>2, Shape DEF TypeOK
<1>4. At(first)' = At(first) /\ At(cursor)' = At(first) /\ Size' = Size
  BY <1>1 DEF At, Size
<1>5. Len(moved) = At(first)
  BY <1>1, <1>2 DEF Position
<1>6. TypeOK'
  <2>1. 0 \in 0..IntMax /\ 0 \in Nat
    BY <1>3
  <2> QED BY <1>1, <1>2, <2>1, Zenon DEF TypeOK, Bufs
<1>7. Layout' /\ Tails' /\ InPlace' /\ HangupSeen'
  BY <1>1 DEF IInv, Layout, Tails, InPlace, HangupSeen, Bufs
<1>8. KernelPosition'
  <2>1. first <= Len(iov) => 0 <= iov[first].len
    BY <1>3
  <2>2. Len(moved) = At(first) + 0
    BY <1>3, <1>5
  <2> QED BY <1>1, <1>3, <1>4, <2>1, <2>2 DEF KernelPosition
<1>9. Position'
  BY <1>1, <1>3, <1>4, <1>5 DEF Position
<1>10. Counted'
  <2>1. Size <= IntMax => lenTotal = Size /\ lenDone = Len(moved)
    BY <1>1, <1>2 DEF Counted
  <2> QED BY <1>1, <1>3, <1>4, <2>1 DEF Counted
<1>11. NoShortAnswer'
  BY <1>1 DEF NoShortAnswer
<1> QED BY <1>6, <1>7, <1>8, <1>9, <1>10, <1>11 DEF IInv

\* The kernel stays within the bytes of the vector, in their order.
LEMMA KernelInside ==
  ASSUME IInv, pc = "copy", cursor <= Len(iov)
  PROVE  /\ cursor \in first..Len(iov) /\ cursor \in 1..Len(iov)
         /\ cursor \in Bufs /\ cursor - 1 \in Bufs
         /\ iov[cursor].base \in Nat /\ iov[cursor].len \in Nat
         /\ bound[cursor] \in Nat /\ bound[cursor - 1] \in Nat
         /\ iov[cursor].base + iov[cursor].len = bound[cursor] - bound[cursor - 1]
         /\ Len(moved) = bound[cursor - 1] + iov[cursor].base + offset
         /\ offset <= iov[cursor].len
<1>1. TypeOK /\ Tails /\ KernelPosition
  BY DEF IInv
<1>2. /\ Len(iov) \in Nat
      /\ \A i \in 1..Len(iov) : iov[i] \in [base : Nat, len : Nat]
      /\ \A i \in Bufs : bound[i] \in Nat
      /\ first \in 1..Len(iov) + 1 /\ cursor \in 1..Len(iov) + 1 /\ offset \in Nat
  BY <1>1, Shape DEF TypeOK
<1>3. /\ cursor \in first..Len(iov) /\ cursor \in 1..Len(iov)
      /\ cursor \in Bufs /\ cursor - 1 \in Bufs
  BY <1>1, <1>2 DEF KernelPosition, Bufs
<1>4. /\ iov[cursor].base \in Nat /\ iov[cursor].len \in Nat
      /\ bound[cursor] \in Nat /\ bound[cursor - 1] \in Nat
  BY <1>2, <1>3
<1>5. /\ iov[cursor].base + iov[cursor].len = bound[cursor] - bound[cursor - 1]
      /\ cursor > first => iov[cursor].base = 0
  BY <1>1, <1>3 DEF Tails
<1>6. Len(moved) = At(cursor) + offset /\ offset <= iov[cursor].len
  BY <1>1 DEF KernelPosition
<1>7. At(cursor) = bound[cursor - 1] + iov[cursor].base
  BY <1>2, <1>3, <1>4, <1>5 DEF At
<1> QED BY <1>3, <1>4, <1>5, <1>6, <1>7

\* The same, with a name for each number.
LEMMA KernelCell ==
  ASSUME IInv, pc = "copy", cursor <= Len(iov)
  PROVE  \E lo, hi, b, l \in Nat :
           /\ bound[cursor - 1] = lo /\ bound[cursor] = hi
           /\ iov[cursor].base = b /\ iov[cursor].len = l
           /\ b + l = hi - lo
           /\ Len(moved) = lo + b + offset /\ offset <= l
<1> /\ iov[cursor].base \in Nat /\ iov[cursor].len \in Nat
    /\ bound[cursor] \in Nat /\ bound[cursor - 1] \in Nat
  BY KernelInside
<1> WITNESS bound[cursor - 1] \in Nat, bound[cursor] \in Nat,
            iov[cursor].base \in Nat, iov[cursor].len \in Nat
<1> QED BY KernelInside, Zenon

\* One byte, or the next buffer.
LEMMA CopyStep ==
  ASSUME IInv, Copy
  PROVE  IInv'
<1>1. /\ pc = "copy" /\ cursor <= Len(iov) /\ r < IntMax
      /\ UNCHANGED <<pc, bound, iov, first, lenTotal, lenDone, hup, ended, answer>>
  BY DEF Copy
<1>2. TypeOK /\ Tails /\ KernelPosition /\ Position /\ Counted /\ InPlace
  BY DEF IInv
<1>3. /\ Len(iov) \in Nat /\ Len(moved) \in Nat /\ IntMax \in Nat
      /\ first \in 1..Len(iov) + 1 /\ cursor \in 1..Len(iov) + 1 /\ offset \in Nat
      /\ r \in 0..IntMax /\ lenDone \in Int
  BY <1>2, Shape DEF TypeOK
<1>4. moved \in Seq((1..Len(iov)) \X Nat)
  BY <1>2 DEF TypeOK
<1>5. /\ cursor \in first..Len(iov) /\ cursor \in 1..Len(iov)
      /\ cursor \in Bufs /\ cursor - 1 \in Bufs
  BY <1>1, KernelInside
<1>6. PICK lo, hi, b, l \in Nat :
        /\ bound[cursor - 1] = lo /\ bound[cursor] = hi
        /\ iov[cursor].base = b /\ iov[cursor].len = l
        /\ b + l = hi - lo
        /\ Len(moved) = lo + b + offset /\ offset <= l
  BY <1>1, KernelCell
<1>7. At(first)' = At(first) /\ Size' = Size
  BY <1>1 DEF At, Size
<1>8. Layout' /\ Tails' /\ HangupSeen' /\ NoShortAnswer'
  BY <1>1 DEF IInv, Layout, Tails, HangupSeen, NoShortAnswer, Bufs
<1>9. Len(moved) = At(first) + r /\ (Size <= IntMax => lenTotal = Size /\ lenDone + r = Len(moved))
  BY <1>1, <1>2 DEF Position, Counted
<1>10. CASE offset < iov[cursor].len
  <2> DEFINE cell == <<cursor, iov[cursor].base + offset>>
  <2>1. moved' = Append(moved, cell) /\ offset' = offset + 1 /\ r' = r + 1 /\ cursor' = cursor
    BY <1>10 DEF Copy
  <2>2. cell \in (1..Len(iov)) \X Nat
    <3>1. b + offset \in Nat
      BY <1>3
    <3> QED BY <1>5, <1>6, <3>1
  <2>3. /\ moved' \in Seq((1..Len(iov)) \X Nat)
        /\ Len(moved') = Len(moved) + 1
        /\ \A p \in 1..Len(moved) : moved'[p] = moved[p]
        /\ moved'[Len(moved) + 1] = cell
    <3> HIDE DEF cell
    <3> QED BY <1>4, <2>1, <2>2, AppendProperties
  <2>4. TypeOK'
    <3>1. r' \in 0..IntMax /\ offset' \in Nat
      BY <1>1, <1>3, <2>1
    <3> QED BY <1>1, <1>2, <2>1, <2>3, <3>1, Zenon DEF TypeOK, Bufs
  <2>5. KernelPosition'
    <3>1. At(cursor)' = At(cursor)
      BY <1>1, <2>1 DEF At
    <3>2. Len(moved) = At(cursor) + offset /\ At(cursor) \in Int
      <4>1. Len(moved) = At(cursor) + offset
        BY <1>1, <1>2 DEF KernelPosition
      <4>2. At(cursor) \in Int
        BY <1>6 DEF At
      <4> QED BY <4>1, <4>2
    <3>3. Len(moved)' = At(cursor)' + offset'
      BY <1>3, <2>1, <2>3, <3>1, <3>2
    <3>4. offset' <= iov'[cursor'].len
      <4>1. offset < l => offset + 1 <= l
        BY <1>3
      <4> QED BY <1>1, <1>6, <1>10, <2>1, <4>1
    <3> QED BY <1>1, <1>3, <1>5, <2>1, <3>3, <3>4 DEF KernelPosition
  <2>6. Position'
    <3>1. At(first) \in Int
      <4>1. first \in 1..Len(iov) /\ first - 1 \in Bufs
        BY <1>3, <1>5 DEF Bufs
      <4> QED BY <1>2, <4>1, Shape DEF At
    <3> QED BY <1>1, <1>3, <1>7, <1>9, <2>1, <2>3, <3>1 DEF Position
  <2>7. Counted'
    BY <1>1, <1>3, <1>7, <1>9, <2>1, <2>3 DEF Counted
  <2>8. InPlace'
    <3> SUFFICES ASSUME NEW p \in 1..Len(moved) + 1
                 PROVE  /\ bound[moved'[p][1] - 1] + moved'[p][2] = p - 1
                        /\ bound[moved'[p][1] - 1] + moved'[p][2] < bound[moved'[p][1]]
      <4>1. DOMAIN moved' = 1..Len(moved) + 1
        BY <2>3, LenProperties
      <4> QED BY <1>1, <4>1 DEF InPlace
    <3>1. CASE p \in 1..Len(moved)
      <4>1. p \in DOMAIN moved /\ moved'[p] = moved[p]
        BY <1>4, <2>3, <3>1, LenProperties
      <4> QED BY <1>2, <4>1 DEF InPlace
    <3>2. CASE p = Len(moved) + 1
      <4>1. moved'[p][1] = cursor /\ moved'[p][2] = iov[cursor].base + offset
        BY <2>3, <3>2
      <4>2. offset < l
        BY <1>6, <1>10
      <4>3. lo + (b + offset) = p - 1 /\ lo + (b + offset) < hi
        BY <1>3, <1>6, <3>2, <4>2
      <4> QED BY <1>6, <4>1, <4>3
    <3> QED BY <1>3, <3>1, <3>2
  <2> QED BY <1>8, <2>4, <2>5, <2>6, <2>7, <2>8 DEF IInv
<1>11. CASE ~(offset < iov[cursor].len)
  <2>1. cursor' = cursor + 1 /\ offset' = 0 /\ UNCHANGED <<moved, r>>
    BY <1>11 DEF Copy
  <2>2. offset = iov[cursor].len
    <3>1. ~(offset < l) => offset = l
      BY <1>3, <1>6
    <3> QED BY <1>6, <1>11, <3>1
  <2>3. TypeOK'
    <3>1. cursor' \in 1..Len(iov) + 1 /\ offset' \in Nat
      BY <1>3, <1>5, <2>1
    <3> QED BY <1>1, <1>2, <2>1, <3>1, Zenon DEF TypeOK, Bufs
  <2>4. At(cursor)' = bound[cursor]
    <3>1. ~(cursor' = first') /\ cursor' - 1 = cursor
      BY <1>1, <1>3, <1>5, <2>1
    <3>2. At(cursor)' = bound[cursor] + 0
      BY <1>1, <3>1 DEF At
    <3> QED BY <1>6, <3>2
  <2>5. KernelPosition'
    <3>1. Len(moved) = bound[cursor] + 0
      <4>1. offset = l => lo + b + offset = hi + 0
        BY <1>3, <1>6
      <4> QED BY <1>6, <2>2, <4>1
    <3>2. cursor' >= first'
      BY <1>1, <1>3, <1>5, <2>1
    <3>3. cursor' <= Len(iov) => 0 <= iov[cursor'].len
      BY <1>2, <1>3, <1>5, <2>1, Shape
    <3> QED BY <1>1, <2>1, <2>4, <3>1, <3>2, <3>3 DEF KernelPosition
  <2>6. Position' /\ Counted' /\ InPlace'
    BY <1>1, <1>2, <1>7, <2>1 DEF Position, Counted, InPlace
  <2> QED BY <1>8, <2>3, <2>5, <2>6 DEF IInv
<1> QED BY <1>10, <1>11
\* The start of the first entry is a position.
LEMMA AtFirst ==
  ASSUME TypeOK
  PROVE  /\ At(first) \in Nat
         /\ first - 1 \in Bufs
         /\ first > Len(iov) => At(first) = Size
<1>1. /\ Len(iov) \in Nat /\ first \in 1..Len(iov) + 1
      /\ \A i \in 1..Len(iov) : iov[i] \in [base : Nat, len : Nat]
      /\ \A i \in Bufs : bound[i] \in Nat
  BY Shape DEF TypeOK
<1>2. first - 1 \in Bufs
  BY <1>1 DEF Bufs
<1>3. CASE first <= Len(iov)
  <2>1. iov[first].base \in Nat
    BY <1>1, <1>3
  <2> QED BY <1>1, <1>2, <1>3, <2>1 DEF At
<1>4. CASE first > Len(iov)
  <2>1. first - 1 = Len(iov)
    BY <1>1, <1>4
  <2> QED BY <1>1, <1>2, <1>4, <2>1 DEF At, Size
<1> QED BY <1>1, <1>3, <1>4, <1>2

\* The system call returns nothing: the transfer waits or is over.
LEMMA CallFailsStep ==
  ASSUME IInv, CallFails
  PROVE  IInv'
<1>1. /\ pc = "copy" /\ r = 0
      /\ UNCHANGED <<bound, iov, first, lenTotal, lenDone, r, cursor, offset, hup, moved>>
  BY DEF CallFails
<1>2. TypeOK /\ Position /\ Counted /\ HangupSeen
  BY DEF IInv
<1>3. Len(moved) \in Nat /\ IntMax \in Nat /\ IntMax > 0
  BY <1>2, Shape
<1>4. lenDone \in -IntMax - 1..IntMax
  BY <1>2 DEF TypeOK
<1>5. At(first)' = At(first) /\ Size' = Size /\ At(first) \in Nat
  BY <1>1, <1>2, AtFirst DEF At, Size
<1>6. Layout' /\ Tails' /\ InPlace'
  BY <1>1 DEF IInv, Layout, Tails, InPlace, Bufs
<1>7. Len(moved) = At(first)
  BY <1>1, <1>2, <1>5 DEF Position
<1>8. Size <= IntMax => lenTotal = Size /\ lenDone = Len(moved)
  BY <1>1, <1>2, <1>3, <1>4 DEF Counted
<1>9. CASE pc' = "wait" /\ UNCHANGED <<ended, answer>>
  <2>1. TypeOK' /\ HangupSeen'
    BY <1>1, <1>2, <1>9, Zenon DEF TypeOK, HangupSeen, Bufs
  <2>2. KernelPosition' /\ Position' /\ Counted' /\ NoShortAnswer'
    BY <1>1, <1>5, <1>7, <1>8, <1>9 DEF KernelPosition, Position, Counted, NoShortAnswer
  <2> QED BY <1>6, <2>1, <2>2 DEF IInv
<1>10. ASSUME NEW e \in {0, -1}, ended' = TRUE,
              Finish(IF lenDone = 0 THEN e ELSE lenDone)
       PROVE  IInv'
  <2>1. pc' = "done" /\ answer' = IF lenDone = 0 THEN e ELSE lenDone
    BY <1>10 DEF Finish
  <2>2. answer' \in -IntMax - 1..IntMax
    BY <1>3, <1>4, <2>1
  <2>3. TypeOK' /\ HangupSeen'
    BY <1>1, <1>2, <1>10, <2>1, <2>2, Zenon DEF TypeOK, HangupSeen, Bufs
  <2>4. KernelPosition' /\ Position' /\ Counted'
    BY <2>1 DEF KernelPosition, Position, Counted
  <2>5. NoShortAnswer'
    <3> SUFFICES ASSUME Size <= IntMax
                 PROVE  answer' = Len(moved) \/ (moved = <<>> /\ answer' = -1)
      BY <1>1, <1>5, <1>10 DEF NoShortAnswer
    <3>1. CASE lenDone = 0
      <4>1. Len(moved) = 0
        BY <1>8, <3>1
      <4>2. moved \in Seq((1..Len(iov)) \X Nat)
        BY <1>2 DEF TypeOK
      <4>3. moved = <<>>
        BY <4>1, <4>2, EmptySeq
      <4> QED BY <2>1, <3>1, <4>1, <4>3
    <3>2. CASE lenDone # 0
      BY <1>8, <2>1, <3>2
    <3> QED BY <3>1, <3>2
  <2> QED BY <1>6, <2>3, <2>4, <2>5 DEF IInv
<1> QED BY <1>9, <1>10 DEF CallFails

\* The system call returns r bytes, which are bytes of the vector.
LEMMA CallSucceedsStep ==
  ASSUME IInv, CallSucceeds
  PROVE  IInv'
<1>1. /\ pc = "copy" /\ r > 0 /\ pc' = "advance" /\ lenDone' = Wrap(lenDone + r)
      /\ UNCHANGED <<bound, iov, first, lenTotal, r, cursor, offset, hup, ended, moved, answer>>
  BY DEF CallSucceeds
<1>2. TypeOK /\ Layout /\ KernelPosition /\ Position /\ Counted
  BY DEF IInv
<1>3. /\ Len(iov) \in Nat /\ Len(moved) \in Nat /\ IntMax \in Nat
      /\ lenDone \in -IntMax - 1..IntMax /\ r \in 0..IntMax
      /\ cursor \in 1..Len(iov) + 1 /\ offset \in Nat
      /\ Len(iov) \in Bufs /\ \A i \in Bufs : bound[i] \in Nat
  BY <1>2, Shape DEF TypeOK
<1>4. At(first)' = At(first) /\ Size' = Size /\ Size \in Nat
  BY <1>1, <1>3 DEF At, Size
<1>5. Layout' /\ Tails' /\ InPlace' /\ HangupSeen'
  BY <1>1 DEF IInv, Layout, Tails, InPlace, HangupSeen, Bufs
<1>6. lenDone + r \in Int
  BY <1>3
<1>7. TypeOK'
  <2>1. lenDone' \in -IntMax - 1..IntMax
    BY <1>1, <1>6, WrapRange
  <2> QED BY <1>1, <1>2, <2>1, Zenon DEF TypeOK, Bufs
<1>8. Len(moved) <= Size
  <2>1. CASE cursor <= Len(iov)
    <3>1. cursor \in Bufs
      BY <1>1, <2>1, KernelInside
    <3>2. PICK lo, hi, b, l \in Nat :
            /\ bound[cursor - 1] = lo /\ bound[cursor] = hi
            /\ iov[cursor].base = b /\ iov[cursor].len = l
            /\ b + l = hi - lo
            /\ Len(moved) = lo + b + offset /\ offset <= l
      BY <1>1, <2>1, KernelCell
    <3>3. Len(moved) <= hi
      BY <1>3, <3>2
    <3>4. bound[cursor] <= Size
      BY <1>2, <1>3, <2>1, <3>1 DEF Layout, Size
    <3> QED BY <1>3, <1>4, <3>2, <3>3, <3>4
  <2>2. CASE cursor > Len(iov)
    <3>1. cursor = Len(iov) + 1
      BY <1>3, <2>2
    <3>2. offset = 0 /\ Len(moved) = At(cursor) + 0
      BY <1>1, <1>3, <1>2, <3>1 DEF KernelPosition
    <3>3. At(cursor) = Size
      BY <1>3, <1>4, <3>1 DEF At, Size
    <3> QED BY <1>4, <3>2, <3>3
  <2> QED BY <1>3, <2>1, <2>2
<1>9. KernelPosition' /\ NoShortAnswer'
  BY <1>1 DEF KernelPosition, NoShortAnswer
<1>10. Position'
  BY <1>1, <1>2, <1>4, <1>8 DEF Position
<1>11. Counted'
  <2> SUFFICES ASSUME Size <= IntMax
               PROVE  lenTotal = Size /\ lenDone' = Len(moved)
    BY <1>1, <1>4 DEF Counted
  <2>1. lenTotal = Size /\ lenDone + r = Len(moved)
    BY <1>1, <1>2 DEF Counted
  <2>2. Len(moved) \in -IntMax - 1..IntMax
    BY <1>3, <1>4, <1>8
  <2> QED BY <1>1, <2>1, <2>2, WrapFits
<1> QED BY <1>5, <1>7, <1>9, <1>10, <1>11 DEF IInv

\* What is left of the first buffer, while the array is advanced.
LEMMA FirstEntry ==
  ASSUME IInv, first <= Len(iov)
  PROVE  /\ first \in 1..Len(iov) /\ first \in Bufs /\ first - 1 \in Bufs
         /\ iov[first] \in [base : Nat, len : Nat]
         /\ iov[first].base \in Nat /\ iov[first].len \in Nat
         /\ bound[first] \in Nat /\ bound[first - 1] \in Nat
         /\ iov[first].base + iov[first].len = bound[first] - bound[first - 1]
         /\ At(first) = bound[first - 1] + iov[first].base
<1>1. TypeOK /\ Tails
  BY DEF IInv
<1>2. /\ Len(iov) \in Nat /\ first \in 1..Len(iov) + 1
      /\ \A i \in 1..Len(iov) : iov[i] \in [base : Nat, len : Nat]
      /\ \A i \in Bufs : bound[i] \in Nat
  BY <1>1, Shape DEF TypeOK
<1>3. first \in 1..Len(iov) /\ first \in Bufs /\ first - 1 \in Bufs
  BY <1>2 DEF Bufs
<1>4. iov[first] \in [base : Nat, len : Nat]
  BY <1>2, <1>3
<1>5. iov[first].base + iov[first].len = bound[first] - bound[first - 1]
  <2>1. first \in first..Len(iov)
    BY <1>2, <1>3
  <2> QED BY <1>1, <2>1 DEF Tails
<1>6. At(first) = bound[first - 1] + iov[first].base
  BY DEF At
<1> QED BY <1>2, <1>3, <1>4, <1>5, <1>6

\* The same, with a name for each number.
LEMMA FirstCell ==
  ASSUME IInv, first <= Len(iov)
  PROVE  \E lo, hi, b, l \in Nat :
           /\ bound[first - 1] = lo /\ bound[first] = hi
           /\ iov[first].base = b /\ iov[first].len = l
           /\ b + l = hi - lo
           /\ At(first) = lo + b
<1> /\ iov[first].base \in Nat /\ iov[first].len \in Nat
    /\ bound[first] \in Nat /\ bound[first - 1] \in Nat
  BY FirstEntry
<1> WITNESS bound[first - 1] \in Nat, bound[first] \in Nat,
            iov[first].base \in Nat, iov[first].len \in Nat
<1> QED BY FirstEntry, Zenon

\* A buffer that the call completed is dropped.
LEMMA DropStep ==
  ASSUME IInv, Drop
  PROVE  IInv'
<1>1. /\ pc = "advance" /\ first <= Len(iov) /\ iov[first].len <= r
      /\ r' = r - iov[first].len /\ first' = first + 1
      /\ UNCHANGED <<pc, bound, iov, lenTotal, lenDone, cursor, offset, hup, ended,
                     moved, answer>>
  BY DEF Drop, BufferDone
<1>2. TypeOK /\ Layout /\ Tails /\ Position /\ Counted
  BY DEF IInv
<1>3. /\ Len(iov) \in Nat /\ Len(moved) \in Nat /\ IntMax \in Nat /\ r \in 0..IntMax
  BY <1>2, Shape DEF TypeOK
<1>4. first \in 1..Len(iov) /\ first \in Bufs
  BY <1>1, FirstEntry
<1>5. PICK lo, hi, b, l \in Nat :
        /\ bound[first - 1] = lo /\ bound[first] = hi
        /\ iov[first].base = b /\ iov[first].len = l
        /\ b + l = hi - lo
        /\ At(first) = lo + b
  BY <1>1, FirstCell
<1>6. TypeOK'
  <2>1. r' \in 0..IntMax
    <3>1. l <= r => r - l \in 0..IntMax
      BY <1>3
    <3> QED BY <1>1, <1>5, <3>1
  <2>2. first' \in 1..Len(iov) + 1
    BY <1>1, <1>3, <1>4
  <2> QED BY <1>1, <1>2, <2>1, <2>2, Zenon DEF TypeOK, Bufs
<1>7. Tails'
  <2> SUFFICES ASSUME NEW i \in first + 1..Len(iov)
               PROVE  /\ iov[i].base + iov[i].len = bound[i] - bound[i - 1]
                      /\ iov[i].base = 0
    BY <1>1 DEF Tails
  <2>1. i \in first..Len(iov) /\ i > first
    BY <1>3, <1>4
  <2> QED BY <1>2, <2>1 DEF Tails
<1>8. Size' = Size
  BY <1>1 DEF Size
<1>9. Len(moved) = At(first)' + r'
  <2>1. At(first)' = bound[first]
    <3>1. first + 1 <= Len(iov) => iov[first + 1].base = 0
      <4> SUFFICES ASSUME first + 1 <= Len(iov)
                   PROVE  iov[first + 1].base = 0
        OBVIOUS
      <4>1. first + 1 \in first..Len(iov) /\ first + 1 > first
        BY <1>3, <1>4
      <4> QED BY <1>2, <4>1 DEF Tails
    <3>2. first' - 1 = first
      BY <1>1, <1>4
    <3>3. At(first)' = bound[first]
                         + (IF first + 1 <= Len(iov) THEN iov[first + 1].base ELSE 0)
      BY <1>1, <3>2 DEF At
    <3>4. At(first)' = bound[first] + 0
      BY <3>1, <3>3
    <3> QED BY <1>5, <3>4
  <2>2. Len(moved) = lo + b + r
    BY <1>1, <1>2, <1>5 DEF Position
  <2>3. lo + b + r = hi + (r - l)
    BY <1>3, <1>5
  <2>4. r' = r - l
    BY <1>1, <1>5
  <2> QED BY <1>5, <2>1, <2>2, <2>3, <2>4
<1>10. Len(moved) <= Size
  BY <1>1, <1>2 DEF Position
<1>11. Position'
  BY <1>1, <1>8, <1>9, <1>10 DEF Position
<1>12. Layout' /\ InPlace' /\ HangupSeen' /\ KernelPosition' /\ NoShortAnswer' /\ Counted'
  BY <1>1, <1>8 DEF IInv, Layout, InPlace, HangupSeen, KernelPosition, NoShortAnswer,
                    Counted, Bufs
<1> QED BY <1>6, <1>7, <1>11, <1>12 DEF IInv
\* What is left of r goes to the first buffer that is not complete; the array
\* then starts where the stream stands.
LEMMA AdvancedArray ==
  ASSUME IInv, Advance
  PROVE  /\ iov' \in Seq([base : Nat, len : Nat])
         /\ Len(iov') = Len(iov)
         /\ Tails'
         /\ At(first)' = Len(moved)
<1>1. /\ pc = "advance" /\ iov' = Advanced
      /\ UNCHANGED <<bound, first, r, moved>>
  BY DEF Advance
<1>2. TypeOK /\ Layout /\ Tails /\ Position
  BY DEF IInv
<1>3. /\ Len(iov) \in Nat /\ Len(moved) \in Nat /\ r \in Nat
      /\ first \in 1..Len(iov) + 1
  BY <1>2, Shape DEF TypeOK
<1>4. iov \in Seq([base : Nat, len : Nat])
  BY <1>2 DEF TypeOK
<1>5. Len(moved) = At(first) + r /\ Len(moved) <= Size
  BY <1>1, <1>2 DEF Position
<1>6. CASE first > Len(iov)
  <2>1. iov' = iov
    BY <1>1, <1>6 DEF Advanced
  <2>2. At(first) \in Nat /\ At(first) = Size
    BY <1>2, <1>6, AtFirst
  <2>3. At(first)' = At(first)
    BY <1>1, <2>1 DEF At
  <2>4. r = 0 /\ Len(moved) = At(first)
    BY <1>3, <1>5, <2>2
  <2>5. Tails'
    BY <1>1, <1>2, <2>1 DEF Tails
  <2> QED BY <1>4, <2>1, <2>3, <2>4, <2>5
<1>7. CASE first <= Len(iov)
  <2>1. first \in 1..Len(iov)
    BY <1>7, FirstEntry
  <2>2. PICK lo, hi, b, l \in Nat :
          /\ bound[first - 1] = lo /\ bound[first] = hi
          /\ iov[first].base = b /\ iov[first].len = l
          /\ b + l = hi - lo
          /\ At(first) = lo + b
    BY <1>7, FirstCell
  <2> DEFINE rest == [base |-> b + r, len |-> l - r]
  <2>3. r < l
    <3>1. ~(l <= r) => r < l
      BY <1>3
    <3> QED BY <1>7, <2>2, <3>1 DEF Advance, BufferDone
  <2>4. iov' = [iov EXCEPT ![first] = rest]
    <3>1. ~(first > Len(iov))
      BY <1>3, <1>7
    <3> QED BY <1>1, <2>2, <3>1 DEF Advanced
  <2>5. /\ rest \in [base : Nat, len : Nat]
        /\ rest.base = b + r /\ rest.base + rest.len = hi - lo
    <3>1. b + r \in Nat /\ l - r \in Nat /\ (b + r) + (l - r) = hi - lo
      BY <1>3, <2>2, <2>3
    <3>2. rest.base = b + r /\ rest.len = l - r
      OBVIOUS
    <3>3. rest \in [base : Nat, len : Nat]
      BY <3>1
    <3> QED BY <3>1, <3>2, <3>3, Zenon
  <2> HIDE DEF rest
  <2>6. /\ iov' \in Seq([base : Nat, len : Nat])
        /\ Len(iov') = Len(iov)
        /\ \A j \in 1..Len(iov) : iov'[j] = IF j = first THEN rest ELSE iov[j]
    <3>1. rest \in [base : Nat, len : Nat]
      BY <2>5
    <3>2. LET e == [iov EXCEPT ![first] = rest]
          IN /\ e \in Seq([base : Nat, len : Nat])
             /\ Len(e) = Len(iov)
             /\ \A j \in 1..Len(iov) : e[j] = IF j = first THEN rest ELSE iov[j]
      BY <1>4, <2>1, <3>1, ExceptSeq
    <3> QED BY <2>4, <3>2, Zenon
  <2>7. iov'[first] = rest
    BY <2>1, <2>6
  <2>8. Tails'
    <3> SUFFICES ASSUME NEW i \in first..Len(iov)
                 PROVE  /\ iov'[i].base + iov'[i].len = bound[i] - bound[i - 1]
                        /\ i > first => iov'[i].base = 0
      BY <1>1, <2>6 DEF Tails
    <3>1. CASE i = first
      <4>1. ~(i > first)
        BY <1>3, <3>1
      <4> QED BY <2>2, <2>5, <2>7, <3>1, <4>1
    <3>2. CASE i # first
      <4>1. iov'[i] = iov[i] /\ i \in first..Len(iov)
        BY <1>3, <2>6, <3>2
      <4> QED BY <1>2, <4>1 DEF Tails
    <3> QED BY <3>1, <3>2
  <2>9. At(first)' = Len(moved)
    <3>1. At(first)' = lo + (b + r)
      BY <1>1, <1>7, <2>2, <2>5, <2>6, <2>7 DEF At
    <3>2. Len(moved) = lo + b + r
      BY <1>5, <2>2
    <3>3. lo + b + r = lo + (b + r)
      BY <1>3
    <3> QED BY <3>1, <3>2, <3>3
  <2> QED BY <2>6, <2>8, <2>9
<1> QED BY <1>3, <1>6, <1>7

LEMMA AdvanceStep ==
  ASSUME IInv, Advance
  PROVE  IInv'
<1>1. /\ pc = "advance"
      /\ UNCHANGED <<bound, first, lenTotal, lenDone, r, cursor, offset, hup, ended, moved>>
      /\ \/ (lenDone >= lenTotal \/ hup) /\ pc' = "done" /\ answer' = lenDone
         \/ pc' = "wait" /\ answer' = answer
  BY DEF Advance, Finish
<1>2. TypeOK /\ Position /\ Counted /\ HangupSeen
  BY DEF IInv
<1>3. /\ iov' \in Seq([base : Nat, len : Nat])
      /\ Len(iov') = Len(iov)
      /\ Tails'
      /\ At(first)' = Len(moved)
  BY AdvancedArray
<1>4. Bufs' = Bufs /\ Size' = Size
  BY <1>1, <1>3 DEF Bufs, Size
<1>5. TypeOK'
  <2>1. pc' \in {"wait", "done"} /\ answer' \in -IntMax - 1..IntMax
    BY <1>1, <1>2 DEF TypeOK
  <2>2. moved' \in Seq((1..Len(iov')) \X Nat)
    BY <1>1, <1>2, <1>3, Zenon DEF TypeOK
  <2>3. first' \in 1..Len(iov') + 1 /\ cursor' \in 1..Len(iov') + 1
    BY <1>1, <1>2, <1>3 DEF TypeOK
  <2>4. bound' \in [Bufs' -> Nat]
    BY <1>1, <1>2, <1>4 DEF TypeOK
  <2> QED BY <1>1, <1>2, <1>3, <2>1, <2>2, <2>3, <2>4, Zenon DEF TypeOK
<1>6. Layout' /\ InPlace' /\ HangupSeen' /\ KernelPosition'
  BY <1>1, <1>4 DEF IInv, Layout, InPlace, HangupSeen, KernelPosition
<1>7. Position'
  BY <1>1, <1>3 DEF Position
<1>8. Size <= IntMax => lenTotal = Size /\ lenDone = Len(moved)
  BY <1>1, <1>2 DEF Counted
<1>9. Counted'
  BY <1>1, <1>4, <1>8 DEF Counted
<1>10. NoShortAnswer'
  <2> SUFFICES ASSUME pc' = "done", Size <= IntMax
               PROVE  answer' = Len(moved) /\ (Len(moved) = Size \/ ended)
    BY <1>1, <1>4 DEF NoShortAnswer
  <2>1. answer' = lenDone /\ (lenDone >= lenTotal \/ hup)
    BY <1>1
  <2>2. Len(moved) <= Size
    BY <1>1, <1>2 DEF Position
  <2>3. Len(moved) \in Nat /\ Size \in Nat
    BY <1>2, Shape DEF Size
  <2> QED BY <1>2, <1>8, <2>1, <2>2, <2>3 DEF HangupSeen
<1> QED BY <1>3, <1>5, <1>6, <1>7, <1>9, <1>10 DEF IInv

-----------------------------------------------------------------------------
\* The invariant is inductive.
LEMMA NextInv ==
  ASSUME IInv, [Next]_vars
  PROVE  IInv'
<1>1. CASE UNCHANGED vars
  <2>1. /\ UNCHANGED <<pc, bound, iov, first, lenTotal, lenDone, r, cursor, offset>>
        /\ UNCHANGED <<hup, ended, moved, answer>>
    BY <1>1 DEF vars
  <2>2. TypeOK'
    BY <2>1, Zenon DEF IInv, TypeOK, Bufs
  <2>3. Layout' /\ Tails' /\ InPlace' /\ HangupSeen'
    BY <2>1 DEF IInv, Layout, Tails, InPlace, HangupSeen, Bufs
  <2>4. KernelPosition' /\ Position' /\ NoShortAnswer' /\ Counted'
    BY <2>1 DEF IInv, KernelPosition, Position, NoShortAnswer, Counted, At, Size
  <2> QED BY <2>2, <2>3, <2>4 DEF IInv
<1> QED BY <1>1, StartStep, TotalStep, WakeStep, CancelStep, CallStep, CopyStep,
           CallFailsStep, CallSucceedsStep, DropStep, AdvanceStep DEF Next

LEMMA Invariance == Spec => []IInv
<1>1. Init => IInv
  BY InitInv
<1>2. IInv /\ [Next]_vars => IInv'
  BY NextInv
<1> QED BY <1>1, <1>2, PTL DEF Spec

\* The types hold: in particular r never goes below zero while buffers are
\* dropped, and no length of an advanced buffer does (doOperation).
THEOREM TypeCorrect == Spec => []TypeOK
<1>1. IInv => TypeOK
  BY DEF IInv
<1> QED BY <1>1, Invariance, PTL

\* For every vector, of any number and lengths of buffers, the ones without
\* bytes too, and every way the system calls are cut, each byte readvAll or
\* writevAll moves is at its place: the in-place advance of doOperation is right.
\* An overflow of the counters changes nothing in this.
THEOREM BytesInPlace == Spec => []InPlace
<1>1. IInv => InPlace
  BY DEF IInv
<1> QED BY <1>1, Invariance, PTL

\* For every vector an int can count, the callback of readvAll and writevAll is
\* told what was moved, and less than the vector only at an end or an error.
THEOREM AnswerComplete == Spec => []NoShortAnswer
<1>1. IInv => NoShortAnswer
  BY DEF IInv
<1> QED BY <1>1, Invariance, PTL

-----------------------------------------------------------------------------
(***************************************************************************)
(* No call is made without a byte to transfer, for vectors of every size:  *)
(* the counters may have wrapped, but then both have.                      *)
(***************************************************************************)

\* A nonempty set of natural numbers has a least element.
LEMMA Least ==
  ASSUME NEW T, T \subseteq Nat, T # {}
  PROVE  \E x \in T : \A y \in T : x <= y
<1> DEFINE R == OpToRel(<, Nat)
<1>1. IsWellFoundedOn(R, Nat)
  BY NatLessThanWellFounded
<1>2. \A x, y \in Nat : y < x => <<y, x>> \in R
  BY DEF OpToRel
<1> HIDE DEF R
<1>3. PICK x \in T : \A y \in T : ~(<<y, x>> \in R)
  BY <1>1, WFMin
<1>4. \A y \in T : x <= y
  <2> SUFFICES ASSUME NEW y \in T PROVE x <= y
    OBVIOUS
  <2>1. x \in Nat /\ y \in Nat
    OBVIOUS
  <2>2. ~(y < x)
    BY <1>2, <1>3, <2>1, Zenon
  <2> QED BY <2>1, <2>2
<1> QED BY <1>3, <1>4

\* a and b are the same int.
Modulus == 2 * (IntMax + 1)
SameInt(a, b) == \E k \in Int : a = b + k * Modulus

LEMMA ModulusFacts == Modulus \in Nat /\ Modulus > 0
BY IovAssumption DEF Modulus

LEMMA WrapSame ==
  ASSUME NEW n \in Int
  PROVE  SameInt(Wrap(n), n)
<1> DEFINE m == n + IntMax + 1
<1>1. m \in Int /\ IntMax \in Nat /\ Modulus \in Nat /\ Modulus > 0
  BY IovAssumption, ModulusFacts
<1>2. Wrap(n) = (m % Modulus) - (IntMax + 1) /\ m = n + IntMax + 1
  BY DEF Wrap, Modulus
<1> HIDE DEF m
<1>3. m % Modulus \in Int /\ m \div Modulus \in Int
      /\ m = Modulus * (m \div Modulus) + (m % Modulus)
  <2>1. \A a \in Int, d \in Nat : d > 0 =>
          a % d \in Int /\ a \div d \in Int /\ a = d * (a \div d) + (a % d)
    BY Z3
  <2> QED BY <1>1, <2>1
<1> DEFINE k == -(m \div Modulus)
<1>4. k \in Int /\ k * Modulus = -(Modulus * (m \div Modulus))
  <2>1. \A d \in Int, q \in Int : (-q) * d = -(d * q)
    BY Z3
  <2> QED BY <1>1, <1>3, <2>1
<1>5. Wrap(n) = n + k * Modulus
  <2>1. \A w, x, y, p, i, z \in Int :
          x = p + y /\ w = y - (i + 1) /\ x = n + i + 1 /\ z = -p => w = n + z
    OBVIOUS
  <2>2. Modulus * (m \div Modulus) \in Int /\ k * Modulus \in Int
    BY <1>1, <1>3, <1>4
  <2>3. Wrap(n) \in Int
    BY <1>1, <1>2, <1>3
  <2> QED BY <1>1, <1>2, <1>3, <1>4, <2>1, <2>2, <2>3
<1> QED BY <1>4, <1>5 DEF SameInt

LEMMA SameTrans ==
  ASSUME NEW a \in Int, NEW b \in Int, NEW c \in Int, SameInt(a, b), SameInt(b, c)
  PROVE  SameInt(a, c)
<1>1. PICK k \in Int : a = b + k * Modulus
  BY DEF SameInt
<1>2. PICK l \in Int : b = c + l * Modulus
  BY DEF SameInt
<1>3. Modulus \in Int
  BY ModulusFacts
<1>4. (k + l) * Modulus = k * Modulus + l * Modulus
  <2>1. \A d \in Int, x \in Int, y \in Int : (x + y) * d = x * d + y * d
    BY Z3
  <2> QED BY <1>3, <2>1
<1>5. k + l \in Int /\ k * Modulus \in Int /\ l * Modulus \in Int
  BY <1>3
<1>6. a = c + (k + l) * Modulus
  BY <1>1, <1>2, <1>4, <1>5
<1> QED BY <1>5, <1>6 DEF SameInt

LEMMA SameAdd ==
  ASSUME NEW a \in Int, NEW b \in Int, NEW c \in Int, SameInt(a, b)
  PROVE  SameInt(a + c, b + c)
<1>1. PICK k \in Int : a = b + k * Modulus
  BY DEF SameInt
<1>2. Modulus \in Int /\ k * Modulus \in Int
  BY ModulusFacts
<1>3. a + c = b + c + k * Modulus
  BY <1>1, <1>2
<1> QED BY <1>3 DEF SameInt

LEMMA SameNumber ==
  ASSUME NEW a \in Int
  PROVE  SameInt(a, a)
<1>1. 0 \in Int /\ 0 * Modulus = 0
  BY ModulusFacts
<1> QED BY <1>1 DEF SameInt

\* Two ints that hold the same number are equal.
LEMMA SameEqual ==
  ASSUME NEW a \in -IntMax - 1..IntMax, NEW b \in -IntMax - 1..IntMax, NEW c \in Int,
         SameInt(a, c), SameInt(b, c)
  PROVE  a = b
<1>1. PICK k \in Int : a = c + k * Modulus
  BY DEF SameInt
<1>2. PICK l \in Int : b = c + l * Modulus
  BY DEF SameInt
<1>3. Modulus \in Nat /\ Modulus > 0 /\ IntMax \in Nat
  BY ModulusFacts, IovAssumption
<1>4. a \in Int /\ b \in Int /\ a - b < Modulus /\ b - a < Modulus
  BY <1>3 DEF Modulus
<1>5. \A x, y \in Int, d \in Nat : x > y => x * d - y * d >= d
  <2>1. \A x, y \in Int, d \in Nat : x > y => (x - y) * d >= d
    BY Z3
  <2>2. \A x, y \in Int, d \in Nat : (x - y) * d = x * d - y * d
    BY Z3
  <2> QED BY <2>1, <2>2
<1>6. k * Modulus \in Int /\ l * Modulus \in Int
  BY <1>3
<1>7. ~(k > l) /\ ~(l > k)
  BY <1>1, <1>2, <1>3, <1>4, <1>5, <1>6
<1>8. k = l
  BY <1>7
<1> QED BY <1>1, <1>2, <1>8

\* The counters are the sums they stand for, as far as an int can hold them.
Sums ==
  /\ pc = "total" => /\ first = 1 /\ moved = <<>> /\ lenDone = 0
                     /\ SameInt(lenTotal, bound[cursor - 1])
  /\ pc \in {"call", "copy", "wait", "advance"} => SameInt(lenTotal, Size)
  /\ pc \in {"call", "wait", "advance"} => SameInt(lenDone, Len(moved))
  /\ pc = "copy" => SameInt(lenDone + r, Len(moved))

\* Between two calls something is left to transfer.
Left == pc \in {"total", "call", "wait"} /\ Size > 0 => Len(moved) < Size

\* What the steps need to know of the numbers.
LEMMA Numbers ==
  ASSUME IInv
  PROVE  /\ lenTotal \in Int /\ lenDone \in Int /\ r \in Nat /\ IntMax \in Nat
         /\ lenTotal \in -IntMax - 1..IntMax /\ lenDone \in -IntMax - 1..IntMax
         /\ Len(moved) \in Nat /\ Size \in Nat /\ Len(iov) \in Nat
         /\ first \in 1..Len(iov) + 1 /\ cursor \in 1..Len(iov) + 1
<1>1. TypeOK
  BY DEF IInv
<1>2. Len(moved) \in Nat /\ Size \in Nat /\ Len(iov) \in Nat /\ IntMax \in Nat
  BY <1>1, Shape DEF Size
<1>3. /\ lenTotal \in -IntMax - 1..IntMax /\ lenDone \in -IntMax - 1..IntMax
      /\ r \in 0..IntMax
      /\ first \in 1..Len(iov) + 1 /\ cursor \in 1..Len(iov) + 1
  BY <1>1 DEF TypeOK
<1> QED BY <1>2, <1>3

\* If a buffer that is left has a byte, the stream stands before its end.
LEMMA ByteLeft ==
  ASSUME IInv, NEW i \in first..Len(iov), iov[i].len > 0
  PROVE  At(first) < Size
<1>1. TypeOK /\ Layout /\ Tails
  BY DEF IInv
<1>2. /\ Len(iov) \in Nat /\ first \in 1..Len(iov) + 1
      /\ \A j \in 1..Len(iov) : iov[j] \in [base : Nat, len : Nat]
      /\ \A j \in Bufs : bound[j] \in Nat
  BY <1>1, Shape DEF TypeOK
<1>3. /\ i \in 1..Len(iov) /\ i \in Bufs /\ i - 1 \in Bufs /\ first \in Bufs
      /\ Len(iov) \in Bufs /\ first - 1 \in Bufs /\ first <= i /\ i <= Len(iov)
      /\ first \in first..Len(iov) /\ first \in 1..Len(iov)
  BY <1>2 DEF Bufs
<1>4. bound[i] <= Size
  BY <1>1, <1>3 DEF Layout, Size
<1>5. iov[i].base \in Nat /\ iov[i].len \in Nat /\ iov[first].base \in Nat
      /\ iov[first].len \in Nat
  BY <1>2, <1>3
<1>6. /\ iov[i].base + iov[i].len = bound[i] - bound[i - 1]
      /\ iov[first].base + iov[first].len = bound[first] - bound[first - 1]
  BY <1>1, <1>3 DEF Tails
<1>7. At(first) = bound[first - 1] + iov[first].base
  BY <1>3 DEF At
<1>8. /\ bound[i] \in Nat /\ bound[i - 1] \in Nat /\ bound[first] \in Nat
      /\ bound[first - 1] \in Nat /\ Size \in Nat
  BY <1>2, <1>3 DEF Size
<1>9. CASE i = first
  <2>1. \A b, l, hi, lo, s \in Nat : b + l = hi - lo /\ l > 0 /\ hi <= s => lo + b < s
    OBVIOUS
  <2> QED BY <1>4, <1>5, <1>6, <1>7, <1>8, <1>9, <2>1
<1>10. CASE i # first
  <2>1. bound[first] <= bound[i - 1]
    <3>1. first <= i - 1
      BY <1>2, <1>3, <1>10
    <3> QED BY <1>1, <1>3, <3>1 DEF Layout
  <2>2. first <= Len(iov)
    BY <1>2, <1>3
  <2>3. At(first) <= bound[first]
    <3>1. PICK lo, hi, b, l \in Nat :
            /\ bound[first - 1] = lo /\ bound[first] = hi
            /\ iov[first].base = b /\ iov[first].len = l
            /\ b + l = hi - lo
            /\ At(first) = lo + b
      BY <2>2, FirstCell
    <3> QED BY <3>1
  <2>4. bound[i - 1] < bound[i]
    <3>1. \A b, l, hi, lo \in Nat : b + l = hi - lo /\ l > 0 => lo < hi
      OBVIOUS
    <3> QED BY <1>5, <1>6, <1>8, <3>1
  <2>5. At(first) \in Nat
    BY <1>5, <1>7, <1>8
  <2> QED BY <1>4, <1>8, <2>1, <2>3, <2>4, <2>5
<1> QED BY <1>9, <1>10

\* And if the stream stands before its end, a buffer that is left has a byte:
\* otherwise the boundaries from the first one on would all be the same.
LEMMA BufferLeft ==
  ASSUME IInv, At(first) < Size
  PROVE  \E i \in first..Len(iov) : iov[i].len > 0
<1> SUFFICES ASSUME \A i \in first..Len(iov) : ~(iov[i].len > 0) PROVE FALSE
  OBVIOUS
<1>1. TypeOK /\ Tails
  BY DEF IInv
<1>2. /\ Len(iov) \in Nat /\ first \in 1..Len(iov) + 1
      /\ \A j \in 1..Len(iov) : iov[j] \in [base : Nat, len : Nat]
      /\ \A j \in Bufs : bound[j] \in Nat
  BY <1>1, Shape DEF TypeOK
<1>3. first <= Len(iov) /\ first \in 1..Len(iov)
  BY <1>1, <1>2, AtFirst
<1>4. \A i \in first..Len(iov) : iov[i].len = 0
  <2> SUFFICES ASSUME NEW i \in first..Len(iov) PROVE iov[i].len = 0
    OBVIOUS
  <2>1. i \in 1..Len(iov)
    BY <1>2
  <2>2. iov[i].len \in Nat
    BY <1>2, <2>1
  <2> QED BY <2>2
<1>5. At(first) = bound[first] /\ bound[first] \in Nat
  <2>1. PICK lo, hi, b, l \in Nat :
          /\ bound[first - 1] = lo /\ bound[first] = hi
          /\ iov[first].base = b /\ iov[first].len = l
          /\ b + l = hi - lo
          /\ At(first) = lo + b
    BY <1>3, FirstCell
  <2>2. l = 0
    BY <1>2, <1>3, <1>4, <2>1
  <2> QED BY <2>1, <2>2
<1> DEFINE T == {i \in first..Len(iov) : bound[i] # bound[first]}
<1>6. T \subseteq Nat
  BY <1>2
<1>7. Len(iov) \in T
  <2>1. Len(iov) \in first..Len(iov)
    BY <1>2, <1>3
  <2>2. bound[Len(iov)] # bound[first]
    BY <1>5 DEF Size
  <2> QED BY <2>1, <2>2
<1>8. PICK i \in T : \A j \in T : i <= j
  <2>1. T # {}
    BY <1>7
  <2> HIDE DEF T
  <2> QED BY <1>6, <2>1, Least
<1>9. i \in first..Len(iov) /\ bound[i] # bound[first] /\ i > first
  BY <1>2
<1>10. bound[i - 1] = bound[first]
  <2>1. i - 1 \in first..Len(iov) /\ ~(i <= i - 1)
    BY <1>2, <1>9
  <2> QED BY <1>8, <2>1
<1>11. iov[i].base + iov[i].len = bound[i] - bound[i - 1] /\ iov[i].base = 0
  BY <1>1, <1>9 DEF Tails
<1>12. bound[i] \in Nat /\ iov[i].len = 0
  <2>1. i \in Bufs
    BY <1>2, <1>9 DEF Bufs
  <2> QED BY <1>2, <1>4, <1>9, <2>1
<1> QED BY <1>5, <1>9, <1>10, <1>11, <1>12

LEMMA TotalSums ==
  ASSUME IInv, Sums, Left, Total
  PROVE  Sums' /\ Left'
<1>1. TypeOK /\ Layout /\ Tails /\ Position
  BY DEF IInv
<1>2. /\ pc = "total"
      /\ UNCHANGED <<bound, iov, first, lenDone, r, moved>>
  BY DEF Total
<1>3. Size' = Size
  BY <1>2 DEF Size
<1>4. /\ lenTotal \in Int /\ Len(iov) \in Nat /\ cursor \in 1..Len(iov) + 1
      /\ Len(moved) \in Nat
  BY Numbers
<1>5. first = 1 /\ moved = <<>> /\ lenDone = 0 /\ SameInt(lenTotal, bound[cursor - 1])
  BY <1>2 DEF Sums
<1>6. Left'
  BY <1>2, <1>3 DEF Left
<1>7. CASE MoreToSum
  <2>1. /\ pc' = pc /\ cursor' = cursor + 1
        /\ lenTotal' = Wrap(lenTotal + iov[cursor].len)
        /\ cursor \in 1..Len(iov)
    BY <1>4, <1>7 DEF Total, MoreToSum
  <2>2. /\ iov[cursor].base \in Nat /\ iov[cursor].len \in Nat
        /\ bound[cursor] \in Nat /\ bound[cursor - 1] \in Nat
    <3>1. iov[cursor] \in [base : Nat, len : Nat]
      BY <1>1, <2>1, Shape
    <3>2. cursor \in Bufs /\ cursor - 1 \in Bufs
      BY <1>4, <2>1 DEF Bufs
    <3> QED BY <1>1, <3>1, <3>2, Shape
  <2>3. iov[cursor].base = 0
    <3>1. At(first) = 0
      BY <1>1, <1>2, <1>5 DEF Position
    <3>2. CASE cursor = 1
      <4>1. At(first) = bound[0] + iov[1].base
        BY <1>4, <1>5, <2>1, <3>2 DEF At
      <4> QED BY <1>1, <2>2, <3>1, <3>2, <4>1 DEF Layout
    <3>3. CASE cursor > 1
      BY <1>1, <1>4, <1>5, <2>1, <3>3 DEF Tails
    <3> QED BY <2>1, <3>2, <3>3
  <2>4. bound[cursor - 1] + iov[cursor].len = bound[cursor]
    <3>1. cursor \in first..Len(iov)
      BY <1>4, <1>5, <2>1
    <3>2. iov[cursor].base + iov[cursor].len = bound[cursor] - bound[cursor - 1]
      BY <1>1, <3>1 DEF Tails
    <3>3. \A l, lo, hi \in Nat : 0 + l = hi - lo => lo + l = hi
      OBVIOUS
    <3> QED BY <2>2, <2>3, <3>2, <3>3
  <2>5. SameInt(lenTotal + iov[cursor].len, bound[cursor])
    <3> DEFINE a == lenTotal
               b == bound[cursor - 1]
               c == iov[cursor].len
    <3>1. a \in Int /\ b \in Int /\ c \in Int /\ SameInt(a, b) /\ b + c = bound[cursor]
      BY <1>4, <1>5, <2>2, <2>4
    <3> HIDE DEF a, b, c
    <3>2. SameInt(a + c, b + c)
      BY <3>1, SameAdd
    <3> QED BY <3>1, <3>2 DEF a, c
  <2>6. SameInt(lenTotal', bound[cursor])
    <3> DEFINE n == lenTotal + iov[cursor].len
    <3>1. n \in Int /\ Wrap(n) \in Int
      <4>1. n \in Int /\ IntMax \in Nat
        BY <1>4, <2>2, IovAssumption
      <4>2. Wrap(n) \in -IntMax - 1..IntMax
        BY <4>1, WrapRange
      <4> QED BY <4>1, <4>2
    <3>2. SameInt(Wrap(n), n)
      BY <3>1, WrapSame
    <3> QED BY <2>1, <2>2, <2>5, <3>1, <3>2, SameTrans
  <2>7. cursor' - 1 = cursor
    BY <1>4, <2>1
  <2> QED BY <1>2, <1>5, <1>6, <2>1, <2>6, <2>7 DEF Sums, SameInt
<1>8. CASE ~MoreToSum
  <2>1. /\ pc' \in {"call", "wait"} /\ lenTotal' = lenTotal /\ cursor - 1 = Len(iov)
    BY <1>4, <1>8 DEF Total, MoreToSum
  <2>2. SameInt(lenTotal, Size) /\ Len(moved) = 0
    BY <1>5, <2>1 DEF Size
  <2>3. SameInt(lenDone, Len(moved))
    BY <1>5, <2>2, SameNumber
  <2> QED BY <1>2, <1>3, <1>6, <2>1, <2>2, <2>3 DEF Sums, SameInt
<1> QED BY <1>7, <1>8

LEMMA SumsStep ==
  ASSUME IInv, Sums, Left, [Next]_vars
  PROVE  Sums' /\ Left'
<1>1. /\ lenTotal \in Int /\ lenDone \in Int /\ r \in Nat /\ IntMax \in Nat
      /\ lenTotal \in -IntMax - 1..IntMax /\ lenDone \in -IntMax - 1..IntMax
      /\ Len(moved) \in Nat /\ Size \in Nat /\ Len(iov) \in Nat
      /\ first \in 1..Len(iov) + 1 /\ cursor \in 1..Len(iov) + 1
  BY Numbers
<1>2. CASE Start
  <2>1. /\ pc' = "total" /\ first' = 1 /\ cursor' = 1 /\ moved' = <<>> /\ lenDone' = 0
        /\ lenTotal' = 0
    BY <1>2 DEF Start
  <2>2. Layout'
    BY <1>2, StartStep DEF IInv
  <2>3. bound'[0] = 0 /\ SameInt(0, 0) /\ Len(moved') = 0
    BY <2>1, <2>2, SameNumber DEF Layout
  <2> QED BY <2>1, <2>3 DEF Sums, Left, SameInt
<1>3. CASE Total
  BY <1>3, TotalSums
<1>4. CASE Wake \/ Cancel
  <2>1. pc = "wait" /\ pc' \in {"call", "idle"}
        /\ UNCHANGED <<bound, iov, lenTotal, lenDone, moved>>
    BY <1>4 DEF Wake, Cancel
  <2>2. Size' = Size
    BY <2>1 DEF Size
  <2> QED BY <2>1, <2>2 DEF Sums, Left, SameInt
<1>5. CASE Call
  <2>1. pc = "call" /\ pc' = "copy" /\ r' = 0
        /\ UNCHANGED <<bound, iov, lenTotal, lenDone, moved>>
    BY <1>5 DEF Call
  <2>2. Size' = Size /\ lenDone + 0 = lenDone
    BY <1>1, <2>1 DEF Size
  <2> QED BY <2>1, <2>2 DEF Sums, Left, SameInt
<1>6. CASE Copy
  <2>1. pc = "copy" /\ pc' = "copy" /\ UNCHANGED <<bound, iov, lenTotal, lenDone>>
    BY <1>6 DEF Copy
  <2>2. Size' = Size /\ SameInt(lenTotal, Size) /\ SameInt(lenDone + r, Len(moved))
    BY <2>1 DEF Size, Sums
  <2>3. r' \in Int /\ Len(moved') = At(first) + r' /\ Len(moved) = At(first) + r
        /\ At(first) \in Nat
    <3>1. TypeOK' /\ Position'
      BY <1>6, CopyStep DEF IInv
    <3>2. r' \in Int
      <4>1. r' \in 0..IntMax
        BY <3>1 DEF TypeOK
      <4> QED BY <1>1, <4>1
    <3>3. At(first)' = At(first)
      BY <1>6 DEF Copy, At
    <3>4. Len(moved') = At(first) + r'
      BY <2>1, <3>1, <3>3 DEF Position
    <3> QED BY <2>1, <3>2, <3>4, AtFirst DEF IInv, Position
  <2>4. SameInt(lenDone + r', Len(moved'))
    <3>1. SameInt(lenDone + r + (r' - r), Len(moved) + (r' - r))
      <4> DEFINE a == lenDone + r
                 b == Len(moved)
                 c == r' - r
      <4>1. a \in Int /\ b \in Int /\ c \in Int /\ SameInt(a, b)
        BY <1>1, <2>2, <2>3
      <4> HIDE DEF a, b, c
      <4>2. SameInt(a + c, b + c)
        BY <4>1, SameAdd
      <4> QED BY <4>2 DEF a, b, c
    <3>2. lenDone + r + (r' - r) = lenDone + r' /\ Len(moved) + (r' - r) = Len(moved')
      BY <1>1, <2>3
    <3> QED BY <3>1, <3>2
  <2> QED BY <2>1, <2>2, <2>4 DEF Sums, Left, SameInt
<1>7. CASE CallFails
  <2>1. pc = "copy" /\ r = 0 /\ UNCHANGED <<bound, iov, first, lenTotal, lenDone, moved>>
    BY <1>7 DEF CallFails
  <2>2. Size' = Size /\ SameInt(lenTotal, Size) /\ SameInt(lenDone, Len(moved))
    BY <1>1, <2>1 DEF Size, Sums
  <2>3. CASE pc' = "done"
    BY <2>3 DEF Sums, Left
  <2>4. CASE pc' = "wait" /\ \E i \in first..Len(iov) : iov[i].len > 0
    <3>1. At(first) < Size
      BY <2>4, ByteLeft
    <3>2. Len(moved) = At(first)
      <4>1. Len(moved) = At(first) + r /\ At(first) \in Nat
        BY <2>1, AtFirst DEF IInv, Position
      <4> QED BY <1>1, <2>1, <4>1
    <3> QED BY <2>1, <2>2, <2>4, <3>1, <3>2 DEF Sums, Left, SameInt
  <2> QED BY <1>7, <2>3, <2>4 DEF CallFails, Finish
<1>8. CASE CallSucceeds
  <2>1. pc = "copy" /\ pc' = "advance" /\ lenDone' = Wrap(lenDone + r)
        /\ UNCHANGED <<bound, iov, lenTotal, moved>>
    BY <1>8 DEF CallSucceeds
  <2>2. Size' = Size /\ SameInt(lenTotal, Size) /\ SameInt(lenDone + r, Len(moved))
    BY <2>1 DEF Size, Sums
  <2>3. SameInt(lenDone', Len(moved))
    <3> DEFINE n == lenDone + r
    <3>1. n \in Int
      BY <1>1
    <3>2. Wrap(n) \in Int
      <4>1. Wrap(n) \in -IntMax - 1..IntMax
        BY <3>1, WrapRange
      <4> QED BY <1>1, <4>1
    <3>3. SameInt(Wrap(n), n)
      BY <3>1, WrapSame
    <3> QED BY <1>1, <2>1, <2>2, <3>1, <3>2, <3>3, SameTrans
  <2> QED BY <2>1, <2>2, <2>3 DEF Sums, Left, SameInt
<1>9. CASE Drop
  <2>1. pc = "advance" /\ pc' = "advance" /\ UNCHANGED <<bound, iov, lenTotal, lenDone, moved>>
    BY <1>9 DEF Drop
  <2>2. Size' = Size
    BY <2>1 DEF Size
  <2> QED BY <2>1, <2>2 DEF Sums, Left, SameInt
<1>10. CASE Advance
  <2>1. pc = "advance" /\ UNCHANGED <<bound, lenTotal, lenDone, moved>>
    BY <1>10 DEF Advance
  <2>2. Len(iov') = Len(iov)
    BY <1>10, AdvancedArray
  <2>3. Size' = Size /\ SameInt(lenTotal, Size) /\ SameInt(lenDone, Len(moved))
    BY <2>1, <2>2 DEF Size, Sums
  <2>4. CASE pc' = "done"
    BY <2>4 DEF Sums, Left
  <2>5. CASE pc' = "wait" /\ ~(lenDone >= lenTotal)
    <3>1. Len(moved) <= Size
      BY <2>1 DEF IInv, Position
    <3>2. Len(moved) # Size
      <4> SUFFICES ASSUME Len(moved) = Size PROVE FALSE
        OBVIOUS
      <4>1. lenDone = lenTotal
        BY <1>1, <2>3, SameEqual
      <4> QED BY <1>1, <2>5, <4>1
    <3>3. Len(moved) < Size
      BY <1>1, <3>1, <3>2
    <3> QED BY <2>1, <2>3, <2>5, <3>3 DEF Sums, Left, SameInt
  <2> QED BY <1>10, <2>4, <2>5 DEF Advance, Finish
<1>11. CASE UNCHANGED vars
  BY <1>11 DEF Sums, Left, SameInt, Size, vars
<1> QED BY <1>2, <1>3, <1>4, <1>5, <1>6, <1>7, <1>8, <1>9, <1>10, <1>11 DEF Next

\* readv and writev are never called without a byte to transfer, for vectors of
\* every number and lengths of buffers, also those whose size an int cannot
\* count: doOperation never takes the 0 of such a call for the end of the stream.
THEOREM CallsHaveBytes == Spec => []NoEmptyCall
<1> DEFINE I == IInv /\ Sums /\ Left
<1>1. Init => I
  BY InitInv DEF Init, Sums, Left
<1>2. I /\ [Next]_vars => I'
  BY NextInv, SumsStep
<1>3. I => NoEmptyCall
  <2> SUFFICES ASSUME IInv, Left, pc = "call", Size > 0
               PROVE  \E i \in first..Len(iov) : iov[i].len > 0
    BY DEF NoEmptyCall
  <2>1. At(first) < Size
    BY DEF Left, IInv, Position
  <2> QED BY <2>1, BufferLeft
<1> QED BY <1>1, <1>2, <1>3, PTL DEF Spec
=============================================================================
