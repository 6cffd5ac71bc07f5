---------------------------- MODULE EPollProofs ----------------------------
(***************************************************************************)
(* Proofs about EPoll, for any set of FDs and any EVENTSPERCYCLE.          *)
(***************************************************************************)
EXTENDS EPoll, SequenceTheorems, TLAPS

Distinct(s) == \A j, k \in DOMAIN s : s[j] = s[k] => j = k

-----------------------------------------------------------------------------
(***************************************************************************)
(* The ready list.                                                         *)
(***************************************************************************)

\* A sequence is a function on 1..Len, and Elements is its range.
LEMMA SeqFacts ==
  ASSUME NEW S, NEW s \in Seq(S)
  PROVE  /\ Len(s) \in Nat
         /\ DOMAIN s = 1..Len(s)
         /\ \A k \in DOMAIN s : s[k] \in S
         /\ Elements(s) \subseteq S
BY LenProperties DEF Elements

\* A function on 1..n is a sequence of length n.
LEMMA FunctionIsSeq ==
  ASSUME NEW S, NEW n \in Nat, NEW f \in [1..n -> S]
  PROVE  f \in Seq(S) /\ Len(f) = n
OBVIOUS

\* What is left of s after its first n elements.
LEMMA DropFacts ==
  ASSUME NEW S, NEW s \in Seq(S), NEW n \in 0..Len(s)
  PROVE  /\ SubSeq(s, n + 1, Len(s)) \in Seq(S)
         /\ Len(SubSeq(s, n + 1, Len(s))) = Len(s) - n
         /\ \A k \in 1..(Len(s) - n) : SubSeq(s, n + 1, Len(s))[k] = s[n + k]
<1>1. Len(s) \in Nat /\ n + 1 \in Int /\ \A j \in (n + 1)..Len(s) : s[j] \in S
  BY SeqFacts
<1>2. /\ SubSeq(s, n + 1, Len(s)) \in Seq(S)
      /\ Len(SubSeq(s, n + 1, Len(s))) =
           IF n + 1 <= Len(s) THEN Len(s) - (n + 1) + 1 ELSE 0
      /\ \A j \in 1 .. Len(s) - (n + 1) + 1 :
           SubSeq(s, n + 1, Len(s))[j] = s[(n + 1) + j - 1]
  BY <1>1, SubSeqProperties
<1> QED BY <1>1, <1>2

\* Queueing keeps the ready list duplicate-free and adds just fd.
LEMMA EnqueueFacts ==
  ASSUME NEW S, NEW s \in Seq(S), NEW fd \in S, Distinct(s)
  PROVE  /\ Enqueue(s, fd) \in Seq(S)
         /\ Distinct(Enqueue(s, fd))
         /\ Elements(Enqueue(s, fd)) = Elements(s) \cup {fd}
<1>1. CASE fd \in Elements(s)
  BY <1>1 DEF Enqueue
<1>2. CASE fd \notin Elements(s)
  <2> DEFINE t == Append(s, fd)
  <2>1. t \in Seq(S) /\ Len(t) = Len(s) + 1 /\ Len(s) \in Nat
        /\ DOMAIN t = 1..(Len(s) + 1) /\ DOMAIN s = 1..Len(s)
    OBVIOUS
  <2>2. \A k \in DOMAIN t : t[k] = IF k = Len(s) + 1 THEN fd ELSE s[k]
    OBVIOUS
  <2>3. Elements(t) = Elements(s) \cup {fd}
    BY <2>1, <2>2 DEF Elements
  <2>4. Distinct(t)
    BY <1>2, <2>1, <2>2 DEF Distinct, Elements
  <2> QED BY <1>2, <2>1, <2>3, <2>4 DEF Enqueue
<1> QED BY <1>1, <1>2

\* A duplicate-free sequence without its k-th element has lost just s[k].
LEMMA WithoutFacts ==
  ASSUME NEW S, NEW s \in Seq(S), NEW k \in DOMAIN s, Distinct(s)
  PROVE  /\ Without(s, k) \in Seq(S)
         /\ Distinct(Without(s, k))
         /\ Elements(Without(s, k)) = Elements(s) \ {s[k]}
<1> DEFINE n == Len(s)
           t == Without(s, k)
<1>1. n \in Nat /\ n >= 1 /\ k \in 1..n /\ DOMAIN s = 1..n /\ \A j \in 1..n : s[j] \in S
  BY SeqFacts
<1>2. DOMAIN t = 1..(n - 1) /\ \A j \in 1..(n - 1) : t[j] = IF j < k THEN s[j] ELSE s[j + 1]
  BY <1>1 DEF Without
<1>3. t \in Seq(S)
  <2>1. \A j \in 1..(n - 1) : (IF j < k THEN s[j] ELSE s[j + 1]) \in S
    BY <1>1
  <2> QED BY <1>1, <2>1, IsASeq DEF Without
<1>4. Distinct(t)
  BY <1>1, <1>2 DEF Distinct
<1>5. ASSUME NEW x \in Elements(t) PROVE x \in Elements(s) \ {s[k]}
  <2>1. PICK j \in 1..(n - 1) : x = t[j]
    BY <1>2, <1>5 DEF Elements
  <2> QED BY <1>1, <1>2, <2>1 DEF Distinct, Elements
<1>6. ASSUME NEW x \in Elements(s), x # s[k] PROVE x \in Elements(t)
  <2>1. PICK j \in 1..n : x = s[j]
    BY <1>1 DEF Elements
  <2>2. CASE j < k
    BY <1>1, <1>2, <2>1, <2>2 DEF Elements
  <2>3. CASE j > k
    <3>1. j - 1 \in 1..(n - 1) /\ t[j - 1] = s[j]
      BY <1>1, <1>2, <2>3
    <3> QED BY <1>2, <2>1, <3>1 DEF Elements
  <2> QED BY <1>1, <1>6, <2>1, <2>2, <2>3
<1> QED BY <1>3, <1>4, <1>5, <1>6

\* Taking fd out of a duplicate-free ready list leaves no trace of it.
LEMMA DequeuedFacts ==
  ASSUME NEW S, NEW s \in Seq(S), NEW t, NEW fd, Distinct(s),
         Dequeued(s, t, fd)
  PROVE  /\ t \in Seq(S)
         /\ Distinct(t)
         /\ Elements(t) = Elements(s) \ {fd}
<1>1. CASE fd \notin Elements(s) /\ t = s
  BY <1>1
<1>2. ASSUME NEW k \in DOMAIN s, s[k] = fd, t = Without(s, k)
      PROVE  /\ t \in Seq(S)
             /\ Distinct(t)
             /\ Elements(t) = Elements(s) \ {fd}
  BY <1>2, WithoutFacts
<1> QED BY <1>1, <1>2 DEF Dequeued
-----------------------------------------------------------------------------
(***************************************************************************)
(* Type correctness, with the ready list duplicate-free: remove() and      *)
(* close() take one entry out of it, and that must be the only one.        *)
(***************************************************************************)
TypeInv == TypeOK /\ Distinct(rdl)

LEMMA TypeInit == Init => TypeInv
BY EPollAssumption, EmptySeq DEF Init, TypeInv, TypeOK, Distinct, Locations, Continuations

LEMMA UserType ==
  ASSUME TypeInv, NEW fd \in FDs, Add(fd) \/ Remove(fd) \/ Close(fd) \/ Delete(fd)
  PROVE  TypeInv'
<1> USE EPollAssumption
<1>1. CASE Add(fd)
  BY <1>1, EnqueueFacts DEF TypeInv, TypeOK, Add, runVars
<1>2. CASE Remove(fd)
  <2> DEFINE b == currCycleNotifications
  <2>1. /\ b \in Seq(Notification) /\ Len(b) \in Nat /\ DOMAIN b = 1..Len(b)
        /\ \A k \in 1..Len(b) : b[k] \in Notification
    BY SeqFacts DEF TypeInv, TypeOK
  <2>2. \A k \in 1..Len(b) :
          (IF b[k].ptr = fd THEN [ptr |-> Null, events |-> {}] ELSE b[k]) \in Notification
    BY <2>1 DEF Notification
  <2>3. Purge(b, fd) \in Seq(Notification) /\ Len(Purge(b, fd)) = Len(b)
    BY <2>1, <2>2, FunctionIsSeq DEF Purge
  <2> QED BY <1>2, <2>3, DequeuedFacts DEF TypeInv, TypeOK, Remove
<1>3. CASE Close(fd)
  BY <1>3, DequeuedFacts DEF TypeInv, TypeOK, Close, runVars
<1>4. CASE Delete(fd)
  BY <1>4 DEF TypeInv, TypeOK, Delete, runVars
<1> QED BY <1>1, <1>2, <1>3, <1>4

LEMMA EventType ==
  ASSUME TypeInv, NEW fd \in FDs, NEW e \in Events, Drain(fd, e) \/ KernelEvent(fd, e)
  PROVE  TypeInv'
<1> USE EPollAssumption
<1>1. CASE Drain(fd, e)
  BY <1>1, DequeuedFacts DEF TypeInv, TypeOK, Drain, objVars, runVars
<1>2. CASE KernelEvent(fd, e)
  BY <1>2, EnqueueFacts DEF TypeInv, TypeOK, KernelEvent, objVars, runVars
<1> QED BY <1>1, <1>2

\* epoll_wait splits the ready list into the batch and the rest.
LEMMA WaitFacts ==
  ASSUME TypeInv, Wait
  PROVE  \E n \in 0..Len(rdl) :
           /\ n <= EVENTSPERCYCLE
           /\ Len(rdl) \in Nat /\ DOMAIN rdl = 1..Len(rdl)
           /\ \A k \in 1..Len(rdl) : rdl[k] \in FDs
           /\ currCycleNotifications' \in Seq(Notification)
           /\ Len(currCycleNotifications') = n
           /\ DOMAIN currCycleNotifications' = 1..n
           /\ \A k \in 1..n : /\ currCycleNotifications'[k].ptr = rdl[k]
                              /\ currCycleNotifications'[k].events = poll[rdl[k]]
           /\ rdl' \in Seq(FDs)
           /\ Len(rdl') = Len(rdl) - n
           /\ DOMAIN rdl' = 1..(Len(rdl) - n)
           /\ \A k \in 1..(Len(rdl) - n) : rdl'[k] = rdl[n + k]
<1> DEFINE n == BatchSize
           b == [k \in 1..n |-> [ptr |-> rdl[k], events |-> poll[rdl[k]]]]
<1>1. Len(rdl) \in Nat /\ DOMAIN rdl = 1..Len(rdl) /\ \A k \in 1..Len(rdl) : rdl[k] \in FDs
  BY SeqFacts DEF TypeInv, TypeOK
<1>2. n \in 0..Len(rdl) /\ n <= EVENTSPERCYCLE
  BY <1>1, EPollAssumption DEF BatchSize, Min
<1>3. \A k \in 1..n : [ptr |-> rdl[k], events |-> poll[rdl[k]]] \in Notification
  BY <1>1, <1>2 DEF TypeInv, TypeOK, Notification
<1>4. b \in Seq(Notification) /\ Len(b) = n /\ DOMAIN b = 1..n
  BY <1>2, <1>3, FunctionIsSeq
<1>5. currCycleNotifications' = b /\ rdl' = SubSeq(rdl, n + 1, Len(rdl))
  BY DEF Wait
<1>6. /\ SubSeq(rdl, n + 1, Len(rdl)) \in Seq(FDs)
      /\ Len(SubSeq(rdl, n + 1, Len(rdl))) = Len(rdl) - n
      /\ \A k \in 1..(Len(rdl) - n) : SubSeq(rdl, n + 1, Len(rdl))[k] = rdl[n + k]
  BY <1>2, DropFacts DEF TypeInv, TypeOK
<1>7. DOMAIN rdl' = 1..(Len(rdl) - n)
  BY <1>5, <1>6, SeqFacts
<1> QED BY <1>1, <1>2, <1>4, <1>5, <1>6, <1>7

LEMMA RunType ==
  ASSUME TypeInv, RunStep \/ CallbackReturn \/ CallbackThrow
  PROVE  TypeInv'
<1> USE EPollAssumption DEF Locations, Continuations
<1>1. CASE Wait
  <2>1. PICK n \in 0..Len(rdl) :
          /\ n <= EVENTSPERCYCLE
          /\ Len(rdl) \in Nat /\ DOMAIN rdl = 1..Len(rdl)
          /\ currCycleNotifications' \in Seq(Notification)
          /\ Len(currCycleNotifications') = n
          /\ rdl' \in Seq(FDs)
          /\ DOMAIN rdl' = 1..(Len(rdl) - n)
          /\ \A k \in 1..(Len(rdl) - n) : rdl'[k] = rdl[n + k]
    BY <1>1, WaitFacts
  <2>2. Distinct(rdl)'
    <3>1. ASSUME NEW j \in 1..(Len(rdl) - n), NEW k \in 1..(Len(rdl) - n),
                 rdl'[j] = rdl'[k]
          PROVE  j = k
      <4>1. n + j \in DOMAIN rdl /\ n + k \in DOMAIN rdl /\ rdl[n + j] = rdl[n + k]
        BY <2>1, <3>1
      <4>2. n + j = n + k
        BY <4>1 DEF TypeInv, Distinct
      <4> QED BY <2>1, <4>2
    <3> QED BY <2>1, <3>1 DEF Distinct
  <2>3. /\ UNCHANGED <<alive, open, attached, poll, inst, cont, unseen>>
        /\ i' = 1 /\ pc' = "loop"
    BY <1>1 DEF Wait, objVars
  <2> QED BY <2>1, <2>2, <2>3 DEF TypeInv, TypeOK
<1>2. CASE Loop
  <2> DEFINE b == currCycleNotifications
  <2>1. i <= LoopEnd => b[i] \in Notification
    BY SeqFacts DEF TypeInv, TypeOK, LoopEnd
  <2>2. /\ UNCHANGED <<alive, open, attached, poll, rdl, cont>>
        /\ unseen' \in [FDs -> SUBSET Events]
    BY <1>2 DEF TypeInv, TypeOK, Loop, objVars, kernelVars
  <2>3. inst' \in FDs \cup {Null} /\ i' \in Nat \ {0} /\ pc' \in Locations
    BY <1>2, <2>1 DEF TypeInv, TypeOK, Loop, Notification
  <2>4. b' = b \/ b' = <<>>
    BY <1>2 DEF Loop
  <2>5. b' \in Seq(Notification) /\ Len(b') <= EVENTSPERCYCLE
    <3>1. <<>> \in Seq(Notification) /\ Len(<<>>) = 0
      BY EmptySeq
    <3>2. CASE b' = <<>>
      BY <3>1, <3>2
    <3>3. CASE b' = b
      BY <3>3 DEF TypeInv, TypeOK
    <3> QED BY <2>4, <3>2, <3>3
  <2> QED BY <2>2, <2>3, <2>5 DEF TypeInv, TypeOK
<1>3. CASE ReadPhase
  BY <1>3 DEF TypeInv, TypeOK, ReadPhase, objVars, kernelVars
<1>4. CASE WritePhase
  BY <1>4 DEF TypeInv, TypeOK, WritePhase, objVars, kernelVars
<1>5. CASE CallbackReturn
  BY <1>5 DEF TypeInv, TypeOK, CallbackReturn, objVars, kernelVars
<1>6. CASE CallbackThrow
  BY <1>6 DEF TypeInv, TypeOK, CallbackThrow, objVars, kernelVars
<1> QED BY <1>1, <1>2, <1>3, <1>4, <1>5, <1>6 DEF RunStep

LEMMA TypeNext == TypeInv /\ [Next \/ CallbackThrow]_vars => TypeInv'
<1> SUFFICES ASSUME TypeInv, [Next \/ CallbackThrow]_vars
             PROVE  TypeInv'
  OBVIOUS
<1>1. CASE User
  BY <1>1, UserType, EventType DEF User
<1>2. CASE Kernel
  BY <1>2, EventType DEF Kernel
<1>3. CASE RunStep \/ CallbackReturn \/ CallbackThrow
  BY <1>3, RunType
<1>4. CASE UNCHANGED vars
  BY <1>4 DEF TypeInv, TypeOK, vars
<1> QED BY <1>1, <1>2, <1>3, <1>4 DEF Next

\* Type correctness: the batch never outgrows currCycleNotifications, and
\* every piece of state keeps its type, also when callbacks throw out of
\* EPoll::run.
THEOREM TypeCorrect == ThrowSpec => []TypeOK
<1>1. ThrowSpec => []TypeInv
  BY TypeInit, TypeNext, PTL DEF ThrowSpec
<1>2. TypeInv => TypeOK
  BY DEF TypeInv
<1> QED BY <1>1, <1>2, PTL
-----------------------------------------------------------------------------
(***************************************************************************)
(* No dangling FD.  The pointers the loop will follow, in the ready list   *)
(* and in the batch, are those of attached FDs, and these exist.  The      *)
(* entry being dispatched names the dispatched FD or, after remove(),      *)
(* nothing, and then its events are gone too: this is why dispatch() takes *)
(* its events by reference.                                                *)
(***************************************************************************)
BatchInv ==
  \A j \in DOMAIN currCycleNotifications :
    LET n == currCycleNotifications[j] IN
    IF n.ptr = Null THEN n.events = {} ELSE n.ptr \in attached

DispatchInv ==
  /\ Dispatching => /\ i \in DOMAIN currCycleNotifications
                    /\ inst \in FDs
                    /\ currCycleNotifications[i].ptr \in {inst, Null}
  /\ pc = "read" => currCycleNotifications[i].ptr = inst

OwnerInv ==
  /\ TypeInv
  /\ attached \subseteq alive
  /\ Elements(rdl) \subseteq attached
  /\ BatchInv
  /\ DispatchInv

LEMMA OwnerInit == Init => OwnerInv
BY TypeInit DEF Init, OwnerInv, BatchInv, DispatchInv, Dispatching, Elements

\* What the scan of remove() does to an entry of the batch.
LEMMA PurgeFacts ==
  ASSUME NEW s, NEW fd
  PROVE  /\ DOMAIN Purge(s, fd) = DOMAIN s
         /\ \A k \in DOMAIN s : s[k].ptr = fd =>
              Purge(s, fd)[k].ptr = Null /\ Purge(s, fd)[k].events = {}
         /\ \A k \in DOMAIN s : s[k].ptr # fd => Purge(s, fd)[k] = s[k]
BY DEF Purge

LEMMA OwnerUser ==
  ASSUME OwnerInv, TypeInv', NEW fd \in FDs,
         Add(fd) \/ Remove(fd) \/ Close(fd) \/ Delete(fd)
  PROVE  OwnerInv'
<1> USE EPollAssumption
<1>1. CASE Add(fd)
  <2>1. Elements(rdl') \subseteq Elements(rdl) \cup {fd}
    BY <1>1, EnqueueFacts DEF OwnerInv, TypeInv, TypeOK, Add
  <2> QED BY <1>1, <2>1
           DEF OwnerInv, Add, runVars, BatchInv, DispatchInv, Dispatching
<1>2. CASE Remove(fd)
  <2>1. Elements(rdl') = Elements(rdl) \ {fd}
    BY <1>2, DequeuedFacts DEF OwnerInv, TypeInv, TypeOK, Remove
  <2>2. currCycleNotifications' = Purge(currCycleNotifications, fd)
    BY <1>2 DEF Remove
  <2>3. BatchInv'
    BY <1>2, <2>2, PurgeFacts DEF OwnerInv, BatchInv, Remove
  <2>4. DispatchInv'
    BY <1>2, <2>2, PurgeFacts DEF OwnerInv, DispatchInv, Dispatching, Remove, UserCode
  <2> QED BY <1>2, <2>1, <2>3, <2>4 DEF OwnerInv, Remove
<1>3. CASE Close(fd)
  <2>1. Elements(rdl') = Elements(rdl) \ {fd}
    BY <1>3, DequeuedFacts DEF OwnerInv, TypeInv, TypeOK, Close
  <2> QED BY <1>3, <2>1
           DEF OwnerInv, Close, runVars, BatchInv, DispatchInv, Dispatching
<1>4. CASE Delete(fd)
  BY <1>4 DEF OwnerInv, Delete, runVars, BatchInv, DispatchInv, Dispatching, Elements
<1> QED BY <1>1, <1>2, <1>3, <1>4

LEMMA OwnerEvent ==
  ASSUME OwnerInv, TypeInv', NEW fd \in FDs, NEW e \in Events,
         Drain(fd, e) \/ KernelEvent(fd, e)
  PROVE  OwnerInv'
<1> USE EPollAssumption
<1>1. CASE Drain(fd, e)
  <2>1. Elements(rdl') \subseteq Elements(rdl)
    BY <1>1, DequeuedFacts DEF OwnerInv, TypeInv, TypeOK, Drain
  <2> QED BY <1>1, <2>1
           DEF OwnerInv, Drain, objVars, runVars, BatchInv, DispatchInv, Dispatching
<1>2. CASE KernelEvent(fd, e)
  <2>1. Elements(rdl') \subseteq Elements(rdl) \cup (interest \cap {fd})
    BY <1>2, EnqueueFacts DEF OwnerInv, TypeInv, TypeOK, KernelEvent
  <2> QED BY <1>2, <2>1 DEF OwnerInv, KernelEvent, objVars, runVars, BatchInv,
                            DispatchInv, Dispatching, interest
<1> QED BY <1>1, <1>2

LEMMA OwnerRun ==
  ASSUME OwnerInv, TypeInv', RunStep \/ CallbackReturn \/ CallbackThrow
  PROVE  OwnerInv'
<1> USE EPollAssumption
<1>1. CASE Wait
  <2>1. PICK n \in 0..Len(rdl) :
          /\ Len(rdl) \in Nat /\ DOMAIN rdl = 1..Len(rdl)
          /\ DOMAIN currCycleNotifications' = 1..n
          /\ \A k \in 1..n : currCycleNotifications'[k].ptr = rdl[k]
          /\ DOMAIN rdl' = 1..(Len(rdl) - n)
          /\ \A k \in 1..(Len(rdl) - n) : rdl'[k] = rdl[n + k]
    BY <1>1, WaitFacts DEF OwnerInv
  <2>2. UNCHANGED <<alive, attached>> /\ pc' = "loop"
    BY <1>1 DEF Wait, objVars
  <2>3. \A k \in 1..Len(rdl) : rdl[k] \in attached /\ rdl[k] # Null
    BY <2>1 DEF OwnerInv, TypeInv, TypeOK, Elements
  <2>4. BatchInv'
    BY <2>1, <2>2, <2>3 DEF BatchInv
  <2>5. Elements(rdl') \subseteq attached
    BY <2>1, <2>3 DEF Elements
  <2> QED BY <2>2, <2>4, <2>5 DEF OwnerInv, DispatchInv, Dispatching
<1>2. CASE Loop
  <2> DEFINE b == currCycleNotifications
  <2>1. DOMAIN b = 1..Len(b) /\ Len(b) \in Nat /\ i \in Nat \ {0}
    BY SeqFacts DEF OwnerInv, TypeInv, TypeOK
  <2>2. UNCHANGED <<alive, attached, rdl>>
    BY <1>2 DEF Loop, objVars, kernelVars
  <2>3. BatchInv'
    BY <1>2, <2>2 DEF OwnerInv, BatchInv, Loop
  <2>4. DispatchInv'
    <3>1. CASE i <= Len(b) /\ b[i].ptr # Null
      <4>1. b[i].ptr \in FDs
        BY <2>1, <3>1 DEF OwnerInv, BatchInv, TypeInv, TypeOK
      <4> QED BY <1>2, <2>1, <3>1, <4>1 DEF Loop, LoopEnd, DispatchInv, Dispatching
    <3>2. CASE ~(i <= Len(b) /\ b[i].ptr # Null)
      BY <1>2, <2>1, <3>2 DEF Loop, LoopEnd, DispatchInv, Dispatching
    <3> QED BY <3>1, <3>2
  <2> QED BY <2>2, <2>3, <2>4 DEF OwnerInv
<1>3. CASE ReadPhase
  BY <1>3 DEF OwnerInv, BatchInv, DispatchInv, Dispatching, ReadPhase, objVars, kernelVars
<1>4. CASE WritePhase
  BY <1>4 DEF OwnerInv, BatchInv, DispatchInv, Dispatching, WritePhase, objVars, kernelVars
<1>5. CASE CallbackReturn
  BY <1>5 DEF OwnerInv, BatchInv, DispatchInv, Dispatching, CallbackReturn, objVars, kernelVars
<1>6. CASE CallbackThrow
  BY <1>6 DEF OwnerInv, BatchInv, DispatchInv, Dispatching, CallbackThrow, objVars, kernelVars
<1> QED BY <1>1, <1>2, <1>3, <1>4, <1>5, <1>6 DEF RunStep

LEMMA OwnerNext == OwnerInv /\ [Next \/ CallbackThrow]_vars => OwnerInv'
<1> SUFFICES ASSUME OwnerInv, [Next \/ CallbackThrow]_vars
             PROVE  OwnerInv'
  OBVIOUS
<1>0. TypeInv'
  BY TypeNext DEF OwnerInv
<1>1. CASE User
  BY <1>0, <1>1, OwnerUser, OwnerEvent DEF User
<1>2. CASE Kernel
  BY <1>0, <1>2, OwnerEvent DEF Kernel
<1>3. CASE RunStep \/ CallbackReturn \/ CallbackThrow
  BY <1>0, <1>3, OwnerRun
<1>4. CASE UNCHANGED vars
  BY <1>0, <1>4 DEF OwnerInv, BatchInv, DispatchInv, Dispatching, vars
<1> QED BY <1>1, <1>2, <1>3, <1>4 DEF Next

LEMMA OwnerSafe == OwnerInv => NoDanglingFD
<1> SUFFICES ASSUME OwnerInv PROVE NoDanglingFD
  OBVIOUS
<1> DEFINE b == currCycleNotifications
<1>1. DOMAIN b = 1..Len(b) /\ Len(b) \in Nat /\ i \in Nat \ {0}
  BY SeqFacts DEF OwnerInv, TypeInv, TypeOK
<1>2. pc = "loop" /\ i <= Len(b) => b[i].ptr \in alive \cup {Null}
  BY <1>1 DEF OwnerInv, BatchInv
<1>3. pc = "read" => inst \in alive
  BY EPollAssumption DEF OwnerInv, BatchInv, DispatchInv, Dispatching
<1>4. pc = "write" /\ WriteSlotServed => inst \in alive
  <2>1. SUFFICES ASSUME pc = "write", CurrentEvents # {} PROVE inst \in alive
    BY DEF WriteSlotServed
  <2>2. i \in DOMAIN b /\ b[i].ptr \in {inst, Null} /\ b[i].events # {}
    BY <2>1 DEF OwnerInv, DispatchInv, Dispatching, CurrentEvents
  <2> QED BY <2>2 DEF OwnerInv, BatchInv
<1> QED BY <1>2, <1>3, <1>4 DEF NoDanglingFD

\* EPoll::run never follows a pointer to a deleted FD: whatever callbacks add,
\* close, remove, delete or throw, for any number of FDs and any batch size.
THEOREM NoDangling == ThrowSpec => []NoDanglingFD
BY OwnerInit, OwnerNext, OwnerSafe, PTL DEF ThrowSpec
-----------------------------------------------------------------------------
(***************************************************************************)
(* No lost edge, when callbacks do not throw.  A queued FD is registered,  *)
(* and an unseen event is still in the kernel's mask, so that epoll_wait   *)
(* reports it when it takes the FD out of the ready list.                  *)
(***************************************************************************)
EdgeInv ==
  /\ OwnerInv
  /\ \A fd \in interest : unseen[fd] \subseteq poll[fd]
  /\ NoEdgeLost

\* Event e of fd waits in a part of the batch that run() will visit.
InBatch(fd, e) ==
  \E j \in DOMAIN currCycleNotifications :
    /\ Undispatched(j)
    /\ currCycleNotifications[j].ptr = fd
    /\ e \in currCycleNotifications[j].events

LEMMA NoEdgeLostDef ==
  NoEdgeLost <=> \A fd \in interest : \A e \in unseen[fd] :
                   fd \in Elements(rdl) \/ InBatch(fd, e)
BY DEF NoEdgeLost, InBatch

\* The parts of EdgeInv in the state after a step.
LEMMA EdgePrime ==
  ASSUME OwnerInv',
         \A fd \in interest' : unseen'[fd] \subseteq poll'[fd],
         \A fd \in interest' : \A e \in unseen'[fd] :
           fd \in Elements(rdl') \/ InBatch(fd, e)'
  PROVE  EdgeInv'
BY DEF EdgeInv, NoEdgeLost, InBatch, Elements

LEMMA EdgeInit == Init => EdgeInv
BY OwnerInit DEF Init, EdgeInv, NoEdgeLost, interest

LEMMA EdgeUser ==
  ASSUME EdgeInv, OwnerInv', NEW fd \in FDs,
         Add(fd) \/ Remove(fd) \/ Close(fd) \/ Delete(fd)
  PROVE  EdgeInv'
<1> USE EPollAssumption
<1>0. /\ rdl \in Seq(FDs) /\ Distinct(rdl) /\ interest \subseteq FDs
      /\ poll \in [FDs -> SUBSET Events] /\ unseen \in [FDs -> SUBSET Events]
  BY DEF EdgeInv, OwnerInv, TypeInv, TypeOK, interest
<1>1. CASE Add(fd)
  <2>1. /\ Elements(rdl) \subseteq Elements(rdl')
        /\ poll[fd] # {} => fd \in Elements(rdl')
    BY <1>0, <1>1, EnqueueFacts DEF Add
  <2>2. \A g, e : InBatch(g, e) => InBatch(g, e)'
    BY <1>1 DEF InBatch, Undispatched, Add, runVars
  <2>3. interest' = interest \cup {fd} /\ poll' = poll
        /\ unseen' = [unseen EXCEPT ![fd] = poll[fd]]
    BY <1>1 DEF Add, interest
  <2> QED BY <1>0, <2>1, <2>2, <2>3, NoEdgeLostDef, EdgePrime DEF EdgeInv
<1>2. CASE Remove(fd)
  <2>1. Elements(rdl') = Elements(rdl) \ {fd}
    BY <1>0, <1>2, DequeuedFacts DEF Remove
  <2>2. \A g, e : g # fd /\ InBatch(g, e) => InBatch(g, e)'
    BY <1>2, PurgeFacts DEF InBatch, Undispatched, Remove
  <2>3. interest' = interest \ {fd} /\ poll' = poll
        /\ unseen' = [unseen EXCEPT ![fd] = {}]
    BY <1>2 DEF Remove, interest
  <2> QED BY <1>0, <2>1, <2>2, <2>3, NoEdgeLostDef, EdgePrime DEF EdgeInv
<1>3. CASE Close(fd)
  <2>1. Elements(rdl') = Elements(rdl) \ {fd}
    BY <1>0, <1>3, DequeuedFacts DEF Close
  <2>2. \A g, e : InBatch(g, e) => InBatch(g, e)'
    BY <1>3 DEF InBatch, Undispatched, Close, runVars
  <2>3. interest' = interest \ {fd} /\ poll' = [poll EXCEPT ![fd] = {}]
        /\ unseen' = [unseen EXCEPT ![fd] = {}]
    BY <1>3 DEF Close, interest
  <2> QED BY <1>0, <2>1, <2>2, <2>3, NoEdgeLostDef, EdgePrime DEF EdgeInv
<1>4. CASE Delete(fd)
  <2>1. fd \notin interest /\ interest' = interest /\ rdl' = rdl
        /\ poll' = [poll EXCEPT ![fd] = {}] /\ unseen' = unseen
    BY <1>4 DEF Delete, interest
  <2>2. \A g, e : InBatch(g, e) => InBatch(g, e)'
    BY <1>4 DEF InBatch, Undispatched, Delete, runVars
  <2> QED BY <1>0, <2>1, <2>2, NoEdgeLostDef, EdgePrime DEF EdgeInv
<1> QED BY <1>1, <1>2, <1>3, <1>4

LEMMA EdgeEvent ==
  ASSUME EdgeInv, OwnerInv', NEW fd \in FDs, NEW e \in Events,
         Drain(fd, e) \/ KernelEvent(fd, e)
  PROVE  EdgeInv'
<1> USE EPollAssumption
<1>0. /\ rdl \in Seq(FDs) /\ Distinct(rdl) /\ interest \subseteq FDs
      /\ poll \in [FDs -> SUBSET Events] /\ unseen \in [FDs -> SUBSET Events]
  BY DEF EdgeInv, OwnerInv, TypeInv, TypeOK, interest
<1>1. CASE Drain(fd, e)
  <2>1. /\ Elements(rdl) \ {fd} \subseteq Elements(rdl')
        /\ poll'[fd] # {} => rdl' = rdl
    BY <1>0, <1>1, DequeuedFacts DEF Drain
  <2>2. \A g, x : InBatch(g, x) => InBatch(g, x)'
    BY <1>1 DEF InBatch, Undispatched, Drain, runVars
  <2>3. interest' = interest /\ poll' = [poll EXCEPT ![fd] = @ \ {e}]
        /\ unseen' = [unseen EXCEPT ![fd] = @ \ {e}]
    BY <1>1 DEF Drain, interest, objVars
  <2>4. \A g \in interest' : unseen'[g] \subseteq poll'[g]
    BY <1>0, <2>3 DEF EdgeInv
  <2>5. ASSUME NEW g \in interest', NEW x \in unseen'[g]
        PROVE  g \in Elements(rdl') \/ InBatch(g, x)'
    <3>1. x \in unseen[g] /\ g \in interest
      BY <1>0, <2>3, <2>5
    <3>2. g \in Elements(rdl) \/ InBatch(g, x)
      BY <3>1, NoEdgeLostDef DEF EdgeInv
    <3>3. g = fd => poll'[fd] # {}
      BY <2>4, <2>5
    <3> QED BY <2>1, <2>2, <3>2, <3>3
  <2> QED BY <2>4, <2>5, NoEdgeLostDef, EdgePrime DEF EdgeInv
<1>2. CASE KernelEvent(fd, e)
  <2>1. /\ Elements(rdl) \subseteq Elements(rdl')
        /\ fd \in interest => fd \in Elements(rdl')
    BY <1>0, <1>2, EnqueueFacts DEF KernelEvent
  <2>2. \A g, x : InBatch(g, x) => InBatch(g, x)'
    BY <1>2 DEF InBatch, Undispatched, KernelEvent, runVars
  <2>3. /\ interest' = interest /\ poll' = [poll EXCEPT ![fd] = @ \cup {e}]
        /\ unseen' = IF fd \in interest THEN [unseen EXCEPT ![fd] = @ \cup {e}]
                                        ELSE unseen
    BY <1>2 DEF KernelEvent, interest, objVars
  <2>4. \A g \in interest' : unseen'[g] \subseteq poll'[g]
    BY <1>0, <2>3 DEF EdgeInv
  <2>5. ASSUME NEW g \in interest', NEW x \in unseen'[g]
        PROVE  g \in Elements(rdl') \/ InBatch(g, x)'
    <3>1. CASE g = fd
      BY <2>1, <2>3, <2>5, <3>1
    <3>2. CASE g # fd
      <4>1. g \in interest /\ x \in unseen[g]
        BY <1>0, <2>3, <2>5, <3>2
      <4> QED BY <2>1, <2>2, <4>1, NoEdgeLostDef DEF EdgeInv
    <3> QED BY <3>1, <3>2
  <2> QED BY <2>4, <2>5, NoEdgeLostDef, EdgePrime DEF EdgeInv
<1> QED BY <1>1, <1>2

LEMMA EdgeWait ==
  ASSUME EdgeInv, OwnerInv', Wait
  PROVE  EdgeInv'
<1>1. PICK n \in 0..Len(rdl) :
        /\ Len(rdl) \in Nat /\ DOMAIN rdl = 1..Len(rdl)
        /\ DOMAIN currCycleNotifications' = 1..n
        /\ \A k \in 1..n : /\ currCycleNotifications'[k].ptr = rdl[k]
                           /\ currCycleNotifications'[k].events = poll[rdl[k]]
        /\ DOMAIN rdl' = 1..(Len(rdl) - n)
        /\ \A k \in 1..(Len(rdl) - n) : rdl'[k] = rdl[n + k]
  BY WaitFacts DEF EdgeInv, OwnerInv
<1>2. /\ interest' = interest /\ poll' = poll /\ unseen' = unseen
      /\ pc = "main" /\ pc' = "loop" /\ i' = 1
  BY DEF Wait, objVars, interest
<1>3. ASSUME NEW g \in interest, NEW e \in unseen[g]
      PROVE  g \in Elements(rdl') \/ InBatch(g, e)'
  <2>1. PICK k \in 1..Len(rdl) : rdl[k] = g
    BY <1>1, <1>2 DEF EdgeInv, NoEdgeLost, Undispatched, Elements
  <2>2. e \in poll[g]
    BY DEF EdgeInv
  <2>3. CASE k <= n
    <3>1. k \in DOMAIN currCycleNotifications' /\ k >= i'
      BY <1>1, <1>2, <2>3
    <3> QED BY <1>1, <1>2, <2>1, <2>2, <2>3, <3>1 DEF InBatch, Undispatched
  <2>4. CASE k > n
    <3>1. k - n \in 1..(Len(rdl) - n) /\ rdl'[k - n] = g
      BY <1>1, <2>1, <2>4
    <3> QED BY <1>1, <3>1 DEF Elements
  <2> QED BY <1>1, <2>3, <2>4
<1> QED BY <1>2, <1>3, NoEdgeLostDef, EdgePrime DEF EdgeInv

LEMMA EdgeLoop ==
  ASSUME EdgeInv, OwnerInv', Loop
  PROVE  EdgeInv'
<1> DEFINE b == currCycleNotifications
<1>1. /\ DOMAIN b = 1..Len(b) /\ Len(b) \in Nat /\ i \in Nat \ {0}
      /\ interest \subseteq FDs /\ unseen \in [FDs -> SUBSET Events]
  BY SeqFacts DEF EdgeInv, OwnerInv, TypeInv, TypeOK, interest
<1>2. interest' = interest /\ poll' = poll /\ rdl' = rdl /\ pc = "loop"
  BY DEF Loop, objVars, kernelVars, interest
<1>3. \A g \in interest : \A e \in unseen[g] : e \in poll[g] /\ g # Null
  BY <1>1, EPollAssumption DEF EdgeInv
<1>4. ASSUME NEW g \in interest, NEW e \in unseen[g]
      PROVE  \/ g \in Elements(rdl)
             \/ \E j \in 1..Len(b) : j >= i /\ b[j].ptr = g /\ e \in b[j].events
  BY <1>1, <1>2 DEF EdgeInv, NoEdgeLost, Undispatched
<1>5. CASE i <= Len(b) /\ b[i].ptr # Null
  <2>1. /\ b' = b /\ i' = i /\ pc' = "read"
        /\ unseen' = [unseen EXCEPT ![b[i].ptr] = @ \ b[i].events]
    BY <1>1, <1>5 DEF Loop, LoopEnd
  <2>2. ASSUME NEW g \in interest, NEW e \in unseen'[g]
        PROVE  e \in unseen[g] /\ ~(g = b[i].ptr /\ e \in b[i].events)
    BY <1>1, <2>1, <2>2
  <2>3. ASSUME NEW g \in interest, NEW e \in unseen'[g]
        PROVE  g \in Elements(rdl) \/ InBatch(g, e)'
    <3>1. SUFFICES ASSUME g \notin Elements(rdl) PROVE InBatch(g, e)'
      OBVIOUS
    <3>2. PICK j \in 1..Len(b) : j >= i /\ b[j].ptr = g /\ e \in b[j].events
      BY <1>4, <2>2, <2>3, <3>1
    <3>3. j > i
      BY <1>1, <2>2, <2>3, <3>2
    <3> QED BY <1>1, <2>1, <3>2, <3>3 DEF InBatch, Undispatched
  <2> QED BY <1>2, <1>3, <2>2, <2>3, NoEdgeLostDef, EdgePrime DEF EdgeInv
<1>6. CASE i <= Len(b) /\ b[i].ptr = Null
  <2>1. b' = b /\ i' = i + 1 /\ pc' = pc /\ unseen' = unseen
    BY <1>1, <1>6 DEF Loop, LoopEnd
  <2>2. ASSUME NEW g \in interest, NEW e \in unseen[g]
        PROVE  g \in Elements(rdl) \/ InBatch(g, e)'
    <3>1. SUFFICES ASSUME g \notin Elements(rdl) PROVE InBatch(g, e)'
      OBVIOUS
    <3>2. PICK j \in 1..Len(b) : j >= i /\ b[j].ptr = g /\ e \in b[j].events
      BY <1>4, <2>2, <3>1
    <3>3. j >= i + 1
      BY <1>1, <1>3, <1>6, <2>2, <3>2
    <3> QED BY <1>1, <1>2, <2>1, <3>2, <3>3 DEF InBatch, Undispatched
  <2> QED BY <1>2, <1>3, <2>1, <2>2, NoEdgeLostDef, EdgePrime DEF EdgeInv
<1>7. CASE i > Len(b)
  <2>1. unseen' = unseen
    BY <1>1, <1>7 DEF Loop, LoopEnd
  <2>2. \A g \in interest : \A e \in unseen[g] : g \in Elements(rdl)
    BY <1>1, <1>4, <1>7
  <2> QED BY <1>2, <1>3, <2>1, <2>2, NoEdgeLostDef, EdgePrime DEF EdgeInv
<1> QED BY <1>1, <1>5, <1>6, <1>7

LEMMA EdgeSlots ==
  ASSUME EdgeInv, OwnerInv', ReadPhase \/ WritePhase \/ CallbackReturn
  PROVE  EdgeInv'
<1>1. DOMAIN currCycleNotifications \subseteq Nat /\ i \in Nat
  BY SeqFacts DEF EdgeInv, OwnerInv, TypeInv, TypeOK
<1>2. /\ interest' = interest /\ poll' = poll /\ unseen' = unseen /\ rdl' = rdl
      /\ currCycleNotifications' = currCycleNotifications
  BY DEF ReadPhase, WritePhase, CallbackReturn, objVars, kernelVars, interest
<1>3. \A j \in DOMAIN currCycleNotifications : Undispatched(j) => Undispatched(j)'
  <2>1. CASE ReadPhase
    BY <1>1, <1>2, <2>1 DEF ReadPhase, Undispatched
  <2>2. CASE WritePhase
    BY <1>1, <1>2, <2>2 DEF WritePhase, Undispatched
  <2>3. CASE CallbackReturn
    BY <1>1, <1>2, <2>3 DEF CallbackReturn, Undispatched
  <2> QED BY <2>1, <2>2, <2>3
<1> QED BY <1>2, <1>3 DEF EdgeInv, NoEdgeLost

LEMMA EdgeNext == EdgeInv /\ [Next]_vars => EdgeInv'
<1> SUFFICES ASSUME EdgeInv, [Next]_vars PROVE EdgeInv'
  OBVIOUS
<1>0. OwnerInv'
  BY OwnerNext DEF EdgeInv
<1>1. CASE User
  BY <1>0, <1>1, EdgeUser, EdgeEvent DEF User
<1>2. CASE Kernel
  BY <1>0, <1>2, EdgeEvent DEF Kernel
<1>3. CASE RunStep \/ CallbackReturn
  BY <1>0, <1>3, EdgeWait, EdgeLoop, EdgeSlots DEF RunStep
<1>4. CASE UNCHANGED vars
  BY <1>0, <1>4 DEF EdgeInv, NoEdgeLost, Undispatched, interest, vars
<1> QED BY <1>1, <1>2, <1>3, <1>4 DEF Next

\* EPoll::run loses no edge: every event epoll has announced, or will announce
\* only once, is still on its way to FD::dispatch, as long as callbacks return.
THEOREM EdgesKept == Spec => []NoEdgeLost
<1>1. EdgeInv => NoEdgeLost
  BY DEF EdgeInv
<1> QED BY <1>1, EdgeInit, EdgeNext, PTL DEF Spec
-----------------------------------------------------------------------------
(***************************************************************************)
(* EPoll implements EventDelivery, for any set of FDs, any EVENTSPERCYCLE  *)
(* and any events: the array of notifications, its index and the purge of  *)
(* EPoll::remove amount to one set of harvested events per FD.             *)
(***************************************************************************)

(***************************************************************************)
(* The mapping needs more of the batch than the safety of its pointers: an *)
(* FD is named by one entry only, and an entry that names one has events.  *)
(* Both come from the ready list, which holds an FD once, while it has     *)
(* events.                                                                 *)
(***************************************************************************)
ReadyInv == \A fd \in Elements(rdl) : poll[fd] # {}

EntryInv ==
  \A j \in DOMAIN currCycleNotifications :
    LET n == currCycleNotifications[j] IN
    n.ptr # Null =>
      /\ n.events # {}
      /\ \A k \in DOMAIN currCycleNotifications :
           currCycleNotifications[k].ptr = n.ptr => k = j

RefInv == OwnerInv /\ ReadyInv /\ EntryInv

LEMMA RefInit == Init => RefInv
BY OwnerInit DEF Init, RefInv, ReadyInv, EntryInv, Elements

LEMMA RefUser ==
  ASSUME RefInv, NEW fd \in FDs,
         Add(fd) \/ Remove(fd) \/ Close(fd) \/ Delete(fd)
  PROVE  ReadyInv' /\ EntryInv'
<1> USE EPollAssumption
<1>0. /\ rdl \in Seq(FDs) /\ Distinct(rdl) /\ Elements(rdl) \subseteq attached
      /\ poll \in [FDs -> SUBSET Events] /\ attached \subseteq FDs
      /\ ReadyInv /\ EntryInv
  BY DEF RefInv, OwnerInv, TypeInv, TypeOK
<1>1. CASE Add(fd)
  <2>1. /\ poll' = poll /\ currCycleNotifications' = currCycleNotifications
        /\ rdl' = rdl \/ (poll[fd] # {} /\ rdl' = Enqueue(rdl, fd))
    BY <1>1 DEF Add, runVars
  <2>2. \A g \in Elements(rdl') : g \in Elements(rdl) \/ (g = fd /\ poll[fd] # {})
    BY <1>0, <2>1, EnqueueFacts
  <2> QED BY <1>0, <2>1, <2>2 DEF ReadyInv, EntryInv, Elements
<1>2. CASE Remove(fd)
  <2>1. Elements(rdl') = Elements(rdl) \ {fd} /\ poll' = poll
    BY <1>0, <1>2, DequeuedFacts DEF Remove
  <2>2. ReadyInv'
    BY <1>0, <2>1 DEF ReadyInv, Elements
  <2>3. currCycleNotifications' = Purge(currCycleNotifications, fd)
    BY <1>2 DEF Remove
  <2>4. EntryInv'
    BY <1>0, <2>3, PurgeFacts DEF EntryInv
  <2> QED BY <2>2, <2>4
<1>3. CASE Close(fd)
  <2>1. /\ Elements(rdl') = Elements(rdl) \ {fd}
        /\ poll' = [poll EXCEPT ![fd] = {}]
        /\ currCycleNotifications' = currCycleNotifications
    BY <1>0, <1>3, DequeuedFacts DEF Close, runVars
  <2> QED BY <1>0, <2>1 DEF ReadyInv, EntryInv, Elements
<1>4. CASE Delete(fd)
  <2>1. /\ rdl' = rdl /\ fd \notin Elements(rdl)
        /\ poll' = [poll EXCEPT ![fd] = {}]
        /\ currCycleNotifications' = currCycleNotifications
    BY <1>0, <1>4 DEF Delete, runVars
  <2> QED BY <1>0, <2>1 DEF ReadyInv, EntryInv, Elements
<1> QED BY <1>1, <1>2, <1>3, <1>4

LEMMA RefEvent ==
  ASSUME RefInv, NEW fd \in FDs, NEW e \in Events,
         Drain(fd, e) \/ KernelEvent(fd, e)
  PROVE  ReadyInv' /\ EntryInv'
<1> USE EPollAssumption
<1>0. /\ rdl \in Seq(FDs) /\ Distinct(rdl) /\ Elements(rdl) \subseteq FDs
      /\ poll \in [FDs -> SUBSET Events]
      /\ ReadyInv /\ EntryInv
  BY DEF RefInv, OwnerInv, TypeInv, TypeOK
<1>1. CASE Drain(fd, e)
  <2>1. /\ poll' = [poll EXCEPT ![fd] = @ \ {e}]
        /\ currCycleNotifications' = currCycleNotifications
        /\ Elements(rdl') \subseteq Elements(rdl)
        /\ poll'[fd] = {} => fd \notin Elements(rdl')
    BY <1>0, <1>1, DequeuedFacts DEF Drain, runVars
  <2>2. EntryInv'
    BY <1>0, <2>1 DEF EntryInv
  <2>3. \A g \in Elements(rdl') : poll'[g] # {}
    BY <1>0, <2>1 DEF ReadyInv
  <2> QED BY <2>2, <2>3 DEF ReadyInv, Elements
<1>2. CASE KernelEvent(fd, e)
  <2>1. /\ poll' = [poll EXCEPT ![fd] = @ \cup {e}]
        /\ currCycleNotifications' = currCycleNotifications
        /\ Elements(rdl') \subseteq Elements(rdl) \cup {fd}
    BY <1>0, <1>2, EnqueueFacts DEF KernelEvent, runVars
  <2>2. EntryInv'
    BY <1>0, <2>1 DEF EntryInv
  <2>3. \A g \in Elements(rdl') : poll'[g] # {}
    BY <1>0, <2>1 DEF ReadyInv
  <2> QED BY <2>2, <2>3 DEF ReadyInv, Elements
<1> QED BY <1>1, <1>2

LEMMA RefRun ==
  ASSUME RefInv, RunStep \/ CallbackReturn
  PROVE  ReadyInv' /\ EntryInv'
<1> USE EPollAssumption
<1>1. CASE Wait
  <2>1. PICK n \in 0..Len(rdl) :
          /\ Len(rdl) \in Nat /\ DOMAIN rdl = 1..Len(rdl)
          /\ DOMAIN currCycleNotifications' = 1..n
          /\ \A k \in 1..n : /\ currCycleNotifications'[k].ptr = rdl[k]
                             /\ currCycleNotifications'[k].events = poll[rdl[k]]
          /\ DOMAIN rdl' = 1..(Len(rdl) - n)
          /\ \A k \in 1..(Len(rdl) - n) : rdl'[k] = rdl[n + k]
    BY <1>1, WaitFacts DEF RefInv, OwnerInv
  <2>2. poll' = poll /\ Distinct(rdl) /\ ReadyInv
    BY <1>1 DEF Wait, RefInv, OwnerInv, TypeInv
  <2>3. \A k \in 1..Len(rdl) : poll[rdl[k]] # {}
    BY <2>1, <2>2 DEF ReadyInv, Elements
  <2>4. ReadyInv'
    <3>1. \A k \in 1..(Len(rdl) - n) : n + k \in 1..Len(rdl)
      BY <2>1
    <3>2. \A k \in DOMAIN rdl' : poll[rdl'[k]] # {}
      BY <2>1, <2>3, <3>1
    <3> QED BY <2>2, <3>2 DEF ReadyInv, Elements
  <2>5. \A j, k \in 1..n : rdl[k] = rdl[j] => k = j
    BY <2>1, <2>2 DEF Distinct
  <2>6. EntryInv'
    BY <2>1, <2>3, <2>5 DEF EntryInv
  <2> QED BY <2>4, <2>6
<1>2. CASE Loop
  <2>1. poll' = poll /\ rdl' = rdl /\ ReadyInv /\ EntryInv
    BY <1>2 DEF Loop, kernelVars, RefInv
  <2>2. currCycleNotifications' \in {currCycleNotifications, <<>>}
    BY <1>2 DEF Loop
  <2> QED BY <2>1, <2>2 DEF ReadyInv, EntryInv, Elements
<1>3. CASE ReadPhase \/ WritePhase \/ CallbackReturn
  <2>1. UNCHANGED <<poll, rdl, currCycleNotifications>> /\ ReadyInv /\ EntryInv
    BY <1>3 DEF ReadPhase, WritePhase, CallbackReturn, kernelVars, RefInv
  <2> QED BY <2>1 DEF ReadyInv, EntryInv, Elements
<1> QED BY <1>1, <1>2, <1>3 DEF RunStep

LEMMA RefNext == RefInv /\ [Next]_vars => RefInv'
<1> SUFFICES ASSUME RefInv, [Next]_vars PROVE RefInv'
  OBVIOUS
<1>0. OwnerInv'
  BY OwnerNext DEF RefInv
<1>1. CASE User
  BY <1>0, <1>1, RefUser, RefEvent DEF User, RefInv
<1>2. CASE Kernel
  BY <1>0, <1>2, RefEvent DEF Kernel, RefInv
<1>3. CASE RunStep \/ CallbackReturn
  BY <1>0, <1>3, RefRun DEF RefInv
<1>4. CASE UNCHANGED vars
  <2>1. UNCHANGED <<poll, rdl, currCycleNotifications>>
    BY <1>4 DEF vars
  <2> QED BY <1>0, <2>1 DEF RefInv, ReadyInv, EntryInv, Elements
<1> QED BY <1>1, <1>2, <1>3, <1>4 DEF Next

-----------------------------------------------------------------------------
(***************************************************************************)
(* The refinement mapping, with names for the mapped variables.            *)
(***************************************************************************)
Harvested == [fd \in FDs |-> Batched(fd)]
Target == IF Dispatching THEN inst ELSE Null
Seen == IF Dispatching THEN CurrentEvents ELSE {}

\* The harvested events of an FD are those InBatch names.
LEMMA HarvestedFacts ==
  /\ Harvested = [fd \in FDs |-> Harvested[fd]]
  /\ \A fd \in FDs : \A e : e \in Harvested[fd] <=> InBatch(fd, e)
BY DEF Harvested, Batched, InBatch

LEMMA HarvestedFactsNext ==
  /\ Harvested' = [fd \in FDs |-> Harvested'[fd]]
  /\ \A fd \in FDs : \A e : e \in Harvested'[fd] <=> InBatch(fd, e)'
BY DEF Harvested, Batched, InBatch

\* A step that changes neither the batch nor the place of run() in it keeps
\* what is harvested, and what the running dispatch() sees.
LEMMA SameBatch ==
  ASSUME UNCHANGED runVars
  PROVE  Harvested' = Harvested /\ Target' = Target /\ Seen' = Seen
BY DEF runVars, Harvested, Batched, Undispatched, Target, Seen, Dispatching, CurrentEvents

\* The user's calls: add, remove, close and delete.
LEMMA UserImplements ==
  ASSUME RefInv, NEW fd \in FDs,
         Add(fd) \/ Remove(fd) \/ Close(fd) \/ Delete(fd)
  PROVE  Delivery!DeliveryNext
<1> USE EPollAssumption
<1>0. /\ rdl \in Seq(FDs) /\ Distinct(rdl) /\ Elements(rdl) \subseteq attached
      /\ poll \in [FDs -> SUBSET Events] /\ attached \subseteq FDs
      /\ BatchInv /\ DispatchInv
  BY DEF RefInv, OwnerInv, TypeInv, TypeOK
<1>1. CASE Add(fd)
  <2>1. Harvested' = Harvested /\ Target' = Target /\ Seen' = Seen
    BY <1>1, SameBatch DEF Add
  <2>2. Elements(rdl') = IF poll[fd] = {} THEN Elements(rdl) ELSE Elements(rdl) \cup {fd}
    <3>1. Elements(Enqueue(rdl, fd)) = Elements(rdl) \cup {fd}
      BY <1>0, EnqueueFacts
    <3>2. rdl' = IF poll[fd] # {} THEN Enqueue(rdl, fd) ELSE rdl
      BY <1>1 DEF Add
    <3> QED BY <3>1, <3>2
  <2>3. Delivery!Attach(fd)
    BY <1>1, <2>1, <2>2 DEF Delivery!Attach, Add, interest, Harvested, Target, Seen, Elements
  <2> QED BY <2>3 DEF Delivery!DeliveryNext
<1>2. CASE Remove(fd)
  <2>1. Elements(rdl') = Elements(rdl) \ {fd}
    BY <1>0, <1>2, DequeuedFacts DEF Remove
  <2>2. /\ currCycleNotifications' = Purge(currCycleNotifications, fd)
        /\ UNCHANGED <<open, poll, i, inst, pc>> /\ attached' = attached \ {fd}
    BY <1>2 DEF Remove
  <2>3. \A g \in FDs : \A e : InBatch(g, e)' <=> g # fd /\ InBatch(g, e)
    BY <1>0, <2>2, PurgeFacts DEF InBatch, Undispatched, BatchInv
  <2>4. Harvested' = [Harvested EXCEPT ![fd] = {}]
    BY <2>3, HarvestedFacts, HarvestedFactsNext
  <2>5. Target' = Target
    BY <2>2 DEF Target, Dispatching
  <2>6. Seen' = IF Target = fd THEN {} ELSE Seen
    <3>1. CASE ~Dispatching
      BY <2>2, <3>1 DEF Seen, Target, Dispatching
    <3>2. CASE Dispatching
      <4> DEFINE n == currCycleNotifications[i]
      <4>1. /\ i \in DOMAIN currCycleNotifications /\ inst \in FDs
            /\ n.ptr \in {inst, Null} /\ (n.ptr = Null => n.events = {})
        BY <1>0, <3>2 DEF BatchInv, DispatchInv
      <4>2. IF n.ptr = fd THEN CurrentEvents' = {} ELSE CurrentEvents' = n.events
        BY <2>2, <4>1, PurgeFacts DEF CurrentEvents
      <4>3. Seen' = CurrentEvents' /\ Seen = n.events /\ Target = inst
        BY <2>2, <3>2 DEF Seen, Target, Dispatching, CurrentEvents
      <4> HIDE DEF n
      <4> QED BY <4>1, <4>2, <4>3
    <3> QED BY <3>1, <3>2
  <2>7. Delivery!Detach(fd)
    BY <2>1, <2>2, <2>4, <2>5, <2>6
       DEF Delivery!Detach, interest, Harvested, Target, Seen, Elements
  <2> QED BY <2>7 DEF Delivery!DeliveryNext
<1>3. CASE Close(fd) \/ Delete(fd)
  <2>1. Harvested' = Harvested /\ Target' = Target /\ Seen' = Seen
    BY <1>3, SameBatch DEF Close, Delete
  <2>2. Elements(rdl') = Elements(rdl) \ {fd}
    BY <1>0, <1>3, DequeuedFacts DEF Close, Delete
  <2>3. /\ open' = open \ {fd} /\ attached' = attached
        /\ poll' = [poll EXCEPT ![fd] = {}]
    BY <1>3 DEF Close, Delete
  <2>4. Delivery!Shut(fd)
    BY <2>1, <2>2, <2>3 DEF Delivery!Shut, interest, Harvested, Target, Seen, Elements
  <2> QED BY <2>4 DEF Delivery!DeliveryNext
<1> QED BY <1>1, <1>2, <1>3

\* What changes the mask of an FD: the user's I/O and the kernel.
LEMMA EventImplements ==
  ASSUME RefInv, NEW fd \in FDs, NEW e \in Events,
         Drain(fd, e) \/ KernelEvent(fd, e)
  PROVE  Delivery!DeliveryNext
<1> USE EPollAssumption
<1>0. /\ rdl \in Seq(FDs) /\ Distinct(rdl)
      /\ poll \in [FDs -> SUBSET Events]
  BY DEF RefInv, OwnerInv, TypeInv, TypeOK
<1>1. Harvested' = Harvested /\ Target' = Target /\ Seen' = Seen
  BY SameBatch DEF Drain, KernelEvent
<1>2. CASE Drain(fd, e)
  <2> DEFINE E == poll[fd] \ {e}
  <2>1. /\ fd \in open /\ UNCHANGED <<open, attached>>
        /\ poll' = [poll EXCEPT ![fd] = E]
        /\ E \in SUBSET Events
        /\ Elements(rdl') = IF E = {} THEN Elements(rdl) \ {fd} ELSE Elements(rdl)
    BY <1>0, <1>2, DequeuedFacts DEF Drain, objVars
  <2>2. Delivery!Poll(fd, E, FALSE)
    BY <1>1, <2>1 DEF Delivery!Poll, interest, Harvested, Target, Seen, Elements
  <2> QED BY <2>1, <2>2 DEF Delivery!DeliveryNext
<1>3. CASE KernelEvent(fd, e)
  <2> DEFINE E == poll[fd] \cup {e}
  <2>1. /\ fd \in open /\ UNCHANGED <<open, attached>>
        /\ poll' = [poll EXCEPT ![fd] = E]
        /\ E \in SUBSET Events /\ E # {}
    BY <1>0, <1>3 DEF KernelEvent, objVars
  <2>3. Elements(rdl') = IF fd \in interest THEN Elements(rdl) \cup {fd}
                                             ELSE Elements(rdl)
    <3>1. Elements(Enqueue(rdl, fd)) = Elements(rdl) \cup {fd}
      BY <1>0, EnqueueFacts
    <3>2. rdl' = IF fd \in interest THEN Enqueue(rdl, fd) ELSE rdl
      BY <1>3 DEF KernelEvent
    <3> QED BY <3>1, <3>2
  <2>4. Delivery!Poll(fd, E, TRUE)
    BY <1>1, <2>1, <2>3 DEF Delivery!Poll, interest, Harvested, Target, Seen, Elements
  <2> QED BY <2>1, <2>4 DEF Delivery!DeliveryNext
<1> QED BY <1>2, <1>3

\* epoll_wait: a harvest of the head of the ready list, or nothing.
LEMMA WaitImplements ==
  ASSUME RefInv, Wait
  PROVE  [Delivery!DeliveryNext]_(Delivery!deliveryVars)
<1> USE EPollAssumption
<1>0. PICK n \in 0..Len(rdl) :
        /\ Len(rdl) \in Nat /\ DOMAIN rdl = 1..Len(rdl)
        /\ DOMAIN currCycleNotifications' = 1..n
        /\ \A k \in 1..n : /\ currCycleNotifications'[k].ptr = rdl[k]
                           /\ currCycleNotifications'[k].events = poll[rdl[k]]
        /\ DOMAIN rdl' = 1..(Len(rdl) - n)
        /\ \A k \in 1..(Len(rdl) - n) : rdl'[k] = rdl[n + k]
  BY WaitFacts DEF RefInv, OwnerInv
<1>1. /\ Distinct(rdl) /\ ReadyInv /\ rdl \in Seq(FDs)
      /\ poll \in [FDs -> SUBSET Events]
  BY DEF RefInv, OwnerInv, TypeInv, TypeOK
<1>2. /\ pc = "main" /\ pc' = "loop" /\ i' = 1
      /\ UNCHANGED <<open, attached, poll, inst>>
  BY DEF Wait, objVars
<1> DEFINE S == {rdl[k] : k \in 1..n}
<1>3. Elements(rdl) \subseteq FDs /\ S \subseteq Elements(rdl)
  <2>1. Elements(rdl) \subseteq FDs
    BY <1>1, SeqFacts
  <2>2. S \subseteq Elements(rdl)
    BY <1>0 DEF Elements
  <2> QED BY <2>1, <2>2
<1>4. Elements(rdl') = Elements(rdl) \ S
  <2>1. ASSUME NEW x \in Elements(rdl') PROVE x \in Elements(rdl) \ S
    <3>1. PICK k \in 1..(Len(rdl) - n) : x = rdl[n + k]
      <4>1. PICK k \in DOMAIN rdl' : x = rdl'[k]
        BY <2>1 DEF Elements
      <4> QED BY <1>0, <4>1
    <3>2. n + k \in 1..Len(rdl) /\ n + k \notin 1..n
      <4>1. Len(rdl) \in Nat
        BY <1>0
      <4> QED BY <4>1
    <3>3. x \in Elements(rdl)
      BY <1>0, <3>1, <3>2 DEF Elements
    <3>4. \A j \in 1..n : rdl[j] # rdl[n + k]
      <4>1. 1..n \subseteq DOMAIN rdl /\ n + k \in DOMAIN rdl
        BY <1>0, <3>2
      <4> QED BY <1>1, <3>2, <4>1 DEF Distinct
    <3> QED BY <3>1, <3>3, <3>4
  <2>2. ASSUME NEW x \in Elements(rdl) \ S PROVE x \in Elements(rdl')
    <3>1. PICK k \in 1..Len(rdl) : x = rdl[k]
      BY <1>0 DEF Elements
    <3>2. k > n /\ k - n \in 1..(Len(rdl) - n) /\ rdl'[k - n] = rdl[k]
      BY <1>0, <3>1
    <3> QED BY <1>0, <3>1, <3>2 DEF Elements
  <2> QED BY <2>1, <2>2
<1>5. \A g \in FDs : Harvested[g] = {}
  BY <1>2, HarvestedFacts DEF InBatch, Undispatched
<1>6. \A g \in FDs : \A e : InBatch(g, e)' <=> g \in S /\ e \in poll[g]
  <2>1. \A j \in 1..n : Undispatched(j)'
    BY <1>0, <1>2 DEF Undispatched
  <2>2. \A g, e : InBatch(g, e)' <=> \E j \in 1..n : rdl[j] = g /\ e \in poll[rdl[j]]
    <3>1. /\ DOMAIN currCycleNotifications' = 1..n
          /\ \A k \in 1..n : /\ currCycleNotifications'[k].ptr = rdl[k]
                             /\ currCycleNotifications'[k].events = poll[rdl[k]]
      BY <1>0
    <3> QED BY <2>1, <3>1 DEF InBatch
  <2> QED BY <2>2
<1>7. Harvested' = [g \in FDs |-> IF g \in S THEN poll[g] ELSE {}]
  BY <1>6, HarvestedFactsNext
<1>8. /\ Target = Null /\ Seen = {} /\ Target' = Null /\ Seen' = {}
  BY <1>2 DEF Target, Seen, Dispatching
<1>9. CASE S # {}
  <2>1. Delivery!Harvest(S)
    BY <1>2, <1>3, <1>4, <1>5, <1>7, <1>8, <1>9
       DEF Delivery!Harvest, interest, Harvested, Target, Seen, Elements
  <2> QED BY <1>3, <2>1 DEF Delivery!DeliveryNext
<1>10. CASE S = {}
  <2>1. Harvested' = Harvested
    BY <1>5, <1>7, <1>10, HarvestedFacts
  <2>2. Elements(rdl') = Elements(rdl)
    BY <1>4, <1>10
  <2> QED BY <1>2, <1>8, <2>1, <2>2
           DEF Delivery!deliveryVars, interest, Harvested, Target, Seen, Elements
<1> QED BY <1>9, <1>10

\* The for loop: a delivery, or a step over a purged entry or out of run().
LEMMA LoopImplements ==
  ASSUME RefInv, Loop
  PROVE  [Delivery!DeliveryNext]_(Delivery!deliveryVars)
<1> USE EPollAssumption
<1>0. /\ BatchInv /\ EntryInv /\ i \in Nat \ {0}
      /\ Len(currCycleNotifications) \in Nat
      /\ DOMAIN currCycleNotifications = 1..Len(currCycleNotifications)
      /\ \A k \in DOMAIN currCycleNotifications :
           currCycleNotifications[k].ptr \in FDs \cup {Null}
  <2>1. BatchInv /\ EntryInv /\ i \in Nat \ {0} /\ attached \subseteq FDs
    BY DEF RefInv, OwnerInv, TypeInv, TypeOK
  <2>2. currCycleNotifications \in Seq(Notification)
    BY DEF RefInv, OwnerInv, TypeInv, TypeOK
  <2>3. /\ Len(currCycleNotifications) \in Nat
        /\ DOMAIN currCycleNotifications = 1..Len(currCycleNotifications)
    BY <2>2, SeqFacts
  <2> QED BY <2>1, <2>3 DEF BatchInv
<1>1. /\ pc = "loop" /\ UNCHANGED <<open, attached, poll, rdl>>
      /\ Target = Null /\ Seen = {}
  BY DEF Loop, objVars, kernelVars, Target, Seen, Dispatching
<1>2. CASE /\ i <= LoopEnd
           /\ currCycleNotifications[i].ptr # Null
           /\ inst' = currCycleNotifications[i].ptr
           /\ pc' = "read"
           /\ UNCHANGED <<currCycleNotifications, i>>
  <2> DEFINE fd == currCycleNotifications[i].ptr
             E == currCycleNotifications[i].events
  <2>1. /\ i \in DOMAIN currCycleNotifications /\ fd \in FDs /\ E # {}
        /\ \A k \in DOMAIN currCycleNotifications :
             currCycleNotifications[k].ptr = fd => k = i
    BY <1>0, <1>2 DEF LoopEnd, EntryInv
  <2>2. Target' = fd /\ Seen' = E
    BY <1>2 DEF Target, Seen, Dispatching, CurrentEvents
  <2>3. \A e : InBatch(fd, e) <=> e \in E
    BY <1>0, <1>1, <2>1 DEF InBatch, Undispatched
  <2>4. \A g \in FDs : \A e : InBatch(g, e)' <=> g # fd /\ InBatch(g, e)
    BY <1>0, <1>1, <1>2, <2>1 DEF InBatch, Undispatched
  <2>5. Harvested' = [Harvested EXCEPT ![fd] = {}] /\ Harvested[fd] = E
    BY <2>1, <2>3, <2>4, HarvestedFacts, HarvestedFactsNext
  <2> HIDE DEF fd, E
  <2>6. Delivery!Deliver(fd)
    BY <1>1, <2>1, <2>2, <2>5
       DEF Delivery!Deliver, interest, Harvested, Target, Seen, Elements
  <2> QED BY <2>1, <2>6 DEF Delivery!DeliveryNext
<1>3. CASE /\ i <= LoopEnd
           /\ currCycleNotifications[i].ptr = Null
           /\ i' = i + 1
           /\ UNCHANGED <<currCycleNotifications, inst, pc>>
  <2>1. \A g \in FDs : \A e : InBatch(g, e)' <=> InBatch(g, e)
    BY <1>0, <1>1, <1>3 DEF InBatch, Undispatched, LoopEnd
  <2>2. Harvested' = Harvested
    BY <2>1, HarvestedFacts, HarvestedFactsNext
  <2>3. Target' = Target /\ Seen' = Seen
    BY <1>1, <1>3 DEF Target, Seen, Dispatching
  <2> QED BY <1>1, <2>2, <2>3
           DEF Delivery!deliveryVars, interest, Harvested, Target, Seen, Elements
<1>4. CASE /\ i > LoopEnd
           /\ currCycleNotifications' = <<>>
           /\ pc' = "main"
  <2>1. \A g \in FDs : \A e : InBatch(g, e)' <=> InBatch(g, e)
    BY <1>0, <1>1, <1>4 DEF InBatch, Undispatched, LoopEnd
  <2>2. Harvested' = Harvested
    BY <2>1, HarvestedFacts, HarvestedFactsNext
  <2>3. Target' = Target /\ Seen' = Seen
    BY <1>1, <1>4 DEF Target, Seen, Dispatching
  <2> QED BY <1>1, <2>2, <2>3
           DEF Delivery!deliveryVars, interest, Harvested, Target, Seen, Elements
<1> QED BY <1>2, <1>3, <1>4 DEF Loop

\* dispatch(): its end is the end of the delivery.
LEMMA SlotImplements ==
  ASSUME RefInv, ReadPhase \/ WritePhase \/ CallbackReturn
  PROVE  [Delivery!DeliveryNext]_(Delivery!deliveryVars)
<1> USE EPollAssumption
<1>0. /\ i \in Nat \ {0} /\ DispatchInv
      /\ Len(currCycleNotifications) \in Nat
      /\ DOMAIN currCycleNotifications = 1..Len(currCycleNotifications)
  BY SeqFacts DEF RefInv, OwnerInv, TypeInv, TypeOK
<1>1. /\ UNCHANGED <<open, attached, poll, rdl, currCycleNotifications, inst>>
      /\ pc \in {"read", "cbread", "write", "cbwrite"}
      /\ \/ i' = i /\ pc' \in {"read", "cbread", "write", "cbwrite"}
         \/ i' = i + 1 /\ pc' = "loop"
  BY DEF ReadPhase, WritePhase, CallbackReturn, objVars, kernelVars
<1>2. \A g \in FDs : \A e : InBatch(g, e)' <=> InBatch(g, e)
  BY <1>0, <1>1 DEF InBatch, Undispatched
<1>3. Harvested' = Harvested
  BY <1>2, HarvestedFacts, HarvestedFactsNext
<1>4. CASE i' = i /\ pc' \in {"read", "cbread", "write", "cbwrite"}
  <2>1. Target' = Target /\ Seen' = Seen
    BY <1>1, <1>4 DEF Target, Seen, Dispatching, CurrentEvents
  <2> QED BY <1>1, <1>3, <2>1
           DEF Delivery!deliveryVars, interest, Harvested, Target, Seen, Elements
<1>5. CASE i' = i + 1 /\ pc' = "loop"
  <2>1. Target # Null /\ Target' = Null /\ Seen' = {}
    BY <1>0, <1>1, <1>5 DEF Target, Seen, Dispatching, DispatchInv
  <2>2. Delivery!Finish
    BY <1>1, <1>3, <2>1
       DEF Delivery!Finish, interest, Harvested, Target, Seen, Elements
  <2> QED BY <2>2 DEF Delivery!DeliveryNext
<1> QED BY <1>1, <1>4, <1>5

LEMMA InitImplements ==
  Init => /\ Delivery!DeliveryInit
          /\ open \subseteq FDs /\ poll \in [FDs -> SUBSET Events]
<1> SUFFICES ASSUME Init PROVE Delivery!DeliveryInit
  BY DEF Init
<1>1. \A g \in FDs : \A e : ~InBatch(g, e)
  BY DEF Init, InBatch
<1>2. Harvested = [g \in FDs |-> {}]
  BY <1>1, HarvestedFacts
<1> QED BY <1>2 DEF Init, Delivery!DeliveryInit, interest, Harvested, Dispatching, Elements

LEMMA NextImplements ==
  RefInv /\ [Next]_vars => [Delivery!DeliveryNext]_(Delivery!deliveryVars)
<1> SUFFICES ASSUME RefInv, [Next]_vars
             PROVE  [Delivery!DeliveryNext]_(Delivery!deliveryVars)
  OBVIOUS
<1>1. CASE User
  BY <1>1, UserImplements, EventImplements DEF User
<1>2. CASE Kernel
  BY <1>2, EventImplements DEF Kernel
<1>3. CASE RunStep \/ CallbackReturn
  BY <1>3, WaitImplements, LoopImplements, SlotImplements DEF RunStep
<1>4. CASE UNCHANGED vars
  <2>1. Harvested' = Harvested /\ Target' = Target /\ Seen' = Seen
    BY <1>4, SameBatch DEF vars, runVars
  <2>2. UNCHANGED <<open, attached, poll, rdl>>
    BY <1>4 DEF vars
  <2> QED BY <2>1, <2>2
           DEF Delivery!deliveryVars, interest, Harvested, Target, Seen, Elements
<1> QED BY <1>1, <1>2, <1>3, <1>4 DEF Next

(***************************************************************************)
(* The loop over the batch array delivers each harvested event word once,  *)
(* to one dispatch(), and none that remove() cancelled, whatever callbacks *)
(* do to the FDs of the batch meanwhile: EPoll implements EventDelivery.   *)
(***************************************************************************)
THEOREM Implements == Spec => ImplementsDelivery
BY RefInit, RefNext, InitImplements, NextImplements, PTL
   DEF Spec, ImplementsDelivery, Delivery!DeliverySpec
=============================================================================
