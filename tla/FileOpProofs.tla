---------------------------- MODULE FileOpProofs ----------------------------
(***************************************************************************)
(* Proofs about FileOp, for both slots, every kind of stream, any set of   *)
(* operations and habits, and any bounds.                                  *)
(***************************************************************************)
EXTENDS FileOp, SequenceTheorems, TLAPS

(***************************************************************************)
(* Facts about stacks.                                                     *)
(***************************************************************************)

\* All but the last element of a sequence.
LEMMA FrontFacts ==
  ASSUME NEW S, NEW s \in Seq(S), s # <<>>
  PROVE  /\ Len(s) \in Nat \ {0}
         /\ s[Len(s)] \in S
         /\ SubSeq(s, 1, Len(s) - 1) \in Seq(S)
         /\ Len(SubSeq(s, 1, Len(s) - 1)) = Len(s) - 1
         /\ \A k \in 1..(Len(s) - 1) : SubSeq(s, 1, Len(s) - 1)[k] = s[k]
<1>1. Len(s) \in Nat \ {0} /\ \A k \in 1..Len(s) : s[k] \in S
  BY EmptySeq, LenProperties
<1>2. 1 \in Int /\ Len(s) - 1 \in Int /\ \A k \in 1..(Len(s) - 1) : s[k] \in S
  BY <1>1
<1>3. /\ SubSeq(s, 1, Len(s) - 1) \in Seq(S)
      /\ Len(SubSeq(s, 1, Len(s) - 1)) =
           IF 1 <= Len(s) - 1 THEN Len(s) - 1 - 1 + 1 ELSE 0
      /\ \A j \in 1 .. Len(s) - 1 - 1 + 1 : SubSeq(s, 1, Len(s) - 1)[j] = s[1 + j - 1]
  BY <1>2, SubSeqProperties
<1>4. Len(SubSeq(s, 1, Len(s) - 1)) = Len(s) - 1
  <2> DEFINE t == SubSeq(s, 1, Len(s) - 1)
             n == Len(s) - 1
  <2>1. n \in Nat /\ Len(t) = IF 1 <= n THEN n - 1 + 1 ELSE 0
    BY <1>1, <1>3
  <2> HIDE DEF t, n
  <2>2. Len(t) = n
    BY <2>1
  <2> QED BY <2>2 DEF t, n
<1>5. \A k \in 1..(Len(s) - 1) : SubSeq(s, 1, Len(s) - 1)[k] = s[k]
  BY <1>1, <1>3
<1> QED BY <1>1, <1>3, <1>4, <1>5

\* The last element of a nonempty stack, and what is below it.
LEMMA PoppedFacts ==
  ASSUME stack \in Seq(Frames), stack # <<>>
  PROVE  /\ Len(stack) \in Nat \ {0} /\ DOMAIN stack = 1..Len(stack)
         /\ Top \in Frames
         /\ Popped \in Seq(Frames)
         /\ Len(Popped) = Len(stack) - 1 /\ DOMAIN Popped = 1..(Len(stack) - 1)
         /\ \A k \in 1..(Len(stack) - 1) : Popped[k] = stack[k]
<1>1. DOMAIN stack = 1..Len(stack)
  BY LenProperties
<1>2. DOMAIN Popped = 1..Len(Popped) /\ Popped \in Seq(Frames)
  BY FrontFacts, LenProperties DEF Popped
<1> QED BY <1>1, <1>2, FrontFacts DEF Popped, Top

\* A frame pushed on a stack.
LEMMA PushFacts ==
  ASSUME NEW S, NEW s \in Seq(S), NEW f \in S
  PROVE  /\ Append(s, f) \in Seq(S)
         /\ DOMAIN s = 1..Len(s) /\ Len(s) \in Nat
         /\ DOMAIN Append(s, f) = 1..(Len(s) + 1)
         /\ Len(Append(s, f)) = Len(s) + 1
         /\ Append(s, f)[Len(s) + 1] = f
         /\ \A k \in 1..Len(s) : Append(s, f)[k] = s[k]
OBVIOUS

\* The top frame replaced by f.
LEMMA ReplacedFacts ==
  ASSUME stack \in Seq(Frames), stack # <<>>, NEW f \in Frames
  PROVE  /\ Len(stack) \in Nat \ {0} /\ DOMAIN stack = 1..Len(stack)
         /\ Replaced(f) \in Seq(Frames)
         /\ Len(Replaced(f)) = Len(stack) /\ DOMAIN Replaced(f) = 1..Len(stack)
         /\ Replaced(f)[Len(stack)] = f
         /\ \A k \in 1..(Len(stack) - 1) : Replaced(f)[k] = stack[k]
<1>1. /\ Len(stack) \in Nat \ {0} /\ DOMAIN stack = 1..Len(stack)
      /\ Popped \in Seq(Frames) /\ Len(Popped) = Len(stack) - 1
      /\ \A k \in 1..(Len(stack) - 1) : Popped[k] = stack[k]
  BY PoppedFacts
<1>2. /\ Replaced(f) \in Seq(Frames)
      /\ DOMAIN Replaced(f) = 1..(Len(Popped) + 1)
      /\ Len(Replaced(f)) = Len(Popped) + 1
      /\ Replaced(f)[Len(Popped) + 1] = f
      /\ \A k \in 1..Len(Popped) : Replaced(f)[k] = Popped[k]
  <2> DEFINE p == Popped
  <2> HIDE DEF p
  <2>1. p \in Seq(Frames)
    BY <1>1 DEF p
  <2>2. /\ Append(p, f) \in Seq(Frames)
        /\ DOMAIN Append(p, f) = 1..(Len(p) + 1)
        /\ Len(Append(p, f)) = Len(p) + 1
        /\ Append(p, f)[Len(p) + 1] = f
        /\ \A k \in 1..Len(p) : Append(p, f)[k] = p[k]
    BY <2>1
  <2> QED BY <2>2 DEF p, Replaced
<1>3. Len(Popped) + 1 = Len(stack)
  BY <1>1
<1> QED BY <1>1, <1>2, <1>3

-----------------------------------------------------------------------------
(***************************************************************************)
(* The inductive invariant.                                                *)
(***************************************************************************)

\* If the stream is ready, epoll or an undispatched notification says so.
\* Nothing is claimed of a user who sends files past their end: the short
\* transfer of a file's tail leaves a writable stream behind.
Announced == "tail" \notin Habits /\ avail > 0 => edge \/ "RDY" \in notif

\* A frame of doOperation that will make another system call, and one that
\* will not, because a repeated transfer was short.
Serves(f) == f.k \in {"do", "rest"} \/ (f.k = "repeat" /\ ~f.short)
Drained(f) == f.k = "repeat" /\ f.short

Serving == \E n \in DOMAIN stack : Serves(stack[n])
Draining == \E n \in DOMAIN stack : Drained(stack[n])
HupEnding == \E n \in DOMAIN stack : stack[n].k = "hupEnd"

\* Whoever relies on the stream being drained (skipSynchronousAttempt, a
\* repeated operation after a short transfer, an operation in the slot) is
\* right, or the edge that proves it wrong is on its way, or a call in
\* progress will still look.
WakeInv ==
  registered =>
    /\ skip \/ Draining => Announced
    /\ Waiting => Announced \/ Serving

\* An operation in the slot asks for at least one more byte.
LenInv ==
  /\ op.operation \in Plain => op.len > 0
  /\ op.operation \in All => op.lenDone < op.len

\* The slot's callback is set whenever it may be called.
IdInv == op.operation # "none" \/ HupEnding => op.id \in Ids

Inv == TypeOK /\ LenInv /\ IdInv /\ WakeInv

-----------------------------------------------------------------------------
(***************************************************************************)
(* What the helpers of FileOp do.                                          *)
(***************************************************************************)

\* A system call transfers what there is, up to n bytes; it would block only
\* if there is nothing; a short transfer leaves nothing behind.
LEMMA SysFacts ==
  ASSUME TypeOK, NEW n \in Nat \ {0}
  PROVE  /\ Sys(n) \in Int
         /\ Sys(n) > 0 => Sys(n) <= avail
         /\ Sys(n) = EAGAIN => avail = 0
         /\ Sys(n) > 0 /\ Sys(n) < n => Sys(n) = avail
<1>1. avail \in Nat
  BY DEF TypeOK
<1>2. CASE closed \/ (IsWrite /\ down)
  <2>1. Sys(n) = -1
    BY <1>2, FileOpAssumption DEF Sys, TypeOK
  <2> QED BY <2>1 DEF EAGAIN
<1>3. CASE ~closed /\ ~(IsWrite /\ down) /\ avail > 0
  <2>1. Sys(n) = IF n < avail THEN n ELSE avail
    BY <1>3, FileOpAssumption DEF Sys, TypeOK
  <2> QED BY <1>1, <1>3, <2>1 DEF EAGAIN
<1>4. CASE ~closed /\ ~(IsWrite /\ down) /\ avail = 0
  <2>1. Sys(n) = 0 \/ Sys(n) = EAGAIN
    BY <1>4, FileOpAssumption DEF Sys, TypeOK
  <2> QED BY <1>4, <2>1 DEF EAGAIN
<1> QED BY <1>1, <1>2, <1>3, <1>4

\* The stream after that call.
LEMMA TransferFacts ==
  ASSUME TypeOK, NEW n \in Nat \ {0}, Transfer(Sys(n))
  PROVE  /\ avail' \in Nat /\ moved' \in Nat /\ down' = down
         /\ avail' <= avail
         /\ Sys(n) = EAGAIN => avail' = 0
         /\ Sys(n) > 0 /\ Sys(n) < n => avail' = 0
<1>1. avail \in Nat /\ moved \in Nat
  BY DEF TypeOK
<1> QED BY <1>1, SysFacts DEF Transfer, EAGAIN

\* The results of that call for operation o, sendfile's at the end of a file
\* included, and the stream after it.
LEMMA ResultFacts ==
  ASSUME TypeOK, NEW o, NEW n \in Nat \ {0}, NEW r \in Results(o, n)
  PROVE  /\ r \in Int
         /\ r > 0 => r <= avail
         /\ r = EAGAIN => avail = 0
         /\ r > 0 /\ r < n => r = avail \/ "tail" \in Habits
         /\ Transfer(r) =>
              /\ avail' \in Nat /\ moved' \in Nat /\ down' = down
              /\ avail' <= avail
              /\ r = EAGAIN => avail' = 0
              /\ r > 0 /\ r < n => avail' = 0 \/ "tail" \in Habits
<1>1. avail \in Nat /\ moved \in Nat
  BY DEF TypeOK
<1>2. /\ Sys(n) \in Int /\ (Sys(n) > 0 => Sys(n) <= avail)
      /\ (Sys(n) = EAGAIN => avail = 0)
      /\ (Sys(n) > 0 /\ Sys(n) < n => Sys(n) = avail)
  BY SysFacts
<1>3. r = Sys(n) \/ ("tail" \in Habits /\ r \in {0} \cup 1..(Sys(n) - 1))
  BY DEF Results
<1>4. /\ r \in Int /\ (r > 0 => r <= avail) /\ (r = EAGAIN => avail = 0)
      /\ r > 0 /\ r < n => r = avail \/ "tail" \in Habits
  BY <1>1, <1>2, <1>3 DEF EAGAIN
<1> QED BY <1>1, <1>4 DEF Transfer, EAGAIN

\* The history after a callback.
LEMMA CalledFacts ==
  ASSUME TypeOK, NEW id, NEW r \in Int, Called(id, r)
  PROVE  /\ reported' \in Nat
         /\ forfeited' = forfeited
         /\ hist' \in Seq(OpHistory) /\ Len(hist') = Len(hist)
<1>1. reported \in Nat
  BY DEF TypeOK
<1>2. /\ hist \in Seq(OpHistory) /\ DOMAIN hist = 1..Len(hist) /\ Len(hist) \in Nat
      /\ \A j \in 1..Len(hist) : hist[j] \in OpHistory
  BY LenProperties DEF TypeOK
<1>3. hist' \in [1..Len(hist) -> OpHistory]
  <2>1. ASSUME NEW h \in OpHistory PROVE CallRecorded(h, r) \in OpHistory
    <3>1. (IF h.repeat /\ r > 0 THEN h.finals ELSE h.finals + 1) \in Nat
      BY DEF OpHistory
    <3>2. (h.late \/ h.cancelled) \in BOOLEAN
      OBVIOUS
    <3> QED BY <3>1, <3>2 DEF CallRecorded, OpHistory
  <2>2. hist' = [hist EXCEPT ![id] = CallRecorded(hist[id], r)]
    BY DEF Called
  <2> QED BY <1>2, <2>1, <2>2
<1>4. hist' \in Seq(OpHistory) /\ Len(hist') = Len(hist)
  BY <1>2, <1>3
<1> QED BY <1>1, <1>4 DEF Called

\* What is known of a frame from its kind.
LEMMA FrameFacts ==
  ASSUME NEW f \in Frames
  PROVE  /\ f.k = "try" => /\ f.o \in Plain /\ f.len \in Nat \ {0}
                           /\ f.repeat \in BOOLEAN /\ f.id \in Ids
         /\ f.k = "tryAll" => /\ f.o \in BufAll /\ f.len \in Lens /\ f.len \in Nat \ {0}
                              /\ f.br \in Nat /\ f.id \in Ids
         /\ f.k \in {"do", "rest"} => f.hup \in BOOLEAN
         /\ f.k = "repeat" => /\ f.o \in Plain /\ f.short \in BOOLEAN
                              /\ f.hup \in BOOLEAN
BY FileOpAssumption DEF Frames, UserFrames, TryFrames, TryAllFrames, DoFrames,
                        RepeatFrames, HupFrames

\* The frames that the library pushes.
LEMMA NewFrames ==
  /\ \A id \in Ids, r \in Int : UserFrame(id, r) \in Frames
  /\ \A b \in BOOLEAN : [k |-> "do", hup |-> b] \in Frames
                       /\ [k |-> "rest", hup |-> b] \in Frames
  /\ \A o \in Plain, len \in Lens, b \in BOOLEAN, id \in Ids :
       [k |-> "try", o |-> o, len |-> len, repeat |-> b, id |-> id] \in Frames
  /\ \A o \in BufAll, len \in Lens, br \in Nat, id \in Ids :
       [k |-> "tryAll", o |-> o, len |-> len, br |-> br, id |-> id] \in Frames
  /\ \A o \in Plain, b \in BOOLEAN, h \in BOOLEAN :
       [k |-> "repeat", o |-> o, short |-> b, hup |-> h] \in Frames
  /\ \A k \in {"hup", "hupAll", "hupEnd", "abort"} : [k |-> k] \in Frames
BY DEF Frames, UserFrame, UserFrames, TryFrames, TryAllFrames, DoFrames,
       RepeatFrames, HupFrames
-----------------------------------------------------------------------------
(***************************************************************************)
(* How a step changes the stack.                                           *)
(***************************************************************************)

LEMMA PopShape ==
  ASSUME stack \in Seq(Frames), stack # <<>>, stack' = Popped
  PROVE  /\ stack' \in Seq(Frames)
         /\ Draining' => Draining
         /\ HupEnding' => HupEnding
         /\ ~Serves(Top) => (Serving => Serving')
<1>1. /\ DOMAIN stack = 1..Len(stack) /\ Len(stack) \in Nat \ {0}
      /\ stack' \in Seq(Frames)
      /\ DOMAIN stack' = 1..(Len(stack) - 1)
      /\ \A k \in 1..(Len(stack) - 1) : stack'[k] = stack[k]
  BY PoppedFacts
<1>2. \A k \in DOMAIN stack' : k \in DOMAIN stack /\ stack'[k] = stack[k]
  BY <1>1
<1>3. \A k \in DOMAIN stack : k \in DOMAIN stack' \/ stack[k] = Top
  BY <1>1 DEF Top
<1>4. (Draining' => Draining) /\ (HupEnding' => HupEnding)
  BY <1>2 DEF Draining, HupEnding
<1>5. ~Serves(Top) => (Serving => Serving')
  BY <1>2, <1>3 DEF Serving
<1> QED BY <1>1, <1>4, <1>5

LEMMA PushShape ==
  ASSUME stack \in Seq(Frames), NEW f \in Frames, stack' = Append(stack, f)
  PROVE  /\ stack' \in Seq(Frames)
         /\ Draining' => Draining \/ Drained(f)
         /\ HupEnding' => HupEnding \/ f.k = "hupEnd"
         /\ Serves(f) \/ Serving => Serving'
<1>1. /\ stack' \in Seq(Frames)
      /\ DOMAIN stack = 1..Len(stack) /\ Len(stack) \in Nat
      /\ DOMAIN stack' = 1..(Len(stack) + 1)
      /\ stack'[Len(stack) + 1] = f
      /\ \A k \in 1..Len(stack) : stack'[k] = stack[k]
  BY PushFacts
<1>2. \A k \in DOMAIN stack' : (k \in DOMAIN stack /\ stack'[k] = stack[k]) \/ stack'[k] = f
  BY <1>1
<1>3. \A k \in DOMAIN stack : k \in DOMAIN stack' /\ stack'[k] = stack[k]
  BY <1>1
<1>4. Len(stack) + 1 \in DOMAIN stack' /\ stack'[Len(stack) + 1] = f
  BY <1>1
<1>5. (Draining' => Draining \/ Drained(f)) /\ (HupEnding' => HupEnding \/ f.k = "hupEnd")
  BY <1>2 DEF Draining, HupEnding
<1>6. Serves(f) \/ Serving => Serving'
  BY <1>3, <1>4 DEF Serving
<1> QED BY <1>1, <1>5, <1>6

LEMMA ReplaceShape ==
  ASSUME stack \in Seq(Frames), stack # <<>>, NEW f \in Frames, stack' = Replaced(f)
  PROVE  /\ stack' \in Seq(Frames)
         /\ Draining' => Draining \/ Drained(f)
         /\ HupEnding' => HupEnding \/ f.k = "hupEnd"
         /\ Serves(f) => Serving'
         /\ ~Serves(Top) => (Serving => Serving')
<1>1. /\ DOMAIN stack = 1..Len(stack) /\ Len(stack) \in Nat \ {0}
      /\ stack' \in Seq(Frames)
      /\ DOMAIN stack' = 1..Len(stack)
      /\ stack'[Len(stack)] = f
      /\ \A k \in 1..(Len(stack) - 1) : stack'[k] = stack[k]
  BY ReplacedFacts
<1>4. \A k \in DOMAIN stack' : (k \in DOMAIN stack /\ stack'[k] = stack[k]) \/ stack'[k] = f
  BY <1>1
<1>5. \A k \in DOMAIN stack : (k \in DOMAIN stack' /\ stack'[k] = stack[k]) \/ stack[k] = Top
  BY <1>1 DEF Top
<1>6. Len(stack) \in DOMAIN stack' /\ stack'[Len(stack)] = f
  BY <1>1
<1>7. (Draining' => Draining \/ Drained(f)) /\ (HupEnding' => HupEnding \/ f.k = "hupEnd")
  BY <1>4 DEF Draining, HupEnding
<1>8. (Serves(f) => Serving') /\ (~Serves(Top) => (Serving => Serving'))
  BY <1>5, <1>6 DEF Serving
<1> QED BY <1>1, <1>7, <1>8

LEMMA CallShape ==
  ASSUME stack \in Seq(Frames), stack # <<>>, NEW f \in Frames, NEW u \in Frames,
         u.k = "user", stack' = Append(Replaced(f), u)
  PROVE  /\ stack' \in Seq(Frames)
         /\ Draining' => Draining \/ Drained(f)
         /\ HupEnding' => HupEnding \/ f.k = "hupEnd"
         /\ Serves(f) => Serving'
         /\ ~Serves(Top) => (Serving => Serving')
<1> DEFINE n == Len(stack)
           r == Replaced(f)
<1>1. /\ DOMAIN stack = 1..n /\ n \in Nat \ {0}
      /\ r \in Seq(Frames) /\ Len(r) = n
      /\ r[n] = f
      /\ \A k \in 1..(n - 1) : r[k] = stack[k]
  BY ReplacedFacts
<1>2. stack' = Append(r, u)
  OBVIOUS
<1>3. Top = stack[n]
  BY DEF Top
<1> HIDE DEF n, r
<1>4. /\ stack' \in Seq(Frames)
      /\ DOMAIN stack' = 1..(n + 1)
      /\ stack'[n + 1] = u
      /\ \A k \in 1..n : stack'[k] = r[k]
  BY <1>1, <1>2, PushFacts
<1>5. /\ DOMAIN stack' = 1..(n + 1) /\ stack'[n + 1] = u /\ stack'[n] = f
      /\ \A k \in 1..(n - 1) : stack'[k] = stack[k]
  BY <1>1, <1>4
<1>6. \A k \in DOMAIN stack' : \/ k \in DOMAIN stack /\ stack'[k] = stack[k]
                             \/ stack'[k] = f \/ stack'[k] = u
  BY <1>1, <1>5
<1>7. \A k \in DOMAIN stack : (k \in DOMAIN stack' /\ stack'[k] = stack[k]) \/ stack[k] = Top
  <2> SUFFICES ASSUME NEW k \in DOMAIN stack, k # n
               PROVE  k \in DOMAIN stack' /\ stack'[k] = stack[k]
    BY <1>3, Zenon
  <2>1. k \in 1..n /\ n \in Nat /\ k # n
    BY <1>1, Zenon
  <2>2. k \in 1..(n - 1) /\ k \in 1..(n + 1)
    BY <2>1
  <2> QED BY <1>5, <2>2, Zenon
<1>8. n \in DOMAIN stack' /\ stack'[n] = f
  BY <1>1, <1>5
<1>9. (Draining' => Draining \/ Drained(f)) /\ (HupEnding' => HupEnding \/ f.k = "hupEnd")
  BY <1>6 DEF Draining, HupEnding, Drained
<1>10. (Serves(f) => Serving') /\ (~Serves(Top) => (Serving => Serving'))
  BY <1>7, <1>8 DEF Serving
<1> QED BY <1>4, <1>9, <1>10

-----------------------------------------------------------------------------
(***************************************************************************)
(* A step of the user or the library preserves Inv if it meets these       *)
(* conditions.  Those on skip, Draining and Waiting are the heart of the   *)
(* matter: each path that begins to rely on a drained stream has seen it   *)
(* drained in this very step, or relies on an earlier such observation.    *)
(***************************************************************************)
LEMMA Assemble ==
  ASSUME Inv,
         avail' \in Nat, avail' <= avail, moved' \in Nat, reported' \in Nat,
         forfeited' \in Nat, down' = down, closed' \in BOOLEAN,
         registered' \in BOOLEAN, edge' \in BOOLEAN, notif' = notif,
         registered' => registered /\ edge' = edge,
         hist' \in Seq(OpHistory), Len(hist') <= MaxOps,
         op' \in OperationInfo, LenInv',
         op'.operation # "none" => op'.id \in Ids,
         op.id \in Ids => op'.id \in Ids,
         stack' \in Seq(Frames),
         HupEnding' => HupEnding \/ op'.id \in Ids,
         skip' \in BOOLEAN,
         skip' => skip \/ Draining \/ avail' = 0 \/ "tail" \in Habits,
         Draining' => Draining \/ avail' = 0 \/ "tail" \in Habits,
         Waiting' => \/ avail' = 0 \/ "tail" \in Habits
                     \/ skip \/ Draining \/ Serving'
                     \/ Waiting /\ (Serving => Serving')
  PROVE  Inv'
<1>1. TypeOK'
  BY DEF Inv, TypeOK
<1>2. IdInv'
  BY DEF Inv, IdInv
<1>3. ASSUME registered' PROVE Announced => Announced'
  BY <1>3 DEF Announced, Inv, TypeOK
<1>4. avail' = 0 \/ "tail" \in Habits => Announced'
  BY DEF Announced
<1>5. WakeInv'
  BY <1>3, <1>4 DEF Inv, WakeInv
<1> QED BY <1>1, <1>2, <1>5 DEF Inv
-----------------------------------------------------------------------------
(***************************************************************************)
(* The slot.                                                               *)
(***************************************************************************)
LEMMA FinishedFacts ==
  ASSUME op \in OperationInfo
  PROVE  /\ Finished \in OperationInfo /\ Finished.operation = "none"
         /\ Finished.id = op.id
         /\ \A d \in Nat : /\ [Finished EXCEPT !.lenDone = d] \in OperationInfo
                           /\ [Finished EXCEPT !.lenDone = d].operation = "none"
                           /\ [Finished EXCEPT !.lenDone = d].id = op.id
BY DEF Finished, OperationInfo

LEMMA AddFacts ==
  ASSUME NEW o \in Operations, NEW len \in Nat, NEW lenDone \in Nat,
         NEW repeat \in BOOLEAN, NEW id \in Ids
  PROVE  LET a == addRWOp(o, len, lenDone, repeat, id) IN
         /\ a \in OperationInfo /\ a.operation = o /\ a.len = len
         /\ a.lenDone = lenDone /\ a.id = id
BY DEF addRWOp, OperationInfo

\* The state of a slot that has been cleared.
LEMMA ClearedFacts ==
  ASSUME Inv, op' = Finished
  PROVE  /\ op' \in OperationInfo /\ op'.operation = "none" /\ op'.id = op.id
         /\ LenInv' /\ ~Waiting'
BY FinishedFacts DEF Inv, TypeOK, LenInv, Waiting, Plain, All, BufAll

\* User frames are neutral.
LEMMA UserFrameFacts ==
  ASSUME NEW id \in Ids, NEW r \in Int
  PROVE  /\ UserFrame(id, r) \in Frames
         /\ UserFrame(id, r).k = "user"
         /\ ~Serves(UserFrame(id, r)) /\ ~Drained(UserFrame(id, r))
BY NewFrames DEF UserFrame, Serves, Drained

-----------------------------------------------------------------------------
(***************************************************************************)
(* The synchronous attempts.                                               *)
(***************************************************************************)
LEMMA InvTry == Inv /\ TryStep => Inv'
<1> SUFFICES ASSUME Inv, TryStep PROVE Inv'
  OBVIOUS
<1>1. stack \in Seq(Frames) /\ stack # <<>> /\ Top.k = "try" /\ TypeOK
  BY DEF Inv, TypeOK, TryStep, TopIs
<1>2. /\ Top \in Frames /\ Top.o \in Plain /\ Top.len \in Nat \ {0}
      /\ Top.repeat \in BOOLEAN /\ Top.id \in Ids
  BY <1>1, PoppedFacts, FrameFacts
<1>0. PICK r \in Results(Top.o, Top.len) :
        /\ Transfer(r)
        /\ \/ /\ r = EAGAIN
              /\ op' = addRWOp(Top.o, Top.len, 0, Top.repeat, Top.id)
              /\ Return
           \/ TailCall(Top.id, r) /\ UNCHANGED op
           \/ CallThen(Top, Top.id, r) /\ UNCHANGED op
  BY Zenon DEF TryStep
<1>3. Transfer(r) /\ UNCHANGED <<closed, registered, edge, notif, skip>>
  BY <1>0 DEF TryStep, epollVars
<1>4. /\ r \in Int
      /\ avail' \in Nat /\ moved' \in Nat /\ down' = down /\ avail' <= avail
      /\ r = EAGAIN => avail' = 0
  BY <1>1, <1>2, <1>3, ResultFacts
<1>5. ~Serves(Top) /\ ~Drained(Top) /\ Top.k # "hupEnd"
  BY <1>1 DEF Serves, Drained
<1>6. CASE r = EAGAIN /\ op' = addRWOp(Top.o, Top.len, 0, Top.repeat, Top.id) /\ Return
  <2>1. /\ stack' \in Seq(Frames) /\ (Draining' => Draining)
        /\ (HupEnding' => HupEnding)
    BY <1>1, <1>6, PopShape DEF Return
  <2>2. /\ op' \in OperationInfo /\ op'.operation = Top.o /\ op'.len = Top.len
        /\ op'.id = Top.id
    BY <1>2, <1>6 DEF Operations, addRWOp, OperationInfo
  <2>3. LenInv'
    BY <1>2, <2>2 DEF LenInv, Plain, All, BufAll
  <2> QED BY <1>2, <1>3, <1>4, <1>6, <2>1, <2>2, <2>3, Assemble DEF Inv, TypeOK, Return
<1>7. CASE TailCall(Top.id, r) /\ UNCHANGED op
  <2>1. /\ stack' \in Seq(Frames) /\ (Draining' => Draining)
        /\ (HupEnding' => HupEnding) /\ (Serving => Serving')
    BY <1>1, <1>2, <1>4, <1>5, <1>7, UserFrameFacts, ReplaceShape DEF TailCall
  <2>2. reported' \in Nat /\ forfeited' = forfeited /\ hist' \in Seq(OpHistory)
        /\ Len(hist') = Len(hist)
    BY <1>1, <1>4, <1>7, CalledFacts DEF TailCall
  <2> QED BY <1>3, <1>4, <1>7, <2>1, <2>2, Assemble DEF Inv, TypeOK, LenInv, IdInv, Waiting
<1>8. CASE CallThen(Top, Top.id, r) /\ UNCHANGED op
  <2>1. /\ stack' \in Seq(Frames) /\ (Draining' => Draining)
        /\ (HupEnding' => HupEnding) /\ (Serving => Serving')
    BY <1>1, <1>2, <1>4, <1>5, <1>8, UserFrameFacts, CallShape DEF CallThen
  <2>2. reported' \in Nat /\ forfeited' = forfeited /\ hist' \in Seq(OpHistory)
        /\ Len(hist') = Len(hist)
    BY <1>1, <1>4, <1>8, CalledFacts DEF CallThen
  <2> QED BY <1>3, <1>4, <1>8, <2>1, <2>2, Assemble DEF Inv, TypeOK, LenInv, IdInv, Waiting
<1> QED BY <1>0, <1>6, <1>7, <1>8

LEMMA InvTryAll == Inv /\ TryAllStep => Inv'
<1> SUFFICES ASSUME Inv, TryAllStep PROVE Inv'
  OBVIOUS
<1> DEFINE n == Top.len - Top.br
           r == Sys(n)
<1>1. stack \in Seq(Frames) /\ stack # <<>> /\ Top.k = "tryAll" /\ TypeOK
  BY DEF Inv, TypeOK, TryAllStep, TopIs
<1>2. /\ Top \in Frames /\ Top.o \in BufAll /\ Top.len \in Lens /\ Top.len \in Nat \ {0}
      /\ Top.br \in Nat /\ Top.id \in Ids
  BY <1>1, PoppedFacts, FrameFacts
<1>3. UNCHANGED <<closed, registered, edge, notif, skip>>
  BY DEF TryAllStep, epollVars
<1>4. ~Serves(Top) /\ ~Drained(Top) /\ Top.k # "hupEnd"
  BY <1>1 DEF Serves, Drained
<1>5. ASSUME NEW x \in Int, TailCall(Top.id, x)
      PROVE  /\ stack' \in Seq(Frames) /\ (Draining' => Draining)
             /\ (HupEnding' => HupEnding) /\ (Serving => Serving')
             /\ reported' \in Nat /\ forfeited' = forfeited
             /\ hist' \in Seq(OpHistory) /\ Len(hist') = Len(hist)
  <2>1. /\ stack' \in Seq(Frames) /\ (Draining' => Draining)
        /\ (HupEnding' => HupEnding) /\ (Serving => Serving')
    BY <1>1, <1>2, <1>4, <1>5, UserFrameFacts, ReplaceShape DEF TailCall
  <2> QED BY <1>1, <1>5, <2>1, CalledFacts DEF TailCall
<1>6. CASE TailCall(Top.id, Top.br) /\ UNCHANGED <<streamVars, moved, op>>
  BY <1>2, <1>3, <1>5, <1>6, Assemble DEF Inv, TypeOK, LenInv, IdInv, Waiting, streamVars
<1>7. CASE Top.br < Top.len /\ Transfer(r)
  <2>1. n \in Nat \ {0}
    BY <1>2, <1>7
  <2>2. /\ r \in Int
        /\ avail' \in Nat /\ moved' \in Nat /\ down' = down /\ avail' <= avail
        /\ r = EAGAIN => avail' = 0
    BY <1>1, <1>7, <2>1, SysFacts, TransferFacts
  <2>3. CASE r = EAGAIN /\ Return
             /\ op' = addRWOp(Top.o, Top.len, Top.br, FALSE, Top.id)
    <3>1. /\ stack' \in Seq(Frames) /\ (Draining' => Draining)
          /\ (HupEnding' => HupEnding)
      BY <1>1, <2>3, PopShape DEF Return
    <3>2. /\ op' \in OperationInfo /\ op'.operation = Top.o /\ op'.len = Top.len
          /\ op'.lenDone = Top.br /\ op'.id = Top.id
      BY <1>2, <2>3 DEF Operations, All, addRWOp, OperationInfo
    <3>3. LenInv'
      BY <1>2, <1>7, <3>2 DEF LenInv, Plain, BufAll
    <3> QED BY <1>2, <1>3, <2>2, <2>3, <3>1, <3>2, <3>3, Assemble DEF Inv, TypeOK, Return
  <2>4. CASE /\ stack' = Popped /\ UNCHANGED <<op, reported, forfeited>>
             /\ hist' = [hist EXCEPT ![Top.id].cancelled = TRUE]
    <3>1. /\ stack' \in Seq(Frames) /\ (Draining' => Draining)
          /\ (HupEnding' => HupEnding) /\ (Serving => Serving')
      BY <1>1, <1>4, <2>4, PopShape
    <3>2. hist' \in Seq(OpHistory) /\ Len(hist') = Len(hist)
      <4>1. /\ hist \in Seq(OpHistory) /\ DOMAIN hist = 1..Len(hist)
            /\ Len(hist) \in Nat /\ \A j \in 1..Len(hist) : hist[j] \in OpHistory
        BY <1>1, LenProperties DEF TypeOK
      <4>2. hist' \in [1..Len(hist) -> OpHistory]
        BY <2>4, <4>1 DEF OpHistory
      <4> QED BY <4>1, <4>2
    <3> QED BY <1>3, <2>2, <2>4, <3>1, <3>2, Assemble
             DEF Inv, TypeOK, LenInv, IdInv, Waiting
  <2>5. CASE TailCall(Top.id, IF Top.br = 0 THEN r ELSE Top.br) /\ UNCHANGED op
    <3>1. (IF Top.br = 0 THEN r ELSE Top.br) \in Int
      BY <1>2, <2>2
    <3> QED BY <1>3, <1>5, <2>2, <2>5, <3>1, Assemble
             DEF Inv, TypeOK, LenInv, IdInv, Waiting
  <2>6. CASE /\ r > 0 /\ stack' = Replaced([Top EXCEPT !.br = @ + r])
             /\ UNCHANGED <<op, reported, forfeited, hist>>
    <3> DEFINE f == [Top EXCEPT !.br = @ + r]
    <3>1. f \in Frames /\ f.k = "tryAll"
      <4>1. Top \in TryAllFrames
        BY <1>1, <1>2 DEF Frames, UserFrames, TryFrames, TryAllFrames, DoFrames,
                          RepeatFrames, HupFrames
      <4>2. Top.br + r \in Nat
        BY <1>2, <2>2, <2>6
      <4>3. f \in TryAllFrames
        BY <4>1, <4>2 DEF TryAllFrames
      <4> QED BY <4>3 DEF Frames, TryAllFrames
    <3>2. ~Drained(f) /\ f.k # "hupEnd"
      BY <3>1 DEF Drained
    <3>3. stack' = Replaced(f)
      BY <2>6
    <3> HIDE DEF f
    <3>4. /\ stack' \in Seq(Frames) /\ (Draining' => Draining)
          /\ (HupEnding' => HupEnding) /\ (Serving => Serving')
      BY <1>1, <1>4, <3>1, <3>2, <3>3, ReplaceShape
    <3> QED BY <1>3, <2>2, <2>6, <3>4, Assemble DEF Inv, TypeOK, LenInv, IdInv, Waiting
  <2>7. ~(Top.br >= Top.len)
    BY <1>2, <1>7
  <2> QED BY <2>7, <2>3, <2>4, <2>5, <2>6, Zenon DEF TryAllStep
<1> QED BY <1>1, <1>6, <1>7 DEF TryAllStep

-----------------------------------------------------------------------------
(***************************************************************************)
(* The user's calls.                                                       *)
(***************************************************************************)
LEMMA StartedFacts ==
  ASSUME Inv, NEW o, MayStart(o), NEW repeat \in BOOLEAN, NEW f \in Nat,
         hist' = Append(hist, [o |-> o, repeat |-> repeat, finals |-> f,
                               cancelled |-> FALSE, late |-> FALSE])
  PROVE  /\ NewId \in Ids /\ o \in Operations
         /\ hist' \in Seq(OpHistory) /\ Len(hist') <= MaxOps
<1>1. o \in Operations /\ Len(hist) < MaxOps /\ MaxOps \in Nat
  BY FileOpAssumption DEF MayStart
<1>2. hist \in Seq(OpHistory) /\ Len(hist) \in Nat
  BY DEF Inv, TypeOK
<1>3. [o |-> o, repeat |-> repeat, finals |-> f, cancelled |-> FALSE, late |-> FALSE]
        \in OpHistory
  BY <1>1 DEF OpHistory
<1>4. hist' \in Seq(OpHistory) /\ Len(hist') = Len(hist) + 1
  BY <1>2, <1>3
<1> QED BY <1>1, <1>2, <1>4 DEF NewId, Ids

LEMMA InvStartWait == Inv /\ StartWait => Inv'
<1> SUFFICES ASSUME Inv, StartWait PROVE Inv'
  OBVIOUS
<1>1. /\ NewId \in Ids /\ hist' \in Seq(OpHistory) /\ Len(hist') <= MaxOps
  BY StartedFacts DEF StartWait, Started
<1>2. /\ op' \in OperationInfo /\ op'.operation = "wait" /\ op'.id = NewId
  BY <1>1 DEF StartWait, Operations, addRWOp, OperationInfo
<1>3. LenInv' /\ ~Waiting'
  BY <1>2 DEF LenInv, Waiting, Plain, All, BufAll
<1>4. Draining' = Draining /\ HupEnding' = HupEnding
  BY DEF StartWait, Draining, HupEnding
<1>5. UNCHANGED <<avail, down, closed, registered, edge, notif, skip, stack, moved,
                  reported, forfeited>>
  BY DEF StartWait, streamVars, epollVars
<1> QED BY <1>1, <1>2, <1>3, <1>4, <1>5, Assemble DEF Inv, TypeOK

\* A start that stores the operation in the slot at once, because skip says
\* that the stream is drained.
LEMMA StoreSkipping ==
  ASSUME Inv, skip, NEW o \in Plain \cup All, MayStart(o), NEW len \in Lens,
         NEW repeat \in BOOLEAN, Started(o, repeat),
         op' = addRWOp(o, len, 0, repeat, NewId),
         UNCHANGED <<avail, down, closed, registered, edge, notif, skip, stack,
                     moved, reported, forfeited>>
  PROVE  Inv'
<1>1. /\ NewId \in Ids /\ hist' \in Seq(OpHistory) /\ Len(hist') <= MaxOps
  BY StartedFacts DEF Started
<1>2. len \in Nat \ {0} /\ o \in Operations
  BY FileOpAssumption DEF Operations
<1>3. /\ op' \in OperationInfo /\ op'.operation = o /\ op'.id = NewId
      /\ op'.len = len /\ op'.lenDone = 0
  BY <1>1, <1>2, AddFacts
<1>4. LenInv'
  BY <1>2, <1>3 DEF LenInv
<1>5. Draining' = Draining /\ HupEnding' = HupEnding
  BY DEF Draining, HupEnding
<1> QED BY <1>1, <1>3, <1>4, <1>5, Assemble DEF Inv, TypeOK

\* A start that begins a synchronous attempt.
LEMMA BeginTrying ==
  ASSUME Inv, NEW o, MayStart(o), NEW repeat \in BOOLEAN, Started(o, repeat),
         NEW f \in Frames, f.k \in {"try", "tryAll"}, stack' = Append(stack, f),
         UNCHANGED <<avail, down, closed, registered, edge, notif, op, skip,
                     moved, reported, forfeited>>
  PROVE  Inv'
<1>1. /\ hist' \in Seq(OpHistory) /\ Len(hist') <= MaxOps
  BY StartedFacts DEF Started
<1>2. ~Drained(f) /\ f.k # "hupEnd"
  BY DEF Drained
<1>3. /\ stack' \in Seq(Frames) /\ (Draining' => Draining)
      /\ (HupEnding' => HupEnding) /\ (Serving => Serving')
  BY <1>2, PushShape DEF Inv, TypeOK
<1> QED BY <1>1, <1>3, Assemble DEF Inv, TypeOK, LenInv, IdInv, Waiting

LEMMA InvStartPlain ==
  ASSUME Inv, NEW o \in Plain, NEW len \in Lens, NEW repeat \in BOOLEAN,
         StartPlain(o, len, repeat)
  PROVE  Inv'
<1>1. NewId \in Ids
  BY StartedFacts DEF StartPlain, Started
<1> DEFINE f == [k |-> "try", o |-> o, len |-> len, repeat |-> repeat, id |-> NewId]
<1>2. f \in Frames /\ f.k = "try"
  BY <1>1, NewFrames
<1>3. CASE stack' = Append(stack, f) /\ UNCHANGED op
  <2> HIDE DEF f
  <2> QED BY <1>2, <1>3, BeginTrying DEF StartPlain, streamVars, epollVars
<1>4. CASE skip /\ op' = addRWOp(o, len, 0, repeat, NewId) /\ UNCHANGED stack
  BY <1>4, StoreSkipping DEF StartPlain, streamVars, epollVars
<1> QED BY <1>3, <1>4 DEF StartPlain

LEMMA InvStartSendFile ==
  ASSUME Inv, NEW len \in Lens, NEW repeat \in BOOLEAN, StartSendFile(len, repeat)
  PROVE  Inv'
<1>1. NewId \in Ids
  BY StartedFacts DEF StartSendFile, Started
<1>2. "sendFile" \in Plain
  BY DEF Plain
<1> DEFINE f == [k |-> "try", o |-> "sendFile", len |-> len, repeat |-> repeat,
                 id |-> NewId]
<1>3. f \in Frames /\ f.k = "try"
  BY <1>1, <1>2, NewFrames
<1>4. stack' = Append(stack, f)
  BY DEF StartSendFile
<1> HIDE DEF f
<1> QED BY <1>2, <1>3, <1>4, BeginTrying DEF StartSendFile, streamVars, epollVars

LEMMA InvStartAll ==
  ASSUME Inv, NEW len \in Lens, StartRwAll(len) \/ StartSrAll(len)
  PROVE  Inv'
<1>1. NewId \in Ids
  BY StartedFacts DEF StartRwAll, StartSrAll, Started
<1> DEFINE f(o) == [k |-> "tryAll", o |-> o, len |-> len, br |-> 0, id |-> NewId]
<1>2. \A o \in BufAll : f(o) \in Frames /\ f(o).k = "tryAll"
  BY <1>1, NewFrames
<1>3. "rwAll" \in BufAll /\ "srAll" \in BufAll /\ BufAll \subseteq All
  BY DEF BufAll, All
<1>4. CASE StartRwAll(len) /\ skip
  BY <1>3, <1>4, StoreSkipping DEF StartRwAll, streamVars, epollVars
<1>5. CASE StartRwAll(len) /\ ~skip
  <2>1. stack' = Append(stack, f("rwAll"))
    BY <1>5 DEF StartRwAll
  <2> HIDE DEF f
  <2> QED BY <1>2, <1>3, <1>5, <2>1, BeginTrying DEF StartRwAll, streamVars, epollVars
<1>6. CASE StartSrAll(len)
  <2>1. stack' = Append(stack, f("srAll"))
    BY <1>6 DEF StartSrAll
  <2> HIDE DEF f
  <2> QED BY <1>2, <1>3, <1>6, <2>1, BeginTrying DEF StartSrAll, streamVars, epollVars
<1> QED BY <1>4, <1>5, <1>6

LEMMA InvStartVAll ==
  ASSUME Inv, NEW len \in Lens, StartVAll(len)
  PROVE  Inv'
<1>1. "rwvAll" \in All /\ "rwvAll" \in Operations
  BY DEF All, Operations
<1>2. CASE skip
  BY <1>1, <1>2, StoreSkipping DEF StartVAll, streamVars, epollVars
<1>3. CASE ~skip
  <2> DEFINE f == [k |-> "do", hup |-> FALSE]
  <2>1. /\ NewId \in Ids /\ hist' \in Seq(OpHistory) /\ Len(hist') <= MaxOps
    BY StartedFacts DEF StartVAll, Started
  <2>2. len \in Nat \ {0}
    BY FileOpAssumption
  <2>3. /\ op' \in OperationInfo /\ op'.operation = "rwvAll" /\ op'.id = NewId
        /\ op'.len = len /\ op'.lenDone = 0
    BY <1>1, <2>1, <2>2 DEF StartVAll, addRWOp, OperationInfo
  <2>4. LenInv'
    BY <2>2, <2>3 DEF LenInv, Plain
  <2>5. f \in Frames /\ Serves(f) /\ ~Drained(f) /\ f.k # "hupEnd"
    BY NewFrames DEF Serves, Drained
  <2>6. stack' = Append(stack, f)
    BY <1>3 DEF StartVAll
  <2> HIDE DEF f
  <2>7. /\ stack' \in Seq(Frames) /\ (Draining' => Draining)
        /\ (HupEnding' => HupEnding) /\ Serving'
    BY <2>5, <2>6, PushShape DEF Inv, TypeOK
  <2>8. UNCHANGED <<avail, down, closed, registered, edge, notif, skip, moved,
                    reported, forfeited>>
    BY DEF StartVAll, streamVars, epollVars
  <2> QED BY <2>1, <2>3, <2>4, <2>7, <2>8, Assemble DEF Inv, TypeOK
<1> QED BY <1>2, <1>3

LEMMA InvStartClose == Inv /\ StartClose => Inv'
<1> SUFFICES ASSUME Inv, StartClose PROVE Inv'
  OBVIOUS
<1>1. CASE /\ Mask # {} /\ CloseFd /\ UNCHANGED op
           /\ stack' = Append(stack, UserFrame(NewId, 0))
           /\ hist' = Append(hist, [o |-> "close", repeat |-> FALSE, finals |-> 1,
                                    cancelled |-> FALSE, late |-> FALSE])
  <2>1. /\ NewId \in Ids /\ hist' \in Seq(OpHistory) /\ Len(hist') <= MaxOps
    BY <1>1, StartedFacts DEF StartClose
  <2>2. /\ stack' \in Seq(Frames) /\ (Draining' => Draining)
        /\ (HupEnding' => HupEnding) /\ (Serving => Serving')
    BY <1>1, <2>1, UserFrameFacts, PushShape DEF Inv, TypeOK
  <2>3. ~registered' /\ registered' \in BOOLEAN /\ edge' \in BOOLEAN
        /\ closed' \in BOOLEAN /\ notif' = notif
    BY <1>1 DEF CloseFd
  <2> QED BY <1>1, <2>1, <2>2, <2>3, Assemble
           DEF Inv, TypeOK, LenInv, IdInv, Waiting, StartClose, streamVars
<1>2. CASE /\ Mask = {} /\ op' = addRWOp("close", 0, 0, FALSE, NewId)
           /\ Started("close", FALSE) /\ UNCHANGED <<closed, epollVars, stack>>
  <2>1. /\ NewId \in Ids /\ hist' \in Seq(OpHistory) /\ Len(hist') <= MaxOps
    BY <1>2, StartedFacts DEF StartClose, Started
  <2>2. op' \in OperationInfo /\ op'.operation = "close" /\ op'.id = NewId
    BY <1>2, <2>1 DEF Operations, addRWOp, OperationInfo
  <2>3. LenInv'
    BY <2>2 DEF LenInv, Plain, All, BufAll
  <2>4. avail' = 0
    BY <1>2 DEF StartClose, Mask, Inv, TypeOK, streamVars
  <2>5. Draining' = Draining /\ HupEnding' = HupEnding
    BY <1>2 DEF Draining, HupEnding
  <2>6. UNCHANGED <<avail, down, closed, registered, edge, notif, skip, stack, moved,
                    reported, forfeited>>
    BY <1>2 DEF StartClose, streamVars, epollVars
  <2> QED BY <2>1, <2>2, <2>3, <2>4, <2>5, <2>6, Assemble DEF Inv, TypeOK
<1> QED BY <1>1, <1>2 DEF StartClose

LEMMA InvCancel == Inv /\ Cancel => Inv'
<1> SUFFICES ASSUME Inv, Cancel PROVE Inv'
  OBVIOUS
<1>1. /\ op' \in OperationInfo /\ op'.operation = "none" /\ op'.id = op.id
      /\ LenInv' /\ ~Waiting'
  BY ClearedFacts DEF Cancel
<1>2. /\ hist \in Seq(OpHistory) /\ DOMAIN hist = 1..Len(hist)
      /\ Len(hist) \in Nat /\ \A j \in 1..Len(hist) : hist[j] \in OpHistory
  BY LenProperties DEF Inv, TypeOK
<1>3. hist' \in [1..Len(hist) -> OpHistory]
  BY <1>2 DEF Cancel, OpHistory
<1>4. hist' \in Seq(OpHistory) /\ Len(hist') = Len(hist)
  BY <1>2, <1>3
<1>5. forfeited' \in Nat
  BY DEF Cancel, Inv, TypeOK, OperationInfo
<1>6. Draining' = Draining /\ HupEnding' = HupEnding
  BY DEF Cancel, Draining, HupEnding
<1> QED BY <1>1, <1>4, <1>5, <1>6, Assemble DEF Inv, TypeOK, Cancel, streamVars, epollVars

-----------------------------------------------------------------------------
(***************************************************************************)
(* doOperation and handleHup.                                              *)
(***************************************************************************)

\* A call that ends by calling the callback.
LEMMA TailCallFacts ==
  ASSUME TypeOK, stack # <<>>, NEW id \in Ids, NEW r \in Int, TailCall(id, r)
  PROVE  /\ stack' \in Seq(Frames) /\ (Draining' => Draining)
         /\ (HupEnding' => HupEnding) /\ (~Serves(Top) => (Serving => Serving'))
         /\ reported' \in Nat /\ forfeited' = forfeited
         /\ hist' \in Seq(OpHistory) /\ Len(hist') = Len(hist)
<1>1. /\ stack' \in Seq(Frames) /\ (Draining' => Draining)
      /\ (HupEnding' => HupEnding) /\ (~Serves(Top) => (Serving => Serving'))
  BY UserFrameFacts, ReplaceShape DEF TailCall, TypeOK
<1> QED BY <1>1, CalledFacts DEF TailCall

\* A call that calls the callback and goes on as f.
LEMMA CallThenFacts ==
  ASSUME TypeOK, stack # <<>>, NEW f \in Frames, NEW id \in Ids, NEW r \in Int,
         CallThen(f, id, r)
  PROVE  /\ stack' \in Seq(Frames) /\ (Draining' => Draining \/ Drained(f))
         /\ (HupEnding' => HupEnding \/ f.k = "hupEnd")
         /\ (Serves(f) => Serving')
         /\ reported' \in Nat /\ forfeited' = forfeited
         /\ hist' \in Seq(OpHistory) /\ Len(hist') = Len(hist)
<1>1. /\ stack' \in Seq(Frames) /\ (Draining' => Draining \/ Drained(f))
      /\ (HupEnding' => HupEnding \/ f.k = "hupEnd")
      /\ (Serves(f) => Serving')
  BY UserFrameFacts, CallShape DEF CallThen, TypeOK
<1> QED BY <1>1, CalledFacts DEF CallThen

LEMMA InvDoPlain == Inv /\ DoPlain => Inv'
<1> SUFFICES ASSUME Inv, DoPlain PROVE Inv'
  OBVIOUS
<1>0. PICK r \in Results(op.operation, op.len) :
        LET short == Short(r, op.len) IN
        /\ Transfer(r)
        /\ \/ r = EAGAIN /\ Return /\ UNCHANGED <<op, skip>>
           \/ op' = Finished /\ TailCall(op.id, r) /\ UNCHANGED skip
           \/ /\ r > 0
              /\ CallThen([k |-> "repeat", o |-> op.operation, short |-> short,
                           hup |-> Top.hup], op.id, r)
              /\ UNCHANGED <<op, skip>>
           \/ /\ r > 0 /\ op' = Finished /\ TailCall(op.id, r)
              /\ skip' = (skip \/ SkipNext(short, Top.hup))
  BY Zenon DEF DoPlain
<1> DEFINE short == Short(r, op.len)
<1>1. /\ TypeOK /\ stack \in Seq(Frames) /\ stack # <<>> /\ Top.k = "do"
      /\ op \in OperationInfo /\ op.operation \in Plain
  BY DEF Inv, TypeOK, DoPlain, TopIs
<1>2. op.operation # "none" /\ op.id \in Ids /\ op.len \in Nat \ {0}
  BY <1>1 DEF Inv, IdInv, LenInv, Plain, OperationInfo
<1>3. Top.hup \in BOOLEAN
  BY <1>1, PoppedFacts, FrameFacts
<1>4. Transfer(r) /\ UNCHANGED <<closed, registered, edge, notif>>
  BY <1>0 DEF DoPlain, epollVars
<1>5. /\ r \in Int
      /\ avail' \in Nat /\ moved' \in Nat /\ down' = down /\ avail' <= avail
      /\ r = EAGAIN => avail' = 0
      /\ r > 0 /\ short => avail' = 0 \/ "tail" \in Habits
      /\ short \in BOOLEAN
  BY <1>1, <1>2, <1>4, ResultFacts DEF Short
<1>6. CASE r = EAGAIN /\ Return /\ UNCHANGED <<op, skip>>
  <2>1. /\ stack' \in Seq(Frames) /\ (Draining' => Draining)
        /\ (HupEnding' => HupEnding)
    BY <1>1, <1>6, PopShape DEF Return
  <2> QED BY <1>4, <1>5, <1>6, <2>1, Assemble DEF Inv, TypeOK, LenInv, IdInv, Return
<1>7. CASE op' = Finished /\ TailCall(op.id, r) /\ UNCHANGED skip
  BY <1>1, <1>2, <1>4, <1>5, <1>7, TailCallFacts, ClearedFacts, Assemble DEF Inv, TypeOK
<1>8. CASE /\ r > 0
           /\ CallThen([k |-> "repeat", o |-> op.operation, short |-> short,
                        hup |-> Top.hup], op.id, r)
           /\ UNCHANGED <<op, skip>>
  <2> DEFINE f == [k |-> "repeat", o |-> op.operation, short |-> short, hup |-> Top.hup]
  <2>1. f \in Frames
    BY <1>1, <1>3, <1>5, NewFrames
  <2>2. /\ f.k # "hupEnd" /\ (Serves(f) <=> ~short) /\ (Drained(f) <=> short)
    BY DEF Serves, Drained
  <2>3. CallThen(f, op.id, r)
    BY <1>8
  <2> HIDE DEF f
  <2>4. /\ stack' \in Seq(Frames) /\ (Draining' => Draining \/ short)
        /\ (HupEnding' => HupEnding) /\ (~short => Serving')
        /\ reported' \in Nat /\ forfeited' = forfeited
        /\ hist' \in Seq(OpHistory) /\ Len(hist') = Len(hist)
    BY <1>1, <1>2, <1>5, <2>1, <2>2, <2>3, CallThenFacts
  <2>5. /\ (Draining' => Draining \/ avail' = 0 \/ "tail" \in Habits)
        /\ (Waiting' => avail' = 0 \/ Serving' \/ "tail" \in Habits)
    BY <1>5, <1>8, <2>4
  <2> HIDE DEF short
  <2> QED BY <1>4, <1>5, <1>8, <2>4, <2>5, Assemble DEF Inv, TypeOK, LenInv, IdInv
<1>9. CASE /\ r > 0 /\ op' = Finished /\ TailCall(op.id, r)
           /\ skip' = (skip \/ SkipNext(short, Top.hup))
  <2>1. skip' \in BOOLEAN /\ (skip' => skip \/ avail' = 0 \/ "tail" \in Habits)
    BY <1>5, <1>9 DEF SkipNext
  <2> QED BY <1>1, <1>2, <1>4, <1>5, <1>9, <2>1, TailCallFacts, ClearedFacts, Assemble
           DEF Inv, TypeOK
<1> QED BY <1>0, <1>6, <1>7, <1>8, <1>9, Zenon

LEMMA InvDoWait == Inv /\ DoWait => Inv'
<1> SUFFICES ASSUME Inv, DoWait PROVE Inv'
  OBVIOUS
<1>1. TypeOK /\ stack # <<>> /\ op.id \in Ids /\ 0 \in Int
  BY DEF Inv, IdInv, DoWait, TopIs
<1>2. /\ op' = Finished /\ TailCall(op.id, 0)
      /\ UNCHANGED <<avail, down, closed, registered, edge, notif, skip, moved>>
  BY DEF DoWait, streamVars, epollVars
<1> QED BY <1>1, <1>2, TailCallFacts, ClearedFacts, Assemble DEF Inv, TypeOK

LEMMA InvDoRepeat == Inv /\ DoRepeat => Inv'
<1> SUFFICES ASSUME Inv, DoRepeat PROVE Inv'
  OBVIOUS
<1>1. TypeOK /\ stack \in Seq(Frames) /\ stack # <<>> /\ Top.k = "repeat"
  BY DEF Inv, TypeOK, DoRepeat, TopIs
<1>2. Top \in Frames /\ Top.o \in Plain /\ Top.short \in BOOLEAN /\ Top.hup \in BOOLEAN
  BY <1>1, PoppedFacts, FrameFacts
<1>3. UNCHANGED <<avail, down, closed, registered, edge, notif, moved>>
  BY DEF DoRepeat, streamVars, epollVars
<1>4. Top.short => Draining
  BY <1>1, PoppedFacts DEF Draining, Drained, Top
<1>5. HupResult \in Int
  BY DEF HupResult
<1>6. CASE op.operation = Top.o /\ op' = Finished /\ TailCall(op.id, HupResult)
           /\ UNCHANGED skip
  <2>1. op.id \in Ids
    BY <1>2, <1>6 DEF Inv, IdInv, Plain
  <2> QED BY <1>1, <1>3, <1>5, <1>6, <2>1, TailCallFacts, ClearedFacts, Assemble
           DEF Inv, TypeOK
<1>7. CASE Top.short /\ Return /\ UNCHANGED <<op, skip>>
  <2>1. /\ stack' \in Seq(Frames) /\ (Draining' => Draining)
        /\ (HupEnding' => HupEnding)
    BY <1>1, <1>7, PopShape DEF Return
  <2> QED BY <1>3, <1>4, <1>7, <2>1, Assemble DEF Inv, TypeOK, LenInv, IdInv, Return
<1>8. CASE /\ stack' = Replaced([k |-> "do", hup |-> FALSE])
           /\ UNCHANGED <<op, skip, reported, forfeited, hist>>
  <2> DEFINE f == [k |-> "do", hup |-> FALSE]
  <2>1. f \in Frames /\ Serves(f) /\ ~Drained(f) /\ f.k # "hupEnd"
    BY NewFrames DEF Serves, Drained
  <2>2. stack' = Replaced(f)
    BY <1>8
  <2> HIDE DEF f
  <2>3. /\ stack' \in Seq(Frames) /\ (Draining' => Draining)
        /\ (HupEnding' => HupEnding) /\ Serving'
    BY <1>1, <2>1, <2>2, ReplaceShape
  <2> QED BY <1>3, <1>8, <2>3, Assemble DEF Inv, TypeOK, LenInv, IdInv
<1>9. CASE /\ stack' = Replaced([k |-> "rest", hup |-> Top.hup])
           /\ skip' = (skip \/ SkipNext(Top.short, Top.hup))
           /\ UNCHANGED <<op, reported, forfeited, hist>>
  <2> DEFINE f == [k |-> "rest", hup |-> Top.hup]
  <2>1. f \in Frames /\ Serves(f) /\ ~Drained(f) /\ f.k # "hupEnd"
    BY <1>2, NewFrames DEF Serves, Drained
  <2>2. stack' = Replaced(f)
    BY <1>9
  <2> HIDE DEF f
  <2>3. /\ stack' \in Seq(Frames) /\ (Draining' => Draining)
        /\ (HupEnding' => HupEnding) /\ Serving'
    BY <1>1, <2>1, <2>2, ReplaceShape
  <2>4. skip' \in BOOLEAN /\ (skip' => skip \/ Draining)
    BY <1>4, <1>9 DEF SkipNext
  <2> QED BY <1>3, <1>9, <2>3, <2>4, Assemble DEF Inv, TypeOK, LenInv, IdInv
<1> QED BY <1>6, <1>7, <1>8, <1>9 DEF DoRepeat

LEMMA InvDoAll == Inv /\ DoAll => Inv'
<1> SUFFICES ASSUME Inv, DoAll PROVE Inv'
  OBVIOUS
<1> DEFINE n == op.len - op.lenDone
           r == Sys(n)
           done == op.lenDone + r
<1>1. /\ TypeOK /\ stack \in Seq(Frames) /\ stack # <<>>
      /\ op \in OperationInfo /\ op.operation \in All
  BY DEF Inv, TypeOK, DoAll, AtRest, TopIs
<1>2. /\ op.operation # "none" /\ op.id \in Ids
      /\ op.len \in Nat /\ op.lenDone \in Nat /\ n \in Nat \ {0}
  BY <1>1 DEF Inv, IdInv, LenInv, All, BufAll, OperationInfo
<1>3. Transfer(r) /\ UNCHANGED <<closed, registered, edge, notif, skip>>
  BY DEF DoAll, epollVars
<1>4. /\ r \in Int
      /\ avail' \in Nat /\ moved' \in Nat /\ down' = down /\ avail' <= avail
      /\ r = EAGAIN => avail' = 0
      /\ r > 0 /\ r < n => avail' = 0
  BY <1>1, <1>2, <1>3, SysFacts, TransferFacts
<1>5. ASSUME Return
      PROVE  /\ stack' \in Seq(Frames) /\ (Draining' => Draining)
             /\ (HupEnding' => HupEnding)
  BY <1>1, <1>5, PopShape DEF Return
<1>6. CASE r = EAGAIN /\ Return /\ UNCHANGED op
  BY <1>3, <1>4, <1>5, <1>6, Assemble DEF Inv, TypeOK, LenInv, IdInv, Return
<1>7. CASE op' = Finished /\ TailCall(op.id, IF op.lenDone = 0 THEN r ELSE op.lenDone)
  <2>1. (IF op.lenDone = 0 THEN r ELSE op.lenDone) \in Int
    BY <1>2, <1>4
  <2> QED BY <1>1, <1>2, <1>3, <1>4, <1>7, <2>1, TailCallFacts, ClearedFacts, Assemble
           DEF Inv, TypeOK
<1>8. CASE /\ r > 0 /\ op' = [Finished EXCEPT !.lenDone = done]
           /\ TailCall(op.id, done)
  <2>1. done \in Nat /\ done \in Int
    BY <1>2, <1>4, <1>8
  <2>2. /\ op' \in OperationInfo /\ op'.operation = "none" /\ op'.id = op.id
    BY <1>1, <1>8, <2>1, FinishedFacts
  <2>3. LenInv' /\ ~Waiting'
    BY <2>2 DEF LenInv, Waiting, Plain, All, BufAll
  <2> QED BY <1>1, <1>2, <1>3, <1>4, <1>8, <2>1, <2>2, <2>3, TailCallFacts, Assemble
           DEF Inv, TypeOK
<1>9. CASE /\ r > 0 /\ done < op.len
           /\ op' = [op EXCEPT !.lenDone = done] /\ Return
  <2>1. done \in Nat /\ r < n
    BY <1>2, <1>4, <1>9
  <2>2. /\ op' \in OperationInfo /\ op'.operation = op.operation /\ op'.id = op.id
        /\ op'.lenDone = done /\ op'.len = op.len
    BY <1>1, <1>9, <2>1 DEF OperationInfo
  <2>3. LenInv'
    BY <1>1, <1>9, <2>2 DEF LenInv, Plain, All, BufAll
  <2> QED BY <1>2, <1>3, <1>4, <1>5, <1>9, <2>1, <2>2, <2>3, Assemble
           DEF Inv, TypeOK, Return
<1> QED BY <1>6, <1>7, <1>8, <1>9, Zenon DEF DoAll

LEMMA InvDoOther == Inv /\ DoOther => Inv'
<1> SUFFICES ASSUME Inv, DoOther PROVE Inv'
  OBVIOUS
<1>1. TypeOK /\ stack \in Seq(Frames) /\ stack # <<>>
  BY DEF Inv, TypeOK, DoOther, AtRest, TopIs
<1>2. UNCHANGED <<avail, down, skip, moved>>
  BY DEF DoOther, streamVars
<1>3. CASE op.operation = "none" /\ Return /\ UNCHANGED <<closed, epollVars, op>>
  <2>1. /\ stack' \in Seq(Frames) /\ (Draining' => Draining)
        /\ (HupEnding' => HupEnding)
    BY <1>1, <1>3, PopShape DEF Return
  <2>2. ~Waiting'
    BY <1>3 DEF Waiting
  <2> QED BY <1>2, <1>3, <2>1, <2>2, Assemble
           DEF Inv, TypeOK, LenInv, IdInv, Return, epollVars
<1>4. CASE op.operation = "close" /\ CloseFd /\ op' = Finished /\ TailCall(op.id, 0)
  <2>1. op.id \in Ids /\ 0 \in Int
    BY <1>4 DEF Inv, IdInv
  <2>2. ~registered' /\ registered' \in BOOLEAN /\ edge' \in BOOLEAN
        /\ closed' \in BOOLEAN /\ notif' = notif
    BY <1>4 DEF CloseFd
  <2> QED BY <1>1, <1>2, <1>4, <2>1, <2>2, TailCallFacts, ClearedFacts, Assemble
           DEF Inv, TypeOK
<1>5. CASE /\ stack' = Append(stack, [k |-> "abort"])
           /\ UNCHANGED <<closed, epollVars, op, reported, forfeited, hist>>
  <2> DEFINE f == [k |-> "abort"]
  <2>1. f \in Frames /\ ~Drained(f) /\ f.k # "hupEnd"
    BY NewFrames DEF Drained
  <2>2. stack' = Append(stack, f)
    BY <1>5
  <2> HIDE DEF f
  <2>3. /\ stack' \in Seq(Frames) /\ (Draining' => Draining)
        /\ (HupEnding' => HupEnding) /\ (Serving => Serving')
    BY <1>1, <2>1, <2>2, PushShape
  <2> QED BY <1>2, <1>5, <2>3, Assemble DEF Inv, TypeOK, LenInv, IdInv, Waiting, epollVars
<1> QED BY <1>3, <1>4, <1>5 DEF DoOther

LEMMA InvHup == Inv /\ (HupPlain \/ HupAll \/ HupEnd \/ HupNone) => Inv'
<1> SUFFICES ASSUME Inv, HupPlain \/ HupAll \/ HupEnd \/ HupNone PROVE Inv'
  OBVIOUS
<1>1. TypeOK /\ stack \in Seq(Frames) /\ stack # <<>> /\ Top.k \in {"hup", "hupAll", "hupEnd"}
  BY DEF Inv, TypeOK, HupPlain, HupAll, HupEnd, HupNone, TopIs
<1>2. UNCHANGED <<avail, down, closed, registered, edge, notif, skip, moved>>
  BY DEF HupPlain, HupAll, HupEnd, HupNone, streamVars, epollVars
<1>3. HupResult \in Int
  BY DEF HupResult
<1>4. ~Serves(Top)
  BY <1>1 DEF Serves
<1>5. ASSUME NEW k \in {"hupAll", "hupEnd"}, NEW r \in Int, op.id \in Ids,
             op' = Finished, CallThen([k |-> k], op.id, r)
      PROVE  Inv'
  <2> DEFINE f == [k |-> k]
  <2>1. f \in Frames /\ ~Drained(f)
    BY NewFrames DEF Drained
  <2>2. CallThen(f, op.id, r)
    BY <1>5
  <2> HIDE DEF f
  <2> QED BY <1>1, <1>2, <1>5, <2>1, <2>2, CallThenFacts, ClearedFacts, Assemble
           DEF Inv, TypeOK
<1>6. CASE HupPlain
  <2>1. op.id \in Ids
    BY <1>6 DEF Inv, IdInv, HupPlain, Plain
  <2> QED BY <1>3, <1>5, <1>6, <2>1 DEF HupPlain
<1>7. CASE HupAll
  <2>1. op.id \in Ids /\ op.lenDone \in Int
    BY <1>7 DEF Inv, TypeOK, IdInv, HupAll, BufAll, OperationInfo
  <2>2. CASE op.lenDone > 0
    BY <1>5, <1>7, <2>1, <2>2 DEF HupAll
  <2>3. CASE ~(op.lenDone > 0)
    BY <1>1, <1>2, <1>3, <1>7, <2>1, <2>3, TailCallFacts, ClearedFacts, Assemble
       DEF Inv, TypeOK, HupAll
  <2> QED BY <2>2, <2>3
<1>8. CASE HupEnd
  <2>1. HupEnding
    BY <1>1, <1>8, PoppedFacts DEF HupEnd, TopIs, HupEnding, Top
  <2>2. op.id \in Ids
    BY <2>1 DEF Inv, IdInv
  <2> QED BY <1>1, <1>2, <1>3, <1>4, <1>8, <2>2, TailCallFacts, Assemble
           DEF Inv, TypeOK, HupEnd, LenInv, Waiting, IdInv
<1>9. CASE HupNone
  <2>1. /\ stack' \in Seq(Frames) /\ (Draining' => Draining)
        /\ (HupEnding' => HupEnding) /\ (Serving => Serving')
    BY <1>1, <1>4, <1>9, PopShape DEF HupNone, Return
  <2> QED BY <1>2, <1>9, <2>1, Assemble
           DEF Inv, TypeOK, HupNone, Return, LenInv, IdInv, Waiting
<1> QED BY <1>6, <1>7, <1>8, <1>9

LEMMA InvCallbackReturn == Inv /\ CallbackReturn => Inv'
<1> SUFFICES ASSUME Inv, CallbackReturn PROVE Inv'
  OBVIOUS
<1>1. stack \in Seq(Frames) /\ stack # <<>> /\ Top.k = "user" /\ stack' = Popped
  BY DEF Inv, TypeOK, CallbackReturn, TopIs
<1>2. ~Serves(Top)
  BY <1>1 DEF Serves
<1>3. /\ stack' \in Seq(Frames) /\ (Draining' => Draining)
      /\ (HupEnding' => HupEnding) /\ (Serving => Serving')
  BY <1>1, <1>2, PopShape
<1>4. UNCHANGED <<avail, down, closed, registered, edge, notif, op, skip, moved,
                  reported, forfeited, hist>>
  BY DEF CallbackReturn, streamVars, epollVars, histVars
<1> QED BY <1>3, <1>4, Assemble DEF Inv, TypeOK, LenInv, IdInv, Waiting

-----------------------------------------------------------------------------
(***************************************************************************)
(* The kernel and the event loop.                                          *)
(***************************************************************************)

\* Steps that leave the slot, the stack and the history alone.
LEMMA InvOutside ==
  ASSUME Inv, UNCHANGED <<op, stack, moved, reported, forfeited, hist, closed>>,
         avail' \in Nat, down' \in BOOLEAN, registered' \in BOOLEAN,
         edge' \in BOOLEAN, notif' \subseteq {"RDY", "HUP"}, skip' = skip,
         registered' => Announced' \/ (registered /\ (Announced => Announced'))
  PROVE  Inv'
<1>1. TypeOK'
  BY DEF Inv, TypeOK
<1>2. LenInv' /\ IdInv'
  BY DEF Inv, LenInv, IdInv, HupEnding
<1>3. WakeInv'
  BY DEF Inv, WakeInv, Draining, Serving, Waiting
<1> QED BY <1>1, <1>2, <1>3 DEF Inv

LEMMA InvKernel ==
  ASSUME Inv, End \/ OtherEdge \/ \E n \in 1..MaxAvail : Arrive(n)
  PROVE  Inv'
<1>0. /\ avail \in Nat /\ down \in BOOLEAN /\ registered \in BOOLEAN /\ edge \in BOOLEAN
      /\ notif \subseteq {"RDY", "HUP"}
  BY DEF Inv, TypeOK
<1>1. CASE End
  BY <1>0, <1>1, InvOutside DEF End, Announced, histVars
<1>2. CASE OtherEdge
  BY <1>0, <1>2, InvOutside DEF OtherEdge, Announced, histVars, streamVars
<1>3. ASSUME NEW n \in 1..MaxAvail, Arrive(n) PROVE Inv'
  <2>1. avail + n \in Nat
    BY <1>0, FileOpAssumption
  <2> QED BY <1>0, <1>3, <2>1, InvOutside DEF Arrive, Announced, histVars
<1> QED BY <1>1, <1>2, <1>3

\* The stream's readiness is part of the mask.
LEMMA MaskFacts == Mask \subseteq {"RDY", "HUP"} /\ (avail > 0 => "RDY" \in Mask)
BY DEF Mask

LEMMA InvEPoll == Inv /\ (Add \/ Remove \/ Harvest) => Inv'
<1> SUFFICES ASSUME Inv, Add \/ Remove \/ Harvest PROVE Inv'
  OBVIOUS
<1>0. /\ avail \in Nat /\ down \in BOOLEAN /\ registered \in BOOLEAN /\ edge \in BOOLEAN
      /\ notif \subseteq {"RDY", "HUP"}
  BY DEF Inv, TypeOK
<1>1. CASE Add
  <2>1. edge' \in BOOLEAN /\ Announced'
    BY <1>1, MaskFacts DEF Add, Announced, streamVars
  <2> QED BY <1>0, <1>1, <2>1, InvOutside DEF Add, histVars, streamVars
<1>2. CASE Remove
  BY <1>0, <1>2, InvOutside DEF Remove, histVars, streamVars
<1>3. CASE Harvest
  BY <1>0, <1>3, MaskFacts, InvOutside DEF Harvest, Announced, histVars, streamVars
<1> QED BY <1>1, <1>2, <1>3

LEMMA InvDispatch == Inv /\ Dispatch => Inv'
<1> SUFFICES ASSUME Inv, Dispatch PROVE Inv'
  OBVIOUS
<1>1. /\ stack = <<>> /\ notif' = {}
      /\ UNCHANGED <<avail, down, closed, registered, edge, op, moved, reported,
                     forfeited, hist>>
  BY DEF Dispatch, streamVars, histVars
<1>2. LenInv'
  BY <1>1 DEF Inv, LenInv
<1>3. ASSUME NEW f \in Frames, f.k \in {"do", "hup"}, stack' = <<f>>
      PROVE  /\ stack' \in Seq(Frames) /\ ~Draining' /\ ~HupEnding'
             /\ f.k = "do" => Serving'
  <2>1. stack' \in Seq(Frames) /\ DOMAIN stack' = {1} /\ stack'[1] = f
    BY <1>3
  <2> QED BY <1>3, <2>1 DEF Draining, HupEnding, Serving, Drained, Serves
<1>4. CASE "RDY" \in notif /\ ~skip' /\ skip' = FALSE
           /\ stack' = <<[k |-> "do", hup |-> "HUP" \in notif]>>
  <2> DEFINE f == [k |-> "do", hup |-> "HUP" \in notif]
  <2>1. ("HUP" \in notif) \in BOOLEAN
    OBVIOUS
  <2>2. f \in Frames /\ f.k = "do"
    BY <2>1, NewFrames
  <2>3. stack' = <<f>>
    BY <1>4
  <2> HIDE DEF f
  <2>4. stack' \in Seq(Frames) /\ ~Draining' /\ ~HupEnding' /\ Serving'
    BY <1>3, <2>2, <2>3
  <2>5. TypeOK'
    BY <1>1, <1>4, <2>4 DEF Inv, TypeOK
  <2>6. IdInv' /\ WakeInv'
    BY <1>1, <1>4, <2>4 DEF Inv, IdInv, WakeInv
  <2> QED BY <1>2, <2>5, <2>6 DEF Inv
<1>5. CASE "RDY" \notin notif /\ stack' = <<[k |-> "hup"]>> /\ UNCHANGED skip
  <2> DEFINE f == [k |-> "hup"]
  <2>1. f \in Frames /\ f.k = "hup" /\ stack' = <<f>>
    BY <1>5, NewFrames
  <2> HIDE DEF f
  <2>2. stack' \in Seq(Frames) /\ ~Draining' /\ ~HupEnding'
    BY <1>3, <2>1
  <2>3. ~Serving
    BY <1>1 DEF Serving
  <2>4. TypeOK'
    BY <1>1, <1>5, <2>2 DEF Inv, TypeOK
  <2>5. IdInv'
    BY <1>1, <2>2 DEF Inv, IdInv
  <2>6. Announced => Announced'
    BY <1>1, <1>5 DEF Announced
  <2>7. WakeInv'
    BY <1>1, <1>5, <2>2, <2>3, <2>6 DEF Inv, WakeInv, Waiting
  <2> QED BY <1>2, <2>4, <2>5, <2>7 DEF Inv
<1> QED BY <1>4, <1>5 DEF Dispatch

-----------------------------------------------------------------------------
LEMMA InvInit == Init => Inv
<1> SUFFICES ASSUME Init PROVE Inv
  OBVIOUS
<1>1. stack \in Seq(Frames) /\ hist \in Seq(OpHistory) /\ Len(hist) = 0
  BY EmptySeq DEF Init
<1>2. op \in OperationInfo
  BY DEF Init, OperationInfo
<1>3. TypeOK
  <2>1. avail \in Nat /\ moved \in Nat /\ reported \in Nat /\ forfeited \in Nat
    BY DEF Init
  <2>2. down \in BOOLEAN /\ closed \in BOOLEAN /\ registered \in BOOLEAN
        /\ edge \in BOOLEAN /\ skip \in BOOLEAN
    BY DEF Init
  <2>3. notif \subseteq {"RDY", "HUP"}
    BY DEF Init
  <2>4. Len(hist) <= MaxOps
    BY <1>1, FileOpAssumption
  <2> QED BY <1>1, <1>2, <2>1, <2>2, <2>3, <2>4 DEF TypeOK
<1>4. LenInv
  BY DEF Init, LenInv, Plain, All, BufAll
<1>5. IdInv /\ WakeInv
  BY DEF Init, IdInv, WakeInv, HupEnding
<1> QED BY <1>3, <1>4, <1>5 DEF Inv

LEMMA InvNext == Inv /\ [Next]_vars => Inv'
<1> SUFFICES ASSUME Inv, [Next]_vars PROVE Inv'
  OBVIOUS
<1>1. CASE Kernel
  BY <1>1, InvKernel DEF Kernel
<1>2. CASE Start
  <2>1. Repeats \subseteq BOOLEAN
    BY DEF Repeats
  <2>2. "rw" \in Plain /\ "sr" \in Plain /\ "rwv" \in Plain
    BY DEF Plain
  <2> QED BY <1>2, <2>1, <2>2, InvStartWait, InvStartPlain, InvStartSendFile,
             InvStartAll, InvStartVAll, InvStartClose DEF Start, StartV
<1>3. CASE Cancel \/ Add \/ Remove
  BY <1>3, InvCancel, InvEPoll
<1>4. CASE Library
  BY <1>4, InvTry, InvTryAll, InvDoPlain, InvDoWait, InvDoRepeat, InvDoAll,
     InvDoOther, InvHup, InvEPoll, InvDispatch DEF Library
<1>5. CASE CallbackReturn
  BY <1>5, InvCallbackReturn
<1>6. CASE UNCHANGED vars
  <2>1. TypeOK' /\ LenInv'
    BY <1>6 DEF Inv, TypeOK, LenInv, vars
  <2>2. IdInv' /\ WakeInv'
    BY <1>6 DEF Inv, IdInv, WakeInv, HupEnding, Draining, Serving, Announced, Waiting, vars
  <2> QED BY <2>1, <2>2 DEF Inv
<1> QED BY <1>1, <1>2, <1>3, <1>4, <1>5, <1>6 DEF Next, User

\* Type correctness of the slot: op, the calls in progress and the byte
\* counters keep their types in every interleaving of user, library and kernel.
THEOREM TypeCorrect == Spec => []TypeOK
<1>1. Inv => TypeOK
  BY DEF Inv
<1> QED BY <1>1, InvInit, InvNext, PTL DEF Spec

\* No lost wakeup: for every mix of operations, nested starts, repeats,
\* cancellations and starts on a busy slot, on both slots and on every kind
\* of stream, no operation sleeps in epoll_wait while the stream is ready,
\* provided that no sendFileFrom reaches the end of its file.  It is false
\* without that: doOperation takes the short transfer of a file's tail for a
\* full stream.
THEOREM NoLostWakeup ==
  ASSUME "tail" \notin Habits
  PROVE  Spec => []NoLostData
<1>1. Inv => NoLostData
  <2> SUFFICES ASSUME Inv, Idle, registered, Waiting PROVE avail = 0
    BY DEF NoLostData
  <2>1. ~Serving
    BY DEF Idle, Serving
  <2>2. Announced
    BY <2>1 DEF Inv, WakeInv
  <2> QED BY <2>2 DEF Announced, Idle, Inv, TypeOK
<1> QED BY <1>1, InvInit, InvNext, PTL DEF Spec
=============================================================================
