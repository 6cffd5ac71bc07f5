--------------------------- MODULE FileOpAnswers ---------------------------
(***************************************************************************)
(* What FileOp does with callbacks and bytes, proved: which callback is    *)
(* called how often and with what, and where the bytes are.  Every step is *)
(* first reduced to one of the moves below, which know of the kernel only  *)
(* whether the stream has ended; the invariants are then proved from the   *)
(* moves.                                                                  *)
(***************************************************************************)
EXTENDS FileOpProofs

\* A synchronous attempt in progress.
Tries(f) == f.k \in {"try", "tryAll"}

\* The bytes that a callback told r is told of, and those that the slot and a
\* synchronous attempt have done and not reported.
Gain(r) == IF r > 0 THEN r ELSE 0
SlotDone == IF op.operation \in All THEN op.lenDone ELSE 0
FrameDone(f) == IF f.k = "tryAll" THEN f.br ELSE 0

\* A call of the library is on top of the stack: an attempt, or another one.
InAttempt == stack # <<>> /\ Tries(Top)
InCall == stack # <<>> /\ ~Tries(Top)

SameBooks == UNCHANGED <<reported, forfeited, hist>>

\* Nothing is left to read, or nobody is left to write to.
Ended == closed \/ (down /\ (IsWrite \/ avail = 0))

\* A callback that is told r after the step is told the truth about the end.
Truth(r) == r = HupResult => Ended'

\* doOperation is running and was told of a hangup.
KnowsHup(f) == f.k \in {"do", "rest", "repeat"} /\ f.hup

-----------------------------------------------------------------------------
(***************************************************************************)
(* The moves.                                                              *)
(***************************************************************************)

\* Nothing happens here: a step of the kernel or of epoll.
Quiet == UNCHANGED <<op, stack, moved, reported, forfeited, hist>>

\* A call or a callback returns; an *All operation may have got some bytes.
Returns ==
  /\ InCall /\ stack' = Popped /\ SameBooks
  /\ \/ UNCHANGED <<op, moved>>
     \/ \E d \in Nat : /\ op.operation \in All
                       /\ op' = [op EXCEPT !.lenDone = d]
                       /\ moved' + op.lenDone = moved + d

\* An attempt would block, and leaves its operation in the slot.
Parks ==
  /\ InAttempt /\ stack' = Popped /\ SameBooks
  /\ \/ /\ Top.k = "try"
        /\ op' = addRWOp(Top.o, Top.len, 0, Top.repeat, Top.id)
     \/ /\ Top.k = "tryAll" /\ (Free \/ Top.o = "rwAll")
        /\ op' = addRWOp(Top.o, Top.len, Top.br, FALSE, Top.id)
  /\ moved' = moved

\* An attempt would block, and throws because the slot is busy.
Refuses ==
  /\ InAttempt /\ Top.k = "tryAll" /\ ~Free
  /\ stack' = Popped
  /\ hist' = [hist EXCEPT ![Top.id].cancelled = TRUE]
  /\ UNCHANGED <<op, moved, reported, forfeited>>

\* doOperation goes on.
Loops ==
  /\ InCall /\ SameBooks /\ UNCHANGED <<op, moved>>
  /\ \E f \in Frames : /\ f.k \in {"do", "rest"} /\ stack' = Replaced(f)
                       /\ KnowsHup(f) => KnowsHup(Top)

\* An attempt gets some bytes and goes on.
Gains ==
  /\ InAttempt /\ Top.k = "tryAll" /\ SameBooks /\ op' = op
  /\ \E d \in Nat : /\ moved' = moved + d
                    /\ stack' = Replaced([Top EXCEPT !.br = @ + d])

\* An attempt ends with the callback, or calls it and goes on.
AnswersTry ==
  \E r \in Int :
    /\ InAttempt /\ TailCall(Top.id, r)
    /\ ~(Top.k = "try" /\ Top.repeat /\ r > 0)
    /\ Truth(r)
    /\ op' = op
    /\ moved' + FrameDone(Top) = moved + Gain(r)

RepeatsTry ==
  \E r \in Int :
    /\ r > 0 /\ InAttempt /\ Top.k = "try" /\ Top.repeat
    /\ CallThen(Top, Top.id, r)
    /\ op' = op
    /\ moved' = moved + r

\* The operation in the slot ends with the callback.
AnswersSlot ==
  \E r \in Int :
    /\ InCall /\ op.operation # "none"
    /\ ~(op.operation \in Plain /\ op.repeat /\ r > 0)
    /\ \/ Truth(r)
       \/ op.operation \in {"wait", "close"}
       \/ Top.k \in {"hup", "hupAll"} \/ (Top.k = "repeat" /\ Top.hup)
    /\ op'.operation = "none" /\ op'.id = op.id
    /\ moved' + SlotDone = moved + Gain(r)
    /\ \/ TailCall(op.id, r)
       \/ /\ Top.k \in {"hup", "hupAll"}
          /\ \E k \in {"hupAll", "hupEnd"} :
               /\ k = "hupEnd" => op.operation \in BufAll
               /\ CallThen([k |-> k], op.id, r)

\* The repeated operation in the slot calls its callback and stays there.
RepeatsSlot ==
  \E r \in Int, f \in Frames :
    /\ r > 0 /\ InCall /\ op.operation \in Plain /\ op.repeat
    /\ f.k = "repeat" /\ CallThen(f, op.id, r)
    /\ KnowsHup(f) => KnowsHup(Top)
    /\ op' = op
    /\ moved' = moved + r

\* handleHup calls the callback a second time.
EndsAgain ==
  /\ TopIs("hupEnd") /\ TailCall(op.id, HupResult) /\ UNCHANGED <<op, moved>>

\* The user starts an operation: in the slot, or with an attempt.
Stores ==
  \E o \in Ops, len \in Nat, rep \in Repeats :
    /\ MayStart(o) /\ (Free \/ "busy" \in Habits)
    /\ rep => o \in Plain
    /\ Started(o, rep) /\ op' = addRWOp(o, len, 0, rep, NewId)
    /\ stack' = stack \/ stack' = Append(stack, [k |-> "do", hup |-> FALSE])
    /\ UNCHANGED <<moved, reported, forfeited>>

Attempts ==
  \E o \in Ops, rep \in Repeats, f \in Frames :
    /\ MayStart(o) /\ (Free \/ "busy" \in Habits)
    /\ rep => o \in Plain
    /\ Tries(f) /\ f.o = o /\ f.id = NewId
    /\ f.k = "try" => f.repeat = rep
    /\ f.k = "tryAll" => f.br = 0
    /\ Started(o, rep) /\ stack' = Append(stack, f)
    /\ UNCHANGED <<op, moved, reported, forfeited>>

\* close() that closes at once.
ClosesNow ==
  /\ MayStart("close")
  /\ stack' = Append(stack, UserFrame(NewId, 0))
  /\ hist' = Append(hist, [o |-> "close", repeat |-> FALSE, finals |-> 1,
                           cancelled |-> FALSE, late |-> FALSE])
  /\ UNCHANGED <<op, moved, reported, forfeited>>

\* dispatch() calls doOperation or handleHup, or assert(false) stops the program.
Enters ==
  /\ ~InAttempt /\ SameBooks /\ UNCHANGED <<op, moved>>
  /\ \E f \in Frames : /\ f.k \in {"do", "hup", "abort"}
                       /\ f.k = "hup" => notif # {} /\ "RDY" \notin notif
                       /\ KnowsHup(f) => "HUP" \in notif
                       /\ stack' = Append(stack, f)

Move ==
  \/ Quiet \/ Returns \/ Parks \/ Refuses \/ Loops \/ Gains
  \/ AnswersTry \/ RepeatsTry \/ AnswersSlot \/ RepeatsSlot \/ EndsAgain
  \/ Stores \/ Attempts \/ ClosesNow \/ Cancel \/ Enters

-----------------------------------------------------------------------------
(***************************************************************************)
(* Every step is a move.                                                   *)
(***************************************************************************)
LEMMA MovedBy ==
  ASSUME TypeOK, NEW r \in Int, Transfer(r)
  PROVE  moved \in Nat /\ moved' = moved + Gain(r) /\ Gain(r) \in Nat
BY DEF TypeOK, Transfer, Gain

\* A system call that returns HupResult has found the end.
LEMMA SysTells ==
  ASSUME TypeOK, NEW n \in Nat \ {0}, Transfer(Sys(n)), closed' = closed
  PROVE  /\ Truth(Sys(n))
         /\ \A r \in Nat \ {0} : Truth(r)
<1>1. avail \in Nat /\ down \in BOOLEAN /\ closed \in BOOLEAN /\ IsWrite \in BOOLEAN
  BY FileOpAssumption DEF TypeOK
<1>2. \A r \in Nat \ {0} : r # HupResult
  BY DEF HupResult
<1>3. ASSUME Sys(n) = HupResult PROVE Ended /\ ~(Sys(n) > 0)
  <2>1. ~(Sys(n) > 0)
    BY <1>3 DEF HupResult
  <2>2. CASE closed \/ (IsWrite /\ down)
    BY <2>1, <2>2 DEF Ended
  <2>3. CASE ~closed /\ ~(IsWrite /\ down) /\ avail > 0
    <3>1. Sys(n) = IF n < avail THEN n ELSE avail
      BY <1>1, <2>3 DEF Sys
    <3> QED BY <1>1, <2>1, <2>3, <3>1
  <2>4. CASE ~closed /\ ~(IsWrite /\ down) /\ avail = 0
    <3>1. CASE down
      BY <1>1, <2>1, <2>4, <3>1 DEF Ended
    <3>2. CASE ~down
      <4>1. Sys(n) = EAGAIN
        BY <1>1, <2>4, <3>2 DEF Sys
      <4> QED BY <1>3, <4>1 DEF EAGAIN, HupResult
    <3> QED BY <3>1, <3>2
  <2> QED BY <1>1, <2>2, <2>3, <2>4
<1>4. Truth(Sys(n))
  <2> SUFFICES ASSUME Sys(n) = HupResult PROVE Ended'
    BY DEF Truth
  <2>1. Ended /\ avail' = avail /\ down' = down
    BY <1>3 DEF Transfer
  <2> QED BY <2>1 DEF Ended
<1> QED BY <1>2, <1>4 DEF Truth

\* So has one of an operation's calls: sendfile's 0 at the end of the file is
\* not what a writer is told of a hangup.
LEMMA ResultTells ==
  ASSUME TypeOK, NEW o, NEW n \in Nat \ {0}, NEW r \in Results(o, n),
         Transfer(r), closed' = closed
  PROVE  Truth(r)
<1>1. CASE r = Sys(n)
  BY <1>1, SysTells
<1>2. CASE "tail" \in Habits /\ r \in {0} \cup 1..(Sys(n) - 1)
  <2>1. IsWrite /\ Sys(n) \in Int
    BY <1>2, FileOpAssumption, SysFacts
  <2>2. r # HupResult
    BY <1>2, <2>1 DEF HupResult
  <2> QED BY <2>2 DEF Truth
<1> QED BY <1>1, <1>2 DEF Results

LEMMA TryMoves == Inv /\ TryStep => Parks \/ AnswersTry \/ RepeatsTry
<1> SUFFICES ASSUME Inv, TryStep PROVE Parks \/ AnswersTry \/ RepeatsTry
  OBVIOUS
<1>1. stack \in Seq(Frames) /\ stack # <<>> /\ Top.k = "try" /\ TypeOK
  BY DEF Inv, TypeOK, TryStep, TopIs
<1>2. Top.len \in Nat \ {0} /\ InAttempt
  BY <1>1, PoppedFacts, FrameFacts DEF InAttempt, Tries
<1>0. PICK r \in Results(Top.o, Top.len) :
        /\ Transfer(r)
        /\ \/ /\ r = EAGAIN
              /\ op' = addRWOp(Top.o, Top.len, 0, Top.repeat, Top.id)
              /\ Return
           \/ ~(Top.repeat /\ r > 0) /\ TailCall(Top.id, r) /\ UNCHANGED op
           \/ r > 0 /\ Top.repeat /\ CallThen(Top, Top.id, r) /\ UNCHANGED op
  BY Zenon DEF TryStep
<1>3. Transfer(r) /\ r \in Int
  BY <1>0, <1>1, <1>2, ResultFacts
<1>4. moved \in Nat /\ moved' = moved + Gain(r)
  BY <1>1, <1>3, MovedBy
<1>5. FrameDone(Top) = 0
  BY <1>1 DEF FrameDone
<1>6. /\ r = EAGAIN => Gain(r) = 0
      /\ r > 0 => Gain(r) = r
  BY <1>3 DEF EAGAIN, Gain
<1>7. CASE r = EAGAIN /\ op' = addRWOp(Top.o, Top.len, 0, Top.repeat, Top.id) /\ Return
  <2>1. moved' = moved
    BY <1>4, <1>6, <1>7
  <2> QED BY <1>1, <1>2, <1>7, <2>1 DEF Parks, Return, SameBooks
<1>8. CASE ~(Top.repeat /\ r > 0) /\ TailCall(Top.id, r) /\ UNCHANGED op
  <2>1. moved' + FrameDone(Top) = moved + Gain(r)
    BY <1>4, <1>5 DEF Gain
  <2>2. Truth(r)
    BY <1>1, <1>2, <1>3, ResultTells DEF TryStep
  <2> QED BY <1>2, <1>3, <1>8, <2>1, <2>2 DEF AnswersTry
<1>9. CASE r > 0 /\ Top.repeat /\ CallThen(Top, Top.id, r) /\ UNCHANGED op
  <2>1. moved' = moved + r
    BY <1>4, <1>6, <1>9
  <2> QED BY <1>1, <1>2, <1>3, <1>9, <2>1 DEF RepeatsTry
<1> QED BY <1>0, <1>7, <1>8, <1>9

LEMMA TryAllMoves == Inv /\ TryAllStep => Parks \/ Refuses \/ Gains \/ AnswersTry
<1> SUFFICES ASSUME Inv, TryAllStep PROVE Parks \/ Refuses \/ Gains \/ AnswersTry
  OBVIOUS
<1> DEFINE n == Top.len - Top.br
           r == Sys(n)
           x == IF Top.br = 0 THEN r ELSE Top.br
<1>1. stack \in Seq(Frames) /\ stack # <<>> /\ Top.k = "tryAll" /\ TypeOK
  BY DEF Inv, TypeOK, TryAllStep, TopIs
<1>2. Top.len \in Nat \ {0} /\ Top.br \in Nat /\ InAttempt
  BY <1>1, PoppedFacts, FrameFacts DEF InAttempt, Tries
<1>3. FrameDone(Top) = Top.br
  BY <1>1 DEF FrameDone
<1>4. CASE Top.br >= Top.len /\ TailCall(Top.id, Top.br) /\ UNCHANGED <<streamVars, moved, op>>
  <2>1. moved' + FrameDone(Top) = moved + Gain(Top.br)
    BY <1>2, <1>3, <1>4 DEF Gain
  <2>2. Truth(Top.br)
    BY <1>2, <1>4 DEF Truth, HupResult
  <2> QED BY <1>1, <1>2, <1>4, <2>1, <2>2 DEF AnswersTry
<1>5. CASE Top.br < Top.len /\ Transfer(r)
  <2>1. n \in Nat \ {0}
    BY <1>2, <1>5
  <2>2. r \in Int
    BY <1>1, <2>1, SysFacts
  <2>3. moved \in Nat /\ moved' = moved + Gain(r)
    BY <1>1, <1>5, <2>2, MovedBy
  <2>4. /\ r = EAGAIN \/ r \in {0, -1} => Gain(r) = 0
        /\ r > 0 => Gain(r) = r
    BY <2>2 DEF EAGAIN, Gain
  <2>5. CASE /\ r = EAGAIN /\ (Free \/ Top.o = "rwAll") /\ Return
             /\ op' = addRWOp(Top.o, Top.len, Top.br, FALSE, Top.id)
    <3>1. moved' = moved
      BY <2>3, <2>4, <2>5
    <3> QED BY <1>1, <1>2, <2>5, <3>1 DEF Parks, Return, SameBooks
  <2>6. CASE /\ r = EAGAIN /\ ~Free /\ stack' = Popped
             /\ UNCHANGED <<op, reported, forfeited>>
             /\ hist' = [hist EXCEPT ![Top.id].cancelled = TRUE]
    <3>1. moved' = moved
      BY <2>3, <2>4, <2>6
    <3> QED BY <1>1, <1>2, <2>6, <3>1 DEF Refuses
  <2>7. CASE r \in {0, -1} /\ TailCall(Top.id, x) /\ UNCHANGED op
    <3>1. moved' = moved
      BY <2>3, <2>4, <2>7
    <3>2. x \in Int /\ Gain(x) = Top.br
      BY <1>2, <2>7 DEF Gain
    <3>3. moved' + FrameDone(Top) = moved + Gain(x)
      BY <1>3, <3>1, <3>2
    <3>4. Truth(r) /\ (Top.br # 0 => Truth(Top.br))
      <4>1. closed' = closed
        BY DEF TryAllStep
      <4> QED BY <1>1, <1>2, <1>5, <2>1, <4>1, SysTells
    <3>5. Truth(x)
      BY <3>4
    <3> HIDE DEF x
    <3> QED BY <1>1, <1>2, <2>7, <3>2, <3>3, <3>5 DEF AnswersTry
  <2>8. CASE /\ r > 0 /\ stack' = Replaced([Top EXCEPT !.br = @ + r])
             /\ UNCHANGED <<op, reported, forfeited, hist>>
    <3>1. moved' = moved + r /\ r \in Nat
      BY <2>2, <2>3, <2>4, <2>8
    <3> HIDE DEF r
    <3> QED BY <1>1, <1>2, <2>8, <3>1 DEF Gains, SameBooks
  <2>9. ~(Top.br >= Top.len)
    BY <1>2, <1>5
  <2> QED BY <2>9, <2>5, <2>6, <2>7, <2>8, Zenon DEF TryAllStep
<1> QED BY <1>4, <1>5 DEF TryAllStep

LEMMA DoPlainMoves == Inv /\ DoPlain => Returns \/ AnswersSlot \/ RepeatsSlot
<1> SUFFICES ASSUME Inv, DoPlain PROVE Returns \/ AnswersSlot \/ RepeatsSlot
  OBVIOUS
<1>0. PICK r \in Results(op.operation, op.len) :
        LET short == Short(r, op.len)
            f == [k |-> "repeat", o |-> op.operation, short |-> short, hup |-> Top.hup]
        IN
        /\ Transfer(r)
        /\ \/ r = EAGAIN /\ Return /\ UNCHANGED <<op, skip>>
           \/ /\ r \in {0, -1} \/ (r > 0 /\ ~op.repeat)
              /\ op' = Finished /\ TailCall(op.id, r)
           \/ r > 0 /\ op.repeat /\ CallThen(f, op.id, r) /\ UNCHANGED <<op, skip>>
  BY Zenon DEF DoPlain
<1> DEFINE short == Short(r, op.len)
           f == [k |-> "repeat", o |-> op.operation, short |-> short, hup |-> Top.hup]
<1>1. /\ stack \in Seq(Frames) /\ stack # <<>> /\ Top.k = "do" /\ TypeOK
      /\ op \in OperationInfo /\ op.operation \in Plain
  BY DEF Inv, TypeOK, DoPlain, TopIs
<1>2. op.len \in Nat \ {0} /\ op.operation # "none" /\ op.operation \notin All
  BY <1>1 DEF Inv, LenInv, OperationInfo, Plain, All, BufAll
<1>3. InCall /\ SlotDone = 0
  BY <1>1, <1>2 DEF InCall, Tries, SlotDone
<1>4. Transfer(r) /\ r \in Int
  BY <1>0, <1>1, <1>2, ResultFacts
<1>5. moved \in Nat /\ moved' = moved + Gain(r)
  BY <1>1, <1>4, MovedBy
<1>6. /\ r = EAGAIN => Gain(r) = 0
      /\ r \in {0, -1} => ~(r > 0)
      /\ r > 0 => Gain(r) = r
  BY <1>4 DEF EAGAIN, Gain
<1>7. CASE r = EAGAIN /\ Return /\ UNCHANGED <<op, skip>>
  <2>1. moved' = moved
    BY <1>5, <1>6, <1>7
  <2> QED BY <1>3, <1>7, <2>1 DEF Returns, Return, SameBooks
<1>8. CASE /\ r \in {0, -1} \/ (r > 0 /\ ~op.repeat)
           /\ op' = Finished /\ TailCall(op.id, r)
  <2>1. op'.operation = "none" /\ op'.id = op.id
    BY <1>1, <1>8, FinishedFacts
  <2>2. moved' + SlotDone = moved + Gain(r)
    BY <1>3, <1>5 DEF Gain
  <2>3. ~(op.operation \in Plain /\ op.repeat /\ r > 0)
    BY <1>6, <1>8
  <2>4. Truth(r)
    BY <1>1, <1>2, <1>4, ResultTells DEF DoPlain
  <2> QED BY <1>2, <1>3, <1>4, <1>8, <2>1, <2>2, <2>3, <2>4 DEF AnswersSlot
<1>9. CASE r > 0 /\ op.repeat /\ CallThen(f, op.id, r) /\ UNCHANGED <<op, skip>>
  <2>1. moved' = moved + r
    BY <1>5, <1>6, <1>9
  <2>2. f.k = "repeat" /\ f \in Frames
    <3>1. short \in BOOLEAN /\ Top.hup \in BOOLEAN
      BY <1>1, PoppedFacts, FrameFacts DEF Short
    <3> QED BY <1>1, <3>1, NewFrames
  <2>3. KnowsHup(f) => KnowsHup(Top)
    BY <1>1 DEF KnowsHup
  <2> HIDE DEF f
  <2> QED BY <1>1, <1>3, <1>4, <1>9, <2>1, <2>2, <2>3 DEF RepeatsSlot
<1> QED BY <1>0, <1>7, <1>8, <1>9, Zenon

LEMMA DoWaitMoves == Inv /\ DoWait => AnswersSlot
<1> SUFFICES ASSUME Inv, DoWait PROVE AnswersSlot
  OBVIOUS
<1>1. stack # <<>> /\ Top.k = "do" /\ TypeOK /\ op \in OperationInfo
      /\ op.operation = "wait"
  BY DEF Inv, TypeOK, DoWait, TopIs
<1>2. InCall /\ SlotDone = 0 /\ op.operation \notin Plain
  BY <1>1 DEF InCall, Tries, SlotDone, All, BufAll, Plain
<1>3. op'.operation = "none" /\ op'.id = op.id
  BY <1>1, FinishedFacts DEF DoWait
<1>4. moved' + SlotDone = moved + Gain(0) /\ 0 \in Int
  BY <1>1, <1>2 DEF DoWait, Gain, TypeOK
<1> QED BY <1>1, <1>2, <1>3, <1>4 DEF AnswersSlot, DoWait

LEMMA DoRepeatMoves == Inv /\ DoRepeat => Returns \/ AnswersSlot \/ Loops
<1> SUFFICES ASSUME Inv, DoRepeat PROVE Returns \/ AnswersSlot \/ Loops
  OBVIOUS
<1>1. stack \in Seq(Frames) /\ stack # <<>> /\ Top.k = "repeat" /\ TypeOK
      /\ op \in OperationInfo
  BY DEF Inv, TypeOK, DoRepeat, TopIs
<1>2. Top.o \in Plain /\ Top.hup \in BOOLEAN
  BY <1>1, PoppedFacts, FrameFacts
<1>3. InCall /\ moved' = moved /\ moved \in Nat
  BY <1>1 DEF InCall, Tries, DoRepeat, TypeOK
<1>4. CASE op.operation = Top.o /\ Top.hup /\ op' = Finished /\ TailCall(op.id, HupResult)
  <2>1. op'.operation = "none" /\ op'.id = op.id /\ op.operation # "none" /\ SlotDone = 0
    BY <1>1, <1>2, <1>4, FinishedFacts DEF Plain, SlotDone, All, BufAll
  <2>2. HupResult \in Int /\ ~(HupResult > 0)
    BY DEF HupResult
  <2>3. moved' + SlotDone = moved + Gain(HupResult)
    BY <1>3, <2>1, <2>2 DEF Gain
  <2> QED BY <1>1, <1>3, <1>4, <2>1, <2>2, <2>3 DEF AnswersSlot
<1>5. CASE Return /\ UNCHANGED op
  BY <1>3, <1>5 DEF Returns, Return, SameBooks
<1>6. ASSUME NEW f \in Frames, f.k \in {"do", "rest"}, stack' = Replaced(f),
             KnowsHup(f) => KnowsHup(Top), UNCHANGED <<op, reported, forfeited, hist>>
      PROVE  Loops
  BY <1>3, <1>6 DEF Loops, SameBooks
<1>7. CASE stack' = Replaced([k |-> "do", hup |-> FALSE])
           /\ UNCHANGED <<op, skip, reported, forfeited, hist>>
  <2>1. [k |-> "do", hup |-> FALSE] \in Frames
    BY NewFrames
  <2>2. ~KnowsHup([k |-> "do", hup |-> FALSE])
    BY DEF KnowsHup
  <2> QED BY <1>6, <1>7, <2>1, <2>2
<1>8. CASE stack' = Replaced([k |-> "rest", hup |-> Top.hup])
           /\ UNCHANGED <<op, reported, forfeited, hist>>
  <2>1. [k |-> "rest", hup |-> Top.hup] \in Frames
    BY <1>2, NewFrames
  <2>2. KnowsHup([k |-> "rest", hup |-> Top.hup]) => KnowsHup(Top)
    BY <1>1 DEF KnowsHup
  <2> QED BY <1>6, <1>8, <2>1, <2>2
<1> QED BY <1>4, <1>5, <1>7, <1>8 DEF DoRepeat

LEMMA DoAllMoves == Inv /\ DoAll => Returns \/ AnswersSlot
<1> SUFFICES ASSUME Inv, DoAll PROVE Returns \/ AnswersSlot
  OBVIOUS
<1> DEFINE n == op.len - op.lenDone
           r == Sys(n)
           done == op.lenDone + r
           x == IF op.lenDone = 0 THEN r ELSE op.lenDone
<1>1. /\ stack # <<>> /\ Top.k \in {"do", "rest"} /\ TypeOK
      /\ op \in OperationInfo /\ op.operation \in All
  BY DEF Inv, TypeOK, DoAll, AtRest, TopIs
<1>2. op.len \in Nat /\ op.lenDone \in Nat /\ n \in Nat \ {0}
  BY <1>1 DEF Inv, LenInv, OperationInfo
<1>3. /\ InCall /\ SlotDone = op.lenDone
      /\ op.operation # "none" /\ op.operation \notin Plain
  BY <1>1 DEF InCall, Tries, SlotDone, All, BufAll, Plain
<1>4. Transfer(r) /\ r \in Int
  BY <1>1, <1>2, SysFacts DEF DoAll
<1>5. moved \in Nat /\ moved' = moved + Gain(r)
  BY <1>1, <1>4, MovedBy
<1>6. /\ r = EAGAIN \/ r \in {0, -1} => Gain(r) = 0
      /\ r > 0 => Gain(r) = r /\ done \in Nat /\ Gain(done) = done
  BY <1>2, <1>4 DEF EAGAIN, Gain
<1>7. closed' = closed
  BY DEF DoAll
<1>8. CASE r = EAGAIN /\ Return /\ UNCHANGED op
  <2>1. moved' = moved
    BY <1>5, <1>6, <1>8
  <2> QED BY <1>3, <1>8, <2>1 DEF Returns, Return, SameBooks
<1>9. CASE r \in {0, -1} /\ op' = Finished /\ TailCall(op.id, x)
  <2>1. op'.operation = "none" /\ op'.id = op.id
    BY <1>1, <1>9, FinishedFacts
  <2>2. x \in Int /\ Gain(x) = op.lenDone
    BY <1>2, <1>9 DEF Gain
  <2>3. moved' + SlotDone = moved + Gain(x)
    BY <1>2, <1>3, <1>5, <1>6, <1>9, <2>2
  <2>4. Truth(r) /\ (op.lenDone # 0 => Truth(op.lenDone))
    BY <1>1, <1>2, <1>4, <1>7, SysTells
  <2>5. Truth(x)
    BY <2>4
  <2> HIDE DEF x
  <2> QED BY <1>3, <1>9, <2>1, <2>2, <2>3, <2>5 DEF AnswersSlot
<1>10. CASE r > 0 /\ op' = [Finished EXCEPT !.lenDone = done] /\ TailCall(op.id, done)
  <2>1. done \in Nat /\ done \in Int
    BY <1>6, <1>10
  <2>2. op'.operation = "none" /\ op'.id = op.id
    BY <1>1, <1>10, <2>1, FinishedFacts
  <2>3. moved' + SlotDone = moved + Gain(done)
    BY <1>2, <1>3, <1>4, <1>5, <1>6, <1>10
  <2>4. done # 0
    BY <1>2, <1>4, <1>10
  <2>5. Truth(done)
    BY <1>1, <1>2, <1>4, <1>7, <2>1, <2>4, SysTells
  <2> HIDE DEF done
  <2> QED BY <1>3, <1>10, <2>1, <2>2, <2>3, <2>5 DEF AnswersSlot
<1>11. CASE r > 0 /\ op' = [op EXCEPT !.lenDone = done] /\ Return
  <2>1. done \in Nat /\ moved' + op.lenDone = moved + done
    BY <1>2, <1>4, <1>5, <1>6, <1>11
  <2> HIDE DEF done
  <2> QED BY <1>1, <1>3, <1>11, <2>1 DEF Returns, Return, SameBooks
<1> QED BY <1>8, <1>9, <1>10, <1>11, Zenon DEF DoAll

LEMMA DoOtherMoves == Inv /\ DoOther => Returns \/ AnswersSlot \/ Enters
<1> SUFFICES ASSUME Inv, DoOther PROVE Returns \/ AnswersSlot \/ Enters
  OBVIOUS
<1>1. stack # <<>> /\ Top.k \in {"do", "rest"} /\ TypeOK /\ op \in OperationInfo
  BY DEF Inv, TypeOK, DoOther, AtRest, TopIs
<1>2. InCall /\ ~InAttempt /\ moved' = moved /\ moved \in Nat
  BY <1>1 DEF InCall, InAttempt, Tries, DoOther, TypeOK
<1>3. CASE Return /\ UNCHANGED <<closed, epollVars, op>>
  BY <1>2, <1>3 DEF Returns, Return, SameBooks
<1>4. CASE op.operation = "close" /\ op' = Finished /\ TailCall(op.id, 0)
  <2>1. op'.operation = "none" /\ op'.id = op.id /\ SlotDone = 0 /\ op.operation \notin Plain
    BY <1>1, <1>4, FinishedFacts DEF SlotDone, All, BufAll, Plain
  <2>2. moved' + SlotDone = moved + Gain(0) /\ 0 \in Int
    BY <1>2, <2>1 DEF Gain
  <2> QED BY <1>2, <1>4, <2>1, <2>2 DEF AnswersSlot
<1>5. CASE stack' = Append(stack, [k |-> "abort"])
           /\ UNCHANGED <<closed, epollVars, op, reported, forfeited, hist>>
  <2>1. [k |-> "abort"] \in Frames /\ ~KnowsHup([k |-> "abort"])
    BY NewFrames DEF KnowsHup
  <2> QED BY <1>2, <1>5, <2>1 DEF Enters, SameBooks
<1> QED BY <1>3, <1>4, <1>5 DEF DoOther

LEMMA HupMoves ==
  Inv /\ (HupPlain \/ HupAll \/ HupEnd \/ HupNone) => Returns \/ AnswersSlot \/ EndsAgain
<1> SUFFICES ASSUME Inv, HupPlain \/ HupAll \/ HupEnd \/ HupNone
             PROVE  Returns \/ AnswersSlot \/ EndsAgain
  OBVIOUS
<1>1. /\ stack # <<>> /\ Top.k \in {"hup", "hupAll", "hupEnd"} /\ TypeOK
      /\ op \in OperationInfo
  BY DEF Inv, TypeOK, HupPlain, HupAll, HupEnd, HupNone, TopIs
<1>2. InCall /\ moved' = moved /\ moved \in Nat
  BY <1>1 DEF InCall, Tries, HupPlain, HupAll, HupEnd, HupNone, TypeOK
<1>3. HupResult \in Int /\ ~(HupResult > 0) /\ Gain(HupResult) = 0
  BY DEF HupResult, Gain
<1>4. op' = Finished => op'.operation = "none" /\ op'.id = op.id
  BY <1>1, FinishedFacts
<1>5. CASE HupPlain
  <2>1. op.operation \in Plain /\ op' = Finished /\ Top.k = "hup"
        /\ CallThen([k |-> "hupAll"], op.id, HupResult)
    BY <1>5 DEF HupPlain, TopIs
  <2>2. SlotDone = 0 /\ op.operation # "none"
    BY <2>1 DEF SlotDone, Plain, All, BufAll
  <2>3. moved' + SlotDone = moved + Gain(HupResult)
    BY <1>2, <1>3, <2>2
  <2> QED BY <1>2, <1>3, <1>4, <2>1, <2>2, <2>3 DEF AnswersSlot
<1>6. CASE HupAll
  <2>1. op.operation \in BufAll /\ op' = Finished /\ Top.k \in {"hup", "hupAll"}
    BY <1>6 DEF HupAll, TopIs
  <2>2. /\ SlotDone = op.lenDone /\ op.lenDone \in Nat
        /\ op.operation # "none" /\ op.operation \notin Plain
    BY <1>1, <2>1 DEF SlotDone, Plain, All, BufAll, OperationInfo
  <2>3. CASE op.lenDone > 0 /\ CallThen([k |-> "hupEnd"], op.id, op.lenDone)
    <3>1. moved' + SlotDone = moved + Gain(op.lenDone) /\ op.lenDone \in Int
      BY <1>2, <2>2, <2>3 DEF Gain
    <3> QED BY <1>2, <1>4, <2>1, <2>2, <2>3, <3>1 DEF AnswersSlot
  <2>4. CASE ~(op.lenDone > 0) /\ TailCall(op.id, HupResult)
    <3>1. moved' + SlotDone = moved + Gain(HupResult)
      BY <1>2, <1>3, <2>2, <2>4
    <3> QED BY <1>2, <1>3, <1>4, <2>1, <2>2, <2>4, <3>1 DEF AnswersSlot
  <2> QED BY <1>6, <2>3, <2>4 DEF HupAll
<1>7. CASE HupEnd
  BY <1>2, <1>7 DEF HupEnd, EndsAgain
<1>8. CASE HupNone
  BY <1>2, <1>8 DEF HupNone, Returns, Return, SameBooks
<1> QED BY <1>5, <1>6, <1>7, <1>8

LEMMA StartMoves == Inv /\ Start => Stores \/ Attempts \/ ClosesNow
<1> SUFFICES ASSUME Inv, Start PROVE Stores \/ Attempts \/ ClosesNow
  OBVIOUS
<1>1. /\ FALSE \in Repeats /\ Repeats \subseteq BOOLEAN
      /\ \A len \in Lens : len \in Nat
      /\ 0 \in Nat
  BY FileOpAssumption DEF Repeats
<1>2. ASSUME NEW o, MayStart(o)
      PROVE  o \in Ops /\ NewId \in Ids
  <2>1. Len(hist) \in Nat /\ Len(hist) + 1 <= MaxOps
    BY <1>2, LenProperties, FileOpAssumption DEF MayStart, Inv, TypeOK
  <2> QED BY <1>2, <2>1, FileOpAssumption DEF MayStart, NewId, Ids
<1>3. ASSUME NEW o, NEW len \in Nat, NEW rep \in Repeats, MayStart(o),
             Free \/ "busy" \in Habits, rep => o \in Plain, Started(o, rep),
             op' = addRWOp(o, len, 0, rep, NewId),
             stack' = stack \/ stack' = Append(stack, [k |-> "do", hup |-> FALSE]),
             UNCHANGED <<moved, reported, forfeited>>
      PROVE  Stores
  BY <1>2, <1>3 DEF Stores
<1>4. ASSUME NEW o, NEW rep \in Repeats, NEW f \in Frames, MayStart(o),
             Free \/ "busy" \in Habits, rep => o \in Plain,
             Tries(f), f.o = o, f.id = NewId,
             f.k = "try" => f.repeat = rep, f.k = "tryAll" => f.br = 0,
             Started(o, rep), stack' = Append(stack, f),
             UNCHANGED <<op, moved, reported, forfeited>>
      PROVE  Attempts
  BY <1>2, <1>4 DEF Attempts
<1>5. ASSUME NEW o \in Plain, NEW len \in Lens, NEW rep \in Repeats, MayStart(o),
             Free, Started(o, rep), UNCHANGED <<op, moved, reported, forfeited>>,
             stack' = Append(stack, [k |-> "try", o |-> o, len |-> len,
                                     repeat |-> rep, id |-> NewId])
      PROVE  Attempts
  <2> DEFINE f == [k |-> "try", o |-> o, len |-> len, repeat |-> rep, id |-> NewId]
  <2>1. rep \in BOOLEAN /\ NewId \in Ids
    BY <1>1, <1>2, <1>5
  <2>2. f \in Frames
    BY <2>1, NewFrames
  <2>3. Tries(f) /\ f.k = "try" /\ f.o = o /\ f.id = NewId /\ f.repeat = rep
    BY DEF Tries
  <2>4. stack' = Append(stack, f)
    BY <1>5
  <2> HIDE DEF f
  <2> QED BY <1>4, <1>5, <2>2, <2>3, <2>4
<1>6. ASSUME NEW o \in BufAll, NEW len \in Lens, MayStart(o), Free \/ "busy" \in Habits,
             Started(o, FALSE), UNCHANGED <<op, moved, reported, forfeited>>,
             stack' = Append(stack, [k |-> "tryAll", o |-> o, len |-> len,
                                     br |-> 0, id |-> NewId])
      PROVE  Attempts
  <2> DEFINE f == [k |-> "tryAll", o |-> o, len |-> len, br |-> 0, id |-> NewId]
  <2>1. f \in Frames
    BY <1>1, <1>2, <1>6, NewFrames
  <2>2. Tries(f) /\ f.k = "tryAll" /\ f.o = o /\ f.id = NewId /\ f.br = 0
    BY DEF Tries
  <2>3. stack' = Append(stack, f)
    BY <1>6
  <2> HIDE DEF f
  <2> QED BY <1>1, <1>4, <1>6, <2>1, <2>2, <2>3
<1>7. CASE StartWait
  BY <1>1, <1>3, <1>7 DEF StartWait
<1>8. ASSUME NEW o \in Plain, NEW len \in Lens, NEW rep \in Repeats, StartPlain(o, len, rep)
      PROVE  Stores \/ Attempts
  <2>1. CASE skip
    BY <1>1, <1>3, <1>8, <2>1 DEF StartPlain
  <2>2. CASE ~skip
    BY <1>5, <1>8, <2>2 DEF StartPlain
  <2> QED BY <2>1, <2>2
<1>9. ASSUME NEW len \in Lens, NEW rep \in Repeats, StartSendFile(len, rep)
      PROVE  Attempts
  <2>1. "sendFile" \in Plain
    BY DEF Plain
  <2> QED BY <1>5, <1>9, <2>1 DEF StartSendFile
<1>10. ASSUME NEW len \in Lens, StartRwAll(len) \/ StartSrAll(len) \/ StartVAll(len)
       PROVE  Stores \/ Attempts
  <2>1. "rwAll" \in BufAll /\ "srAll" \in BufAll
    BY DEF BufAll
  <2>2. CASE StartRwAll(len)
    <3>1. CASE skip
      BY <1>1, <1>3, <2>2, <3>1 DEF StartRwAll
    <3>2. CASE ~skip
      BY <1>6, <2>1, <2>2, <3>2 DEF StartRwAll
    <3> QED BY <3>1, <3>2
  <2>3. CASE StartSrAll(len)
    BY <1>6, <2>1, <2>3 DEF StartSrAll
  <2>4. CASE StartVAll(len)
    BY <1>1, <1>3, <2>4 DEF StartVAll
  <2> QED BY <1>10, <2>2, <2>3, <2>4
<1>11. CASE StartClose
  <2>1. CASE Mask # {}
    BY <1>11, <2>1 DEF StartClose, ClosesNow
  <2>2. CASE Mask = {}
    BY <1>1, <1>3, <1>11, <2>2 DEF StartClose
  <2> QED BY <2>1, <2>2
<1>12. {"rw", "sr", "rwv"} \subseteq Plain
  BY DEF Plain
<1> QED BY <1>7, <1>8, <1>9, <1>10, <1>11, <1>12 DEF Start, StartV

LEMMA NextMoves == Inv /\ [Next]_vars => Move
<1> SUFFICES ASSUME Inv, [Next]_vars PROVE Move
  OBVIOUS
<1>1. CASE Kernel \/ Add \/ Remove \/ Harvest \/ UNCHANGED vars
  <2>1. Quiet
    BY <1>1 DEF Kernel, End, OtherEdge, Arrive, Add, Remove, Harvest, vars, histVars, Quiet
  <2> QED BY <2>1 DEF Move
<1>2. CASE Start
  BY <1>2, StartMoves DEF Move
<1>3. CASE Cancel
  BY <1>3 DEF Move
<1>4. CASE TryStep \/ TryAllStep \/ DoPlain \/ DoWait
  BY <1>4, TryMoves, TryAllMoves, DoPlainMoves, DoWaitMoves DEF Move
<1>5. CASE DoRepeat \/ DoAll \/ DoOther \/ HupPlain \/ HupAll \/ HupEnd \/ HupNone
  BY <1>5, DoRepeatMoves, DoAllMoves, DoOtherMoves, HupMoves DEF Move
<1>6. CASE Dispatch
  <2>1. /\ stack = <<>> /\ notif # {} /\ ~InAttempt /\ SameBooks /\ UNCHANGED <<op, moved>>
    BY <1>6 DEF Dispatch, histVars, SameBooks, InAttempt
  <2>2. ASSUME NEW f \in Frames, stack' = <<f>>, f.k \in {"do", "hup"},
               f.k = "hup" => "RDY" \notin notif,
               KnowsHup(f) => "HUP" \in notif
        PROVE  Enters
    <3>1. stack' = Append(stack, f)
      BY <2>1, <2>2
    <3> QED BY <2>1, <2>2, <3>1 DEF Enters
  <2>3. CASE "RDY" \in notif /\ stack' = <<[k |-> "do", hup |-> "HUP" \in notif]>>
    <3>1. ("HUP" \in notif) \in BOOLEAN
      OBVIOUS
    <3>2. [k |-> "do", hup |-> "HUP" \in notif] \in Frames
      BY <3>1, NewFrames
    <3>3. KnowsHup([k |-> "do", hup |-> "HUP" \in notif]) => "HUP" \in notif
      BY DEF KnowsHup
    <3>4. Enters
      BY <2>2, <2>3, <3>2, <3>3
    <3> QED BY <3>4 DEF Move
  <2>4. CASE "RDY" \notin notif /\ stack' = <<[k |-> "hup"]>>
    <3>1. [k |-> "hup"] \in Frames /\ ~KnowsHup([k |-> "hup"])
      BY NewFrames DEF KnowsHup
    <3>2. Enters
      BY <2>2, <2>4, <3>1
    <3> QED BY <3>2 DEF Move
  <2> QED BY <1>6, <2>3, <2>4 DEF Dispatch
<1>7. CASE CallbackReturn
  <2>1. stack # <<>> /\ Top.k = "user" /\ stack' = Popped
        /\ UNCHANGED <<op, moved, reported, forfeited, hist>>
    BY <1>7 DEF CallbackReturn, TopIs, histVars
  <2>2. Returns
    BY <2>1 DEF Returns, InCall, Tries, SameBooks
  <2> QED BY <2>2 DEF Move
<1> QED BY <1>1, <1>2, <1>3, <1>4, <1>5, <1>6, <1>7 DEF Next, User, Library

-----------------------------------------------------------------------------
(***************************************************************************)
(* The stack and the history after a move.                                 *)
(***************************************************************************)

\* The lowest m frames are still there.
Kept(m) ==
  /\ m \in Nat /\ Len(stack) \in Nat /\ Len(stack') \in Nat
  /\ m <= Len(stack) /\ m <= Len(stack')
  /\ DOMAIN stack = 1..Len(stack) /\ DOMAIN stack' = 1..Len(stack')
  /\ \A n \in 1..m : stack'[n] = stack[n]

LEMMA BelowTop ==
  ASSUME NEW l \in Nat \ {0}
  PROVE  \A n \in 1..(l - 1) : n \in 1..l /\ n # l
OBVIOUS

LEMMA KeptIndex ==
  ASSUME NEW m, Kept(m)
  PROVE  /\ \A n \in DOMAIN stack' : n \in 1..m \/ n \in (m + 1)..Len(stack')
         /\ \A n \in DOMAIN stack : n \in 1..m \/ n \in (m + 1)..Len(stack)
         /\ \A n \in 1..m : /\ n \in DOMAIN stack /\ n \in DOMAIN stack'
                            /\ stack'[n] = stack[n]
                            /\ m < Len(stack) => n # Len(stack)
<1>1. ASSUME NEW l \in Nat, m \in Nat, m <= l
      PROVE  /\ \A n \in 1..l : n \in 1..m \/ n \in (m + 1)..l
             /\ \A n \in 1..m : n \in 1..l /\ (m < l => n # l)
  BY <1>1
<1>2. /\ DOMAIN stack' = 1..Len(stack') /\ DOMAIN stack = 1..Len(stack)
      /\ m \in Nat /\ Len(stack') \in Nat /\ Len(stack) \in Nat
      /\ m <= Len(stack) /\ m <= Len(stack')
      /\ \A n \in 1..m : stack'[n] = stack[n]
  BY DEF Kept
<1> QED BY <1>1, <1>2

LEMMA KeptSame ==
  ASSUME stack \in Seq(Frames), stack' = stack
  PROVE  Kept(Len(stack)) /\ Len(stack') = Len(stack)
<1>1. Len(stack) \in Nat /\ DOMAIN stack = 1..Len(stack)
  BY LenProperties
<1> QED BY <1>1 DEF Kept

LEMMA KeptPop ==
  ASSUME stack \in Seq(Frames), stack # <<>>, stack' = Popped
  PROVE  /\ Kept(Len(stack) - 1) /\ Len(stack') = Len(stack) - 1
         /\ Len(stack) \in Nat \ {0} /\ Top = stack[Len(stack)]
<1>1. /\ DOMAIN stack = 1..Len(stack) /\ Len(stack) \in Nat \ {0}
      /\ DOMAIN stack' = 1..(Len(stack) - 1) /\ Len(stack') = Len(stack) - 1
      /\ \A n \in 1..(Len(stack) - 1) : stack'[n] = stack[n]
  BY PoppedFacts
<1> QED BY <1>1 DEF Kept, Top

LEMMA KeptSwap ==
  ASSUME stack \in Seq(Frames), stack # <<>>, NEW f \in Frames, stack' = Replaced(f)
  PROVE  /\ Kept(Len(stack) - 1) /\ Len(stack') = Len(stack) /\ stack'[Len(stack)] = f
         /\ Len(stack) \in Nat \ {0} /\ Top = stack[Len(stack)]
<1>1. /\ DOMAIN stack = 1..Len(stack) /\ Len(stack) \in Nat \ {0}
      /\ DOMAIN stack' = 1..Len(stack) /\ Len(stack') = Len(stack)
      /\ stack'[Len(stack)] = f
      /\ \A n \in 1..(Len(stack) - 1) : stack'[n] = stack[n]
  BY ReplacedFacts
<1> QED BY <1>1 DEF Kept, Top

LEMMA KeptPush ==
  ASSUME stack \in Seq(Frames), NEW f \in Frames, stack' = Append(stack, f)
  PROVE  /\ Kept(Len(stack)) /\ Len(stack') = Len(stack) + 1
         /\ stack'[Len(stack) + 1] = f
<1>1. /\ DOMAIN stack = 1..Len(stack) /\ Len(stack) \in Nat
      /\ DOMAIN stack' = 1..(Len(stack) + 1) /\ Len(stack') = Len(stack) + 1
      /\ stack'[Len(stack) + 1] = f
      /\ \A n \in 1..Len(stack) : stack'[n] = stack[n]
  BY PushFacts
<1> QED BY <1>1 DEF Kept

LEMMA KeptCall ==
  ASSUME stack \in Seq(Frames), stack # <<>>, NEW f \in Frames, NEW u \in Frames,
         stack' = Append(Replaced(f), u)
  PROVE  /\ Kept(Len(stack) - 1) /\ Len(stack') = Len(stack) + 1
         /\ stack'[Len(stack)] = f /\ stack'[Len(stack) + 1] = u
         /\ Len(stack) \in Nat \ {0} /\ Top = stack[Len(stack)]
<1> DEFINE L == Len(stack)
           r == Replaced(f)
<1>1. /\ DOMAIN stack = 1..L /\ L \in Nat \ {0}
      /\ r \in Seq(Frames) /\ Len(r) = L
      /\ r[L] = f
      /\ \A k \in 1..(L - 1) : r[k] = stack[k]
  BY ReplacedFacts
<1>2. stack' = Append(r, u) /\ Top = stack[L]
  BY DEF Top
<1>3. Kept(L - 1) <=> /\ L - 1 \in Nat /\ L \in Nat /\ Len(stack') \in Nat
                      /\ L - 1 <= L /\ L - 1 <= Len(stack')
                      /\ DOMAIN stack = 1..L /\ DOMAIN stack' = 1..Len(stack')
                      /\ \A n \in 1..(L - 1) : stack'[n] = stack[n]
  BY DEF Kept
<1> HIDE DEF L, r
<1>4. /\ DOMAIN stack' = 1..(L + 1) /\ Len(stack') = L + 1
      /\ stack'[L + 1] = u
      /\ \A k \in 1..L : stack'[k] = r[k]
  BY <1>1, <1>2, PushFacts
<1>5. Kept(L - 1) /\ stack'[L] = f
  BY <1>1, <1>3, <1>4
<1> QED BY <1>1, <1>2, <1>4, <1>5 DEF L

\* The operations that were started stay what they are.
Remembers ==
  /\ Len(hist) \in Nat /\ Len(hist') \in Nat /\ Len(hist) <= Len(hist')
  /\ \A j \in 1..Len(hist) : hist'[j].o = hist[j].o /\ hist'[j].repeat = hist[j].repeat

LEMMA HistLen ==
  ASSUME TypeOK
  PROVE  /\ Len(hist) \in Nat /\ DOMAIN hist = 1..Len(hist)
         /\ \A j \in 1..Len(hist) : hist[j] \in OpHistory
BY LenProperties DEF TypeOK

\* The history after a callback.
LEMMA CalledHist ==
  ASSUME TypeOK, NEW id \in 1..Len(hist), NEW r \in Int, Called(id, r)
  PROVE  /\ Remembers /\ Len(hist') = Len(hist)
         /\ \A j \in 1..Len(hist) : j # id => hist'[j] = hist[j]
         /\ hist'[id].finals =
              IF hist[id].repeat /\ r > 0 THEN hist[id].finals ELSE hist[id].finals + 1
         /\ hist'[id].cancelled = hist[id].cancelled
         /\ hist'[id].late => hist[id].late \/ hist[id].cancelled
<1>1. /\ Len(hist) \in Nat /\ DOMAIN hist = 1..Len(hist)
      /\ \A j \in 1..Len(hist) : hist[j] \in OpHistory
  BY HistLen
<1>2. Len(hist') = Len(hist)
  BY CalledFacts
<1>3. hist' = [hist EXCEPT ![id] = CallRecorded(hist[id], r)]
  BY DEF Called
<1>4. /\ \A j \in 1..Len(hist) : j # id => hist'[j] = hist[j]
      /\ hist'[id] = CallRecorded(hist[id], r)
  BY <1>1, <1>3
<1>5. ASSUME NEW h \in OpHistory
      PROVE  /\ CallRecorded(h, r).o = h.o /\ CallRecorded(h, r).repeat = h.repeat
             /\ CallRecorded(h, r).finals = IF h.repeat /\ r > 0 THEN h.finals ELSE h.finals + 1
             /\ CallRecorded(h, r).cancelled = h.cancelled
             /\ CallRecorded(h, r).late => h.late \/ h.cancelled
  BY DEF CallRecorded, OpHistory
<1>6. hist[id] \in OpHistory
  BY <1>1
<1>7. Remembers
  BY <1>1, <1>2, <1>4, <1>5, <1>6 DEF Remembers
<1> QED BY <1>2, <1>4, <1>5, <1>6, <1>7

\* The history after a start.
LEMMA StartedHist ==
  ASSUME TypeOK, NEW h \in OpHistory, hist' = Append(hist, h)
  PROVE  /\ Remembers /\ Len(hist') = Len(hist) + 1
         /\ \A j \in 1..Len(hist) : hist'[j] = hist[j]
         /\ hist'[Len(hist) + 1] = h
<1>1. hist \in Seq(OpHistory)
  BY DEF TypeOK
<1>2. /\ Len(hist) \in Nat /\ Len(hist') = Len(hist) + 1
      /\ \A j \in 1..Len(hist) : hist'[j] = hist[j]
      /\ hist'[Len(hist) + 1] = h
  BY <1>1, PushFacts
<1> QED BY <1>2 DEF Remembers

\* The history after operations have been marked as cancelled.
LEMMA MarkedHist ==
  ASSUME TypeOK, NEW C,
         \/ \E id : C = {id} /\ hist' = [hist EXCEPT ![id].cancelled = TRUE]
         \/ hist' = [n \in DOMAIN hist |->
                       IF n \in C THEN [hist[n] EXCEPT !.cancelled = TRUE] ELSE hist[n]],
         Len(hist') \in Nat, DOMAIN hist' = 1..Len(hist')
  PROVE  /\ Remembers /\ Len(hist') = Len(hist)
         /\ \A j \in 1..Len(hist) :
              /\ hist'[j].finals = hist[j].finals /\ hist'[j].late = hist[j].late
              /\ j \in C => hist'[j].cancelled
              /\ j \notin C => hist'[j] = hist[j]
<1>1. /\ Len(hist) \in Nat /\ DOMAIN hist = 1..Len(hist)
      /\ \A j \in 1..Len(hist) : hist[j] \in OpHistory
  BY HistLen
<1>2. DOMAIN hist' = 1..Len(hist)
  BY <1>1
<1>3. Len(hist') = Len(hist)
  <2>1. ASSUME NEW a \in Nat, NEW b \in Nat, 1..a = 1..b PROVE a = b
    <3>1. a > 0 => a \in 1..b
      BY <2>1
    <3>2. b > 0 => b \in 1..a
      BY <2>1
    <3> QED BY <3>1, <3>2
  <2> QED BY <1>1, <1>2, <2>1
<1>4. \A j \in 1..Len(hist) :
        hist'[j] = IF j \in C THEN [hist[j] EXCEPT !.cancelled = TRUE] ELSE hist[j]
  <2>1. CASE \E id : C = {id} /\ hist' = [hist EXCEPT ![id].cancelled = TRUE]
    BY <1>1, <2>1
  <2>2. CASE hist' = [n \in DOMAIN hist |->
                        IF n \in C THEN [hist[n] EXCEPT !.cancelled = TRUE] ELSE hist[n]]
    BY <1>1, <2>2
  <2> QED BY <2>1, <2>2
<1>5. ASSUME NEW h \in OpHistory
      PROVE  /\ [h EXCEPT !.cancelled = TRUE].o = h.o
             /\ [h EXCEPT !.cancelled = TRUE].repeat = h.repeat
             /\ [h EXCEPT !.cancelled = TRUE].finals = h.finals
             /\ [h EXCEPT !.cancelled = TRUE].late = h.late
             /\ [h EXCEPT !.cancelled = TRUE].cancelled
  BY DEF OpHistory
<1>6. \A j \in 1..Len(hist) : hist'[j].o = hist[j].o /\ hist'[j].repeat = hist[j].repeat
  BY <1>1, <1>4, <1>5
<1>7. Remembers
  BY <1>1, <1>3, <1>6 DEF Remembers
<1>8. \A j \in 1..Len(hist) : j \in C =>
        /\ hist'[j].finals = hist[j].finals /\ hist'[j].late = hist[j].late
        /\ hist'[j].cancelled
  <2> SUFFICES ASSUME NEW j \in 1..Len(hist), j \in C
               PROVE  /\ hist'[j].finals = hist[j].finals /\ hist'[j].late = hist[j].late
                      /\ hist'[j].cancelled
    OBVIOUS
  <2>1. hist[j] \in OpHistory /\ hist'[j] = [hist[j] EXCEPT !.cancelled = TRUE]
    BY <1>1, <1>4
  <2> QED BY <1>5, <2>1
<1>9. \A j \in 1..Len(hist) : j \notin C => hist'[j] = hist[j]
  BY <1>4
<1> QED BY <1>3, <1>7, <1>8, <1>9

-----------------------------------------------------------------------------
(***************************************************************************)
(* Who is known: the slot, the attempts and the callbacks name operations  *)
(* that were started, as what they were started.  Holds for every user and *)
(* every stream.                                                           *)
(***************************************************************************)
Known(id) == id \in 1..Len(hist)

SlotKnown ==
  /\ op.id \in 0..Len(hist)
  /\ op.operation # "none" =>
       /\ Known(op.id) /\ hist[op.id].o = op.operation
       /\ hist[op.id].repeat = op.repeat

FrameKnown(f) ==
  /\ f.k = "user" => Known(f.id)
  /\ Tries(f) => /\ Known(f.id) /\ hist[f.id].o = f.o
                 /\ f.k = "try" => hist[f.id].repeat = f.repeat

HistKnown ==
  \A id \in 1..Len(hist) :
    /\ hist[id].o \in Ops
    /\ hist[id].repeat => hist[id].o \in Plain /\ "repeat" \in Habits

KnownInv ==
  /\ SlotKnown /\ HistKnown
  /\ \A n \in DOMAIN stack : FrameKnown(stack[n])

\* The top frame, and a frame that was there before.
LEMMA KnownTop ==
  ASSUME Inv, KnownInv, stack # <<>>
  PROVE  /\ FrameKnown(Top) /\ Top \in Frames
         /\ InAttempt => /\ Known(Top.id) /\ hist[Top.id].o = Top.o /\ Top.id \in Ids
                         /\ Top.k = "try" => hist[Top.id].repeat = Top.repeat
                         /\ Top.k = "tryAll" => ~hist[Top.id].repeat
<1>1. Len(stack) \in DOMAIN stack /\ Top \in Frames
  BY PoppedFacts DEF Inv, TypeOK
<1>2. FrameKnown(Top)
  BY <1>1 DEF KnownInv, Top
<1>3. /\ Top.k = "tryAll" => Top.o \in BufAll
      /\ Tries(Top) => Top.id \in Ids
  BY <1>1, FrameFacts DEF Tries
<1>4. InAttempt => Known(Top.id) /\ hist[Top.id].o = Top.o
                   /\ (Top.k = "try" => hist[Top.id].repeat = Top.repeat)
  BY <1>2 DEF InAttempt, FrameKnown
<1>5. InAttempt /\ Top.k = "tryAll" => ~hist[Top.id].repeat
  BY <1>3, <1>4 DEF KnownInv, HistKnown, Known, Plain, BufAll
<1> QED BY <1>1, <1>2, <1>3, <1>4, <1>5 DEF InAttempt

LEMMA KnownKept ==
  ASSUME KnownInv, Remembers, HistKnown', SlotKnown', NEW m, Kept(m),
         \A n \in (m + 1)..Len(stack') : FrameKnown(stack[n])'
  PROVE  KnownInv'
<1>1. ASSUME NEW n \in DOMAIN stack' PROVE FrameKnown(stack[n])'
  <2>1. CASE n \in 1..m
    <3>1. FrameKnown(stack[n]) /\ stack'[n] = stack[n]
      BY <2>1 DEF KnownInv, Kept
    <3> QED BY <3>1 DEF FrameKnown, Known, Remembers
  <2>2. CASE n \notin 1..m
    BY <1>1, <2>2 DEF Kept
  <2> QED BY <2>1, <2>2
<1> QED BY <1>1 DEF KnownInv

\* An operation whose callback is called stays known, and so does the slot.
LEMMA KnownCall ==
  ASSUME Inv, KnownInv, NEW id \in 1..Len(hist), NEW r \in Int, Called(id, r)
  PROVE  /\ Remembers /\ HistKnown' /\ id \in 1..Len(hist')
         /\ op' = op \/ (op'.operation = "none" /\ op'.id = op.id) => SlotKnown'
         /\ UserFrame(id, r) \in Frames /\ UserFrame(id, r).k = "user"
         /\ UserFrame(id, r).id = id
<1>1. Remembers /\ Len(hist') = Len(hist)
  BY CalledHist DEF Inv
<1>2. HistKnown'
  BY <1>1 DEF KnownInv, HistKnown, Remembers
<1>3. op' = op \/ (op'.operation = "none" /\ op'.id = op.id) => SlotKnown'
  BY <1>1 DEF KnownInv, SlotKnown, Known, Remembers
<1>4. id \in Ids
  BY <1>1, FileOpAssumption DEF Ids, Inv, TypeOK, Remembers
<1> QED BY <1>1, <1>2, <1>3, <1>4, UserFrameFacts DEF UserFrame

LEMMA KnownTailCall ==
  ASSUME Inv, KnownInv, NEW id \in 1..Len(hist), NEW r \in Int, stack # <<>>,
         TailCall(id, r),
         op' = op \/ (op'.operation = "none" /\ op'.id = op.id)
  PROVE  KnownInv'
<1>1. /\ Remembers /\ HistKnown' /\ id \in 1..Len(hist') /\ SlotKnown'
      /\ UserFrame(id, r) \in Frames /\ UserFrame(id, r).k = "user"
      /\ UserFrame(id, r).id = id
  BY KnownCall DEF TailCall
<1>2. /\ Kept(Len(stack) - 1) /\ Len(stack') = Len(stack) /\ Len(stack) \in Nat \ {0}
      /\ stack'[Len(stack)] = UserFrame(id, r)
  BY <1>1, KeptSwap DEF TailCall, Inv, TypeOK
<1>3. \A n \in (Len(stack) - 1 + 1)..Len(stack') : FrameKnown(stack[n])'
  BY <1>1, <1>2 DEF FrameKnown, Tries, Known
<1> QED BY <1>1, <1>2, <1>3, KnownKept

LEMMA KnownCallThen ==
  ASSUME Inv, KnownInv, NEW id \in 1..Len(hist), NEW r \in Int, stack # <<>>,
         NEW f \in Frames, FrameKnown(f), f.k # "user", CallThen(f, id, r),
         op' = op \/ (op'.operation = "none" /\ op'.id = op.id)
  PROVE  KnownInv'
<1>1. /\ Remembers /\ HistKnown' /\ id \in 1..Len(hist') /\ SlotKnown'
      /\ UserFrame(id, r) \in Frames /\ UserFrame(id, r).k = "user"
      /\ UserFrame(id, r).id = id
  BY KnownCall DEF CallThen
<1>2. /\ Kept(Len(stack) - 1) /\ Len(stack') = Len(stack) + 1 /\ Len(stack) \in Nat \ {0}
      /\ stack'[Len(stack)] = f /\ stack'[Len(stack) + 1] = UserFrame(id, r)
  BY <1>1, KeptCall DEF CallThen, Inv, TypeOK
<1>3. ASSUME NEW n \in (Len(stack) - 1 + 1)..Len(stack') PROVE FrameKnown(stack[n])'
  <2>1. CASE stack'[n] = f
    BY <1>1, <2>1 DEF FrameKnown, Known, Remembers
  <2>2. CASE stack'[n] = UserFrame(id, r)
    BY <1>1, <2>2 DEF FrameKnown, Tries, Known
  <2>3. n = Len(stack) \/ n = Len(stack) + 1
    BY <1>2, <1>3
  <2> QED BY <1>2, <2>1, <2>2, <2>3
<1> QED BY <1>1, <1>2, <1>3, KnownKept

LEMMA KnownStep == Inv /\ Inv' /\ KnownInv /\ Move => KnownInv'
<1> SUFFICES ASSUME Inv, Inv', KnownInv, Move PROVE KnownInv'
  OBVIOUS
<1>1. TypeOK /\ stack \in Seq(Frames) /\ op \in OperationInfo
  BY DEF Inv, TypeOK
<1>2. hist' = hist => Remembers /\ HistKnown'
  BY <1>1, HistLen DEF Remembers, KnownInv, HistKnown
<1>3. ASSUME Remembers,
             op'.id = op.id, op'.operation = op.operation, op'.repeat = op.repeat
      PROVE  SlotKnown'
  BY <1>3 DEF KnownInv, SlotKnown, Known, Remembers
<1>4. Len(hist') \in Nat /\ DOMAIN hist' = 1..Len(hist')
  BY LenProperties DEF Inv, TypeOK
<1>5. CASE Quiet
  <2>1. Kept(Len(stack)) /\ Len(stack') = Len(stack)
    BY <1>1, <1>5, KeptSame DEF Quiet
  <2>2. \A n \in (Len(stack) + 1)..Len(stack') : FrameKnown(stack[n])'
    BY <2>1 DEF Kept
  <2> QED BY <1>2, <1>3, <1>5, <2>1, <2>2, KnownKept DEF Quiet
<1>6. ASSUME stack # <<>>, stack' = Popped, Remembers, HistKnown', SlotKnown'
      PROVE  KnownInv'
  <2>1. Kept(Len(stack) - 1) /\ Len(stack') = Len(stack) - 1 /\ Len(stack) \in Nat \ {0}
    BY <1>1, <1>6, KeptPop
  <2>2. \A n \in (Len(stack) - 1 + 1)..Len(stack') : FrameKnown(stack[n])'
    BY <2>1
  <2> QED BY <1>6, <2>1, <2>2, KnownKept
<1>7. CASE Returns
  <2>1. op'.id = op.id /\ op'.operation = op.operation /\ op'.repeat = op.repeat
    BY <1>1, <1>7 DEF Returns, OperationInfo
  <2> QED BY <1>2, <1>3, <1>6, <1>7, <2>1 DEF Returns, InCall, SameBooks
<1>8. CASE Parks
  <2>1. /\ stack # <<>> /\ Known(Top.id) /\ hist[Top.id].o = Top.o
        /\ Top.k = "try" => hist[Top.id].repeat = Top.repeat
        /\ Top.k = "tryAll" => ~hist[Top.id].repeat
    BY <1>8, KnownTop DEF Parks, InAttempt
  <2>2. Known(Top.id) => hist[Top.id].repeat \in BOOLEAN
    BY <1>1, HistLen DEF Known, OpHistory
  <2>3. /\ op'.id = Top.id /\ op'.operation = Top.o
        /\ op'.repeat = hist[Top.id].repeat
    <3>1. CASE Top.k = "try" /\ op' = addRWOp(Top.o, Top.len, 0, Top.repeat, Top.id)
      BY <2>1, <3>1 DEF addRWOp
    <3>2. CASE Top.k = "tryAll" /\ op' = addRWOp(Top.o, Top.len, Top.br, FALSE, Top.id)
      <4>1. hist[Top.id].repeat = FALSE
        BY <2>1, <2>2, <3>2
      <4> QED BY <3>2, <4>1 DEF addRWOp
    <3> QED BY <1>8, <3>1, <3>2 DEF Parks
  <2>4. SlotKnown'
    BY <1>8, <2>1, <2>3 DEF SlotKnown, Known, Parks, SameBooks
  <2> QED BY <1>2, <1>6, <1>8, <2>4 DEF Parks, InAttempt, SameBooks
<1>9. CASE Refuses
  <2>1. hist' = [hist EXCEPT ![Top.id].cancelled = TRUE] /\ stack # <<>>
        /\ stack' = Popped /\ op' = op
    BY <1>9 DEF Refuses, InAttempt
  <2>2. Remembers /\ Len(hist') = Len(hist)
    BY <1>1, <1>4, <2>1, MarkedHist
  <2>3. HistKnown'
    BY <2>2 DEF Remembers, KnownInv, HistKnown
  <2> QED BY <1>3, <1>6, <2>1, <2>2, <2>3
<1>10. ASSUME NEW f \in Frames, FrameKnown(f), f.k # "user", stack # <<>>,
              stack' = Replaced(f), SameBooks, op' = op
       PROVE  KnownInv'
  <2>1. /\ Kept(Len(stack) - 1) /\ Len(stack') = Len(stack) /\ Len(stack) \in Nat \ {0}
        /\ stack'[Len(stack)] = f
    BY <1>1, <1>10, KeptSwap
  <2>2. hist' = hist
    BY <1>10 DEF SameBooks
  <2>3. \A n \in (Len(stack) - 1 + 1)..Len(stack') : FrameKnown(stack[n])'
    BY <1>10, <2>1, <2>2 DEF FrameKnown, Known
  <2> QED BY <1>2, <1>3, <1>10, <2>1, <2>2, <2>3, KnownKept
<1>11. CASE Loops
  <2>1. PICK f \in Frames : f.k \in {"do", "rest"} /\ stack' = Replaced(f)
    BY <1>11 DEF Loops
  <2>2. FrameKnown(f) /\ f.k # "user"
    BY <2>1 DEF FrameKnown, Tries
  <2> QED BY <1>10, <1>11, <2>1, <2>2 DEF Loops, InCall
<1>12. CASE Gains
  <2>1. PICK d \in Nat : stack' = Replaced([Top EXCEPT !.br = @ + d])
    BY <1>12 DEF Gains
  <2>2. stack # <<>> /\ Top.k = "tryAll" /\ FrameKnown(Top) /\ Top \in Frames
    BY <1>12, KnownTop DEF Gains, InAttempt
  <2>3. Top \in TryAllFrames
    BY <2>2 DEF Frames, UserFrames, TryFrames, TryAllFrames, DoFrames,
                RepeatFrames, HupFrames
  <2> DEFINE f == [Top EXCEPT !.br = @ + d]
  <2>4. f \in TryAllFrames /\ f.id = Top.id /\ f.o = Top.o /\ f.k = "tryAll"
    BY <2>3 DEF TryAllFrames
  <2>5. f \in Frames /\ stack' = Replaced(f)
    BY <2>1, <2>4 DEF Frames
  <2> HIDE DEF f
  <2>6. FrameKnown(f)
    BY <2>2, <2>4 DEF FrameKnown, Tries
  <2> QED BY <1>10, <1>12, <2>2, <2>4, <2>5, <2>6 DEF Gains
<1>13. CASE AnswersTry
  <2>1. PICK r \in Int : InAttempt /\ TailCall(Top.id, r) /\ op' = op
    BY <1>13 DEF AnswersTry
  <2>2. stack # <<>> /\ Top.id \in 1..Len(hist)
    BY <2>1, KnownTop DEF InAttempt, Known
  <2> QED BY <2>1, <2>2, KnownTailCall
<1>14. CASE RepeatsTry
  <2>1. PICK r \in Int : InAttempt /\ CallThen(Top, Top.id, r) /\ op' = op
    BY <1>14 DEF RepeatsTry
  <2>2. stack # <<>> /\ Top.id \in 1..Len(hist) /\ FrameKnown(Top) /\ Top \in Frames
        /\ Top.k # "user"
    BY <2>1, KnownTop DEF InAttempt, Known, Tries
  <2> QED BY <2>1, <2>2, KnownCallThen
<1>15. CASE AnswersSlot
  <2>1. PICK r \in Int :
          /\ InCall /\ op.operation # "none"
          /\ op'.operation = "none" /\ op'.id = op.id
          /\ \/ TailCall(op.id, r)
             \/ \E k \in {"hupAll", "hupEnd"} : CallThen([k |-> k], op.id, r)
    BY <1>15 DEF AnswersSlot
  <2>2. stack # <<>> /\ op.id \in 1..Len(hist)
    BY <2>1 DEF InCall, KnownInv, SlotKnown, Known
  <2>3. ASSUME NEW k \in {"hupAll", "hupEnd"}, CallThen([k |-> k], op.id, r)
        PROVE  KnownInv'
    <3> DEFINE f == [k |-> k]
    <3>1. f \in Frames /\ f.k # "user" /\ ~Tries(f)
      BY NewFrames DEF Tries
    <3>2. CallThen(f, op.id, r)
      BY <2>3
    <3> HIDE DEF f
    <3>3. FrameKnown(f)
      BY <3>1 DEF FrameKnown
    <3> QED BY <2>1, <2>2, <3>1, <3>2, <3>3, KnownCallThen
  <2> QED BY <2>1, <2>2, <2>3, KnownTailCall
<1>16. CASE RepeatsSlot
  <2>1. PICK r \in Int, f \in Frames :
          /\ InCall /\ op.operation \in Plain /\ f.k = "repeat" /\ CallThen(f, op.id, r)
          /\ op' = op
    BY <1>16 DEF RepeatsSlot
  <2>2. stack # <<>> /\ op.id \in 1..Len(hist) /\ FrameKnown(f)
    BY <2>1 DEF InCall, KnownInv, SlotKnown, Known, Plain, FrameKnown, Tries
  <2> QED BY <2>1, <2>2, KnownCallThen
<1>17. CASE EndsAgain
  <2>1. stack # <<>> /\ Top.k = "hupEnd" /\ TailCall(op.id, HupResult) /\ op' = op
        /\ HupResult \in Int
    BY <1>17 DEF EndsAgain, TopIs, HupResult
  <2>2. HupEnding
    BY <1>1, <2>1, PoppedFacts DEF HupEnding, Top
  <2>3. op.id \in 1..Len(hist)
    BY <1>1, <2>2, HistLen, FileOpAssumption DEF Inv, IdInv, KnownInv, SlotKnown, Ids
  <2> QED BY <2>1, <2>3, KnownTailCall
<1>18. ASSUME NEW o \in Ops, NEW rep \in BOOLEAN, NEW fin \in Nat,
              rep => o \in Plain /\ "repeat" \in Habits,
              hist' = Append(hist, [o |-> o, repeat |-> rep, finals |-> fin,
                                    cancelled |-> FALSE, late |-> FALSE])
       PROVE  /\ Remembers /\ HistKnown' /\ Len(hist') = Len(hist) + 1
              /\ hist'[Len(hist) + 1].o = o /\ hist'[Len(hist) + 1].repeat = rep
  <2> DEFINE h == [o |-> o, repeat |-> rep, finals |-> fin,
                   cancelled |-> FALSE, late |-> FALSE]
  <2>1. h \in OpHistory /\ h.o = o /\ h.repeat = rep
    BY FileOpAssumption DEF OpHistory
  <2>2. hist' = Append(hist, h)
    BY <1>18
  <2> HIDE DEF h
  <2>3. /\ Remembers /\ Len(hist') = Len(hist) + 1
        /\ \A j \in 1..Len(hist) : hist'[j] = hist[j]
        /\ hist'[Len(hist) + 1] = h
    BY <1>1, <2>1, <2>2, StartedHist
  <2>4. ASSUME NEW j \in 1..Len(hist')
        PROVE  /\ hist'[j].o \in Ops
               /\ hist'[j].repeat => hist'[j].o \in Plain /\ "repeat" \in Habits
    <3>1. j \in 1..Len(hist) \/ j = Len(hist) + 1
      BY <2>3, <2>4 DEF Remembers
    <3>2. CASE j \in 1..Len(hist)
      BY <2>3, <3>2 DEF KnownInv, HistKnown
    <3>3. CASE j = Len(hist) + 1
      BY <1>18, <2>1, <2>3, <3>3
    <3> QED BY <3>1, <3>2, <3>3
  <2> QED BY <2>1, <2>3, <2>4 DEF HistKnown
<1>19. /\ Repeats \subseteq BOOLEAN /\ (TRUE \in Repeats => "repeat" \in Habits)
       /\ NewId = Len(hist) + 1 /\ Len(hist) \in Nat
  BY <1>1, HistLen DEF Repeats, NewId
<1>20. CASE Stores
  <2>1. PICK o \in Ops, len \in Nat, rep \in Repeats :
          /\ rep => o \in Plain
          /\ Started(o, rep) /\ op' = addRWOp(o, len, 0, rep, NewId)
          /\ stack' = stack \/ stack' = Append(stack, [k |-> "do", hup |-> FALSE])
    BY <1>20 DEF Stores
  <2>2. /\ Remembers /\ HistKnown' /\ Len(hist') = Len(hist) + 1
        /\ hist'[Len(hist) + 1].o = o /\ hist'[Len(hist) + 1].repeat = rep
    BY <1>18, <1>19, <2>1 DEF Started
  <2>3. op'.id = Len(hist) + 1 /\ op'.operation = o /\ op'.repeat = rep
    BY <1>19, <2>1 DEF addRWOp
  <2>4. SlotKnown'
    BY <1>19, <2>2, <2>3 DEF SlotKnown, Known
  <2>5. CASE stack' = stack
    <3>1. Kept(Len(stack)) /\ Len(stack') = Len(stack)
      BY <1>1, <2>5, KeptSame
    <3>2. \A n \in (Len(stack) + 1)..Len(stack') : FrameKnown(stack[n])'
      BY <3>1 DEF Kept
    <3> QED BY <2>2, <2>4, <3>1, <3>2, KnownKept
  <2>6. CASE stack' = Append(stack, [k |-> "do", hup |-> FALSE])
    <3> DEFINE f == [k |-> "do", hup |-> FALSE]
    <3>1. f \in Frames /\ f.k = "do" /\ stack' = Append(stack, f)
      BY <2>6, NewFrames
    <3> HIDE DEF f
    <3>2. Kept(Len(stack)) /\ Len(stack') = Len(stack) + 1 /\ stack'[Len(stack) + 1] = f
      BY <1>1, <3>1, KeptPush
    <3>3. \A n \in (Len(stack) + 1)..Len(stack') : FrameKnown(stack[n])'
      BY <3>1, <3>2 DEF Kept, FrameKnown, Tries
    <3> QED BY <2>2, <2>4, <3>2, <3>3, KnownKept
  <2> QED BY <2>1, <2>5, <2>6
<1>21. CASE Attempts
  <2>1. PICK o \in Ops, rep \in Repeats, f \in Frames :
          /\ rep => o \in Plain
          /\ Tries(f) /\ f.o = o /\ f.id = NewId
          /\ f.k = "try" => f.repeat = rep
          /\ Started(o, rep) /\ stack' = Append(stack, f) /\ op' = op
    BY <1>21 DEF Attempts
  <2>2. /\ Remembers /\ HistKnown' /\ Len(hist') = Len(hist) + 1
        /\ hist'[Len(hist) + 1].o = o /\ hist'[Len(hist) + 1].repeat = rep
    BY <1>18, <1>19, <2>1 DEF Started
  <2>3. Kept(Len(stack)) /\ Len(stack') = Len(stack) + 1 /\ stack'[Len(stack) + 1] = f
    BY <1>1, <2>1, KeptPush
  <2>4. f.id = Len(hist) + 1 /\ f.k # "user"
    BY <1>19, <2>1 DEF Tries
  <2>5. ASSUME NEW n \in (Len(stack) + 1)..Len(stack') PROVE FrameKnown(stack[n])'
    <3>1. stack'[n] = f
      BY <2>3, <2>5 DEF Kept
    <3> QED BY <1>19, <2>1, <2>2, <2>4, <3>1 DEF FrameKnown, Known
  <2> QED BY <1>3, <2>1, <2>2, <2>3, <2>5, KnownKept
<1>22. CASE ClosesNow
  <2>1. /\ "close" \in Ops /\ stack' = Append(stack, UserFrame(NewId, 0)) /\ op' = op
        /\ hist' = Append(hist, [o |-> "close", repeat |-> FALSE, finals |-> 1,
                                 cancelled |-> FALSE, late |-> FALSE])
    BY <1>22 DEF ClosesNow, MayStart
  <2>2. Remembers /\ HistKnown' /\ Len(hist') = Len(hist) + 1
    BY <1>18, <2>1
  <2>3. NewId \in Ids /\ 0 \in Int
    BY <1>19, <2>2, FileOpAssumption DEF Inv, TypeOK, Ids
  <2> DEFINE f == UserFrame(NewId, 0)
  <2>4. f \in Frames /\ f.k = "user" /\ f.id = NewId /\ stack' = Append(stack, f)
    BY <2>1, <2>3, NewFrames DEF UserFrame
  <2> HIDE DEF f
  <2>5. Kept(Len(stack)) /\ Len(stack') = Len(stack) + 1 /\ stack'[Len(stack) + 1] = f
    BY <1>1, <2>4, KeptPush
  <2>6. \A n \in (Len(stack) + 1)..Len(stack') : FrameKnown(stack[n])'
    BY <1>19, <2>2, <2>4, <2>5 DEF Kept, FrameKnown, Known, Tries
  <2> QED BY <1>3, <2>1, <2>2, <2>5, <2>6, KnownKept
<1>23. CASE Cancel
  <2>1. /\ op' = Finished /\ stack' = stack
        /\ hist' = [n \in DOMAIN hist |->
                      IF n \in CancelTargets THEN [hist[n] EXCEPT !.cancelled = TRUE]
                                             ELSE hist[n]]
    BY <1>23 DEF Cancel
  <2>2. Remembers /\ Len(hist') = Len(hist)
    BY <1>1, <1>4, <2>1, MarkedHist
  <2>3. op'.operation = "none" /\ op'.id = op.id
    BY <1>1, <2>1, FinishedFacts
  <2>4. HistKnown' /\ SlotKnown'
    BY <2>2, <2>3 DEF Remembers, KnownInv, HistKnown, SlotKnown
  <2>5. Kept(Len(stack)) /\ Len(stack') = Len(stack)
    BY <1>1, <2>1, KeptSame
  <2>6. \A n \in (Len(stack) + 1)..Len(stack') : FrameKnown(stack[n])'
    BY <2>5 DEF Kept
  <2> QED BY <2>2, <2>4, <2>5, <2>6, KnownKept
<1>24. CASE Enters
  <2>1. PICK f \in Frames : f.k \in {"do", "hup", "abort"} /\ stack' = Append(stack, f)
    BY <1>24 DEF Enters
  <2>2. Kept(Len(stack)) /\ Len(stack') = Len(stack) + 1 /\ stack'[Len(stack) + 1] = f
    BY <1>1, <2>1, KeptPush
  <2>3. \A n \in (Len(stack) + 1)..Len(stack') : FrameKnown(stack[n])'
    BY <2>1, <2>2 DEF Kept, FrameKnown, Tries
  <2> QED BY <1>2, <1>3, <1>24, <2>2, <2>3, KnownKept DEF Enters, SameBooks
<1> QED BY <1>5, <1>7, <1>8, <1>9, <1>11, <1>12, <1>13, <1>14, <1>15, <1>16, <1>17,
           <1>20, <1>21, <1>22, <1>23, <1>24 DEF Move

-----------------------------------------------------------------------------
(***************************************************************************)
(* How often a callback is called.  An operation that the slot or an       *)
(* attempt holds has not been answered, is held once, and, unless the user *)
(* repeats operations, has not been cancelled.                             *)
(***************************************************************************)

\* handleHup has no reason to call a callback twice: a hangup comes with
\* EPOLLIN/EPOLLOUT, or there is no readAll, writeAll, recvAll or sendAll.
ToldOnce == (HupOnEnd => RdyOnEnd) \/ Ops \cap BufAll = {}

NoSecondCall ==
  /\ \A n \in DOMAIN stack : stack[n].k # "hupEnd"
  /\ (HupOnEnd => RdyOnEnd) =>
       /\ notif # {} => "RDY" \in notif
       /\ \A n \in DOMAIN stack : stack[n].k \notin {"hup", "hupAll"}

Open(id) ==
  hist[id].finals = 0 /\ ("repeat" \notin Habits => ~hist[id].cancelled)

SlotOpen == op.operation # "none" => Open(op.id)

TriesOpen ==
  \A n \in DOMAIN stack : Tries(stack[n]) =>
    Open(stack[n].id) /\ (op.operation # "none" => op.id # stack[n].id)

Apart ==
  \A m, n \in DOMAIN stack :
    Tries(stack[m]) /\ Tries(stack[n]) /\ stack[m].id = stack[n].id => m = n

Answers ==
  \A id \in 1..Len(hist) :
    hist[id].finals <= 1 /\ ("repeat" \notin Habits => ~hist[id].late)

AnswerInv == SlotOpen /\ TriesOpen /\ Apart /\ Answers

\* Operation id is open after the step.
StaysOpen(id) ==
  hist'[id].finals = 0 /\ ("repeat" \notin Habits => ~hist'[id].cancelled)

LEMMA AnswerKept ==
  ASSUME AnswerInv, Answers', NEW m, Kept(m),
         op'.operation # "none" => StaysOpen(op'.id),
         \A n \in 1..m : Tries(stack[n]) =>
           StaysOpen(stack[n].id) /\ (op'.operation # "none" => op'.id # stack[n].id),
         \A n \in (m + 1)..Len(stack') : Tries(stack'[n]) =>
           /\ n = m + 1 /\ StaysOpen(stack'[n].id)
           /\ op'.operation # "none" => op'.id # stack'[n].id
           /\ \A k \in 1..m : Tries(stack[k]) => stack[k].id # stack'[n].id
  PROVE  AnswerInv'
<1>1. SlotOpen'
  BY DEF SlotOpen, Open, StaysOpen
<1>2. /\ DOMAIN stack' = 1..Len(stack') /\ DOMAIN stack = 1..Len(stack)
      /\ m \in Nat /\ Len(stack') \in Nat /\ Len(stack) \in Nat
      /\ m <= Len(stack) /\ m <= Len(stack')
      /\ \A n \in 1..m : stack'[n] = stack[n]
  BY DEF Kept
<1>3. \A n \in DOMAIN stack' : n \in 1..m \/ n \in (m + 1)..Len(stack')
  BY <1>2
<1>4. TriesOpen'
  <2> SUFFICES ASSUME NEW n \in DOMAIN stack', Tries(stack'[n])
               PROVE  /\ StaysOpen(stack'[n].id)
                      /\ op'.operation # "none" => op'.id # stack'[n].id
    BY DEF TriesOpen, Open, StaysOpen, Tries
  <2>1. CASE n \in 1..m
    BY <1>2, <2>1
  <2>2. CASE n \in (m + 1)..Len(stack')
    BY <2>2
  <2> QED BY <1>3, <2>1, <2>2
<1>5. Apart'
  <2> SUFFICES ASSUME NEW k \in DOMAIN stack', NEW n \in DOMAIN stack',
                      Tries(stack'[k]), Tries(stack'[n]), stack'[k].id = stack'[n].id
               PROVE  k = n
    BY DEF Apart, Tries
  <2>1. CASE k \in 1..m /\ n \in 1..m
    <3>1. k \in DOMAIN stack /\ n \in DOMAIN stack
      BY <1>2, <2>1
    <3> QED BY <1>2, <2>1, <3>1 DEF AnswerInv, Apart
  <2>2. CASE k \in 1..m /\ n \in (m + 1)..Len(stack')
    BY <1>2, <2>2
  <2>3. CASE n \in 1..m /\ k \in (m + 1)..Len(stack')
    BY <1>2, <2>3
  <2>4. CASE k \in (m + 1)..Len(stack') /\ n \in (m + 1)..Len(stack')
    BY <2>4
  <2> QED BY <1>3, <2>1, <2>2, <2>3, <2>4
<1> QED BY <1>1, <1>4, <1>5 DEF AnswerInv

\* What is open stays open unless the step touches it.
LEMMA OthersOpen ==
  ASSUME Inv, AnswerInv, NEW c, Len(hist') = Len(hist),
         \A j \in 1..Len(hist) : j # c => hist'[j] = hist[j],
         c \in 1..Len(hist) =>
           hist'[c].finals <= 1 /\ ("repeat" \notin Habits => ~hist'[c].late)
  PROVE  /\ Answers'
         /\ \A j \in 1..Len(hist) : j # c /\ Open(j) => StaysOpen(j)
<1>1. Answers'
  BY DEF AnswerInv, Answers
<1>2. \A j \in 1..Len(hist) : j # c /\ Open(j) => StaysOpen(j)
  BY DEF Open, StaysOpen
<1> QED BY <1>1, <1>2

LEMMA NewOpen ==
  ASSUME Inv, AnswerInv, NEW o \in Ops, NEW rep \in BOOLEAN, NEW fin \in 0..1,
         hist' = Append(hist, [o |-> o, repeat |-> rep, finals |-> fin,
                               cancelled |-> FALSE, late |-> FALSE])
  PROVE  /\ Answers' /\ Len(hist) \in Nat
         /\ fin = 0 => StaysOpen(Len(hist) + 1)
         /\ \A j \in 1..Len(hist) : Open(j) => StaysOpen(j)
<1> DEFINE h == [o |-> o, repeat |-> rep, finals |-> fin,
                 cancelled |-> FALSE, late |-> FALSE]
<1>1. h \in OpHistory /\ h.finals = fin /\ h.late = FALSE /\ h.cancelled = FALSE
  BY FileOpAssumption DEF OpHistory
<1>2. hist' = Append(hist, h)
  OBVIOUS
<1> HIDE DEF h
<1>3. /\ Len(hist') = Len(hist) + 1 /\ Len(hist) \in Nat
      /\ \A j \in 1..Len(hist) : hist'[j] = hist[j]
      /\ hist'[Len(hist) + 1] = h
  BY <1>1, <1>2, StartedHist, HistLen DEF Inv
<1>4. \A j \in 1..Len(hist') : j \in 1..Len(hist) \/ j = Len(hist) + 1
  BY <1>3
<1>5. Answers'
  BY <1>1, <1>3, <1>4 DEF AnswerInv, Answers
<1>6. fin = 0 => StaysOpen(Len(hist) + 1)
  BY <1>1, <1>3 DEF StaysOpen
<1>7. \A j \in 1..Len(hist) : Open(j) => StaysOpen(j)
  BY <1>3 DEF Open, StaysOpen
<1> QED BY <1>3, <1>5, <1>6, <1>7

\* The attempts that are in progress, and the slot, before the step.
LEMMA HeldFacts ==
  ASSUME Inv, KnownInv, AnswerInv
  PROVE  /\ \A n \in DOMAIN stack : Tries(stack[n]) =>
              /\ stack[n].id \in 1..Len(hist) /\ Open(stack[n].id)
              /\ op.operation # "none" => op.id # stack[n].id
              /\ InAttempt /\ stack[n].id = Top.id => n = Len(stack)
         /\ op.operation # "none" => op.id \in 1..Len(hist) /\ Open(op.id)
<1>1. \A n \in DOMAIN stack : Tries(stack[n]) => stack[n].id \in 1..Len(hist)
  BY DEF KnownInv, FrameKnown, Known
<1>2. op.operation # "none" => op.id \in 1..Len(hist) /\ Open(op.id)
  BY DEF KnownInv, SlotKnown, Known, AnswerInv, SlotOpen
<1>3. \A n \in DOMAIN stack : Tries(stack[n]) =>
        Open(stack[n].id) /\ (op.operation # "none" => op.id # stack[n].id)
  BY DEF AnswerInv, TriesOpen
<1>4. InAttempt => Len(stack) \in DOMAIN stack /\ Tries(stack[Len(stack)])
  BY PoppedFacts DEF InAttempt, Top, Inv, TypeOK
<1>5. \A n \in DOMAIN stack : Tries(stack[n]) =>
        (InAttempt /\ stack[n].id = Top.id => n = Len(stack))
  BY <1>4 DEF AnswerInv, Apart, Top
<1> QED BY <1>1, <1>2, <1>3, <1>5

LEMMA SecondCallStep ==
  ToldOnce /\ Inv /\ KnownInv /\ NoSecondCall /\ [Next]_vars => NoSecondCall'
<1> SUFFICES ASSUME ToldOnce, Inv, KnownInv, NoSecondCall, [Next]_vars
             PROVE  NoSecondCall'
  OBVIOUS
<1>1. TypeOK /\ stack \in Seq(Frames)
  BY DEF Inv, TypeOK
<1>2. (HupOnEnd => RdyOnEnd) /\ notif' # {} => "RDY" \in notif'
  <2>1. notif' = notif \/ notif' = {} \/ notif' = Mask
    BY DEF Next, Kernel, User, Library, Start, End, OtherEdge, Arrive, StartWait,
           StartPlain, StartV, StartSendFile, StartRwAll, StartSrAll, StartVAll,
           StartClose, CloseFd, Cancel, Add, Remove, Harvest, Dispatch, TryStep,
           TryAllStep, DoPlain, DoWait, DoRepeat, DoAll, DoOther, HupPlain, HupAll,
           HupEnd, HupNone, CallbackReturn, epollVars, vars
  <2>2. (HupOnEnd => RdyOnEnd) /\ Mask # {} => "RDY" \in Mask
    BY DEF Mask
  <2> QED BY <2>1, <2>2 DEF NoSecondCall
<1> DEFINE Fine(f) == /\ f.k # "hupEnd"
                      /\ (HupOnEnd => RdyOnEnd) => f.k \notin {"hup", "hupAll"}
<1>3. ASSUME NEW m, Kept(m), \A n \in (m + 1)..Len(stack') : Fine(stack'[n])
      PROVE  NoSecondCall'
  <2>1. ASSUME NEW n \in DOMAIN stack' PROVE Fine(stack'[n])
    <3>1. CASE n \in 1..m
      <4>1. n \in DOMAIN stack /\ stack'[n] = stack[n]
        BY <1>3, <3>1 DEF Kept
      <4> QED BY <4>1 DEF NoSecondCall
    <3>2. CASE n \in (m + 1)..Len(stack')
      BY <1>3, <3>2
    <3> QED BY <1>3, <2>1, <3>1, <3>2 DEF Kept
  <2> QED BY <1>2, <2>1 DEF NoSecondCall
<1>4. ASSUME NEW f \in Frames, Fine(f), stack' = Append(stack, f)
      PROVE  NoSecondCall'
  <2>1. Kept(Len(stack)) /\ Len(stack') = Len(stack) + 1 /\ stack'[Len(stack) + 1] = f
    BY <1>1, <1>4, KeptPush
  <2>2. \A n \in (Len(stack) + 1)..Len(stack') : Fine(stack'[n])
    BY <1>4, <2>1 DEF Kept
  <2> HIDE DEF Fine
  <2> QED BY <1>3, <2>1, <2>2
<1>5. ASSUME NEW f \in Frames, Fine(f), stack # <<>>, stack' = Replaced(f)
      PROVE  NoSecondCall'
  <2>1. /\ Kept(Len(stack) - 1) /\ Len(stack') = Len(stack) /\ stack'[Len(stack)] = f
        /\ Len(stack) \in Nat \ {0}
    BY <1>1, <1>5, KeptSwap
  <2>2. \A n \in (Len(stack) - 1 + 1)..Len(stack') : Fine(stack'[n])
    BY <1>5, <2>1
  <2> HIDE DEF Fine
  <2> QED BY <1>3, <2>1, <2>2
<1>6. ASSUME NEW f \in Frames, Fine(f), NEW u \in Frames, Fine(u), stack # <<>>,
             stack' = Append(Replaced(f), u)
      PROVE  NoSecondCall'
  <2>1. /\ Kept(Len(stack) - 1) /\ Len(stack') = Len(stack) + 1 /\ stack'[Len(stack)] = f
        /\ stack'[Len(stack) + 1] = u /\ Len(stack) \in Nat \ {0}
    BY <1>1, <1>6, KeptCall
  <2>2. \A n \in (Len(stack) - 1 + 1)..Len(stack') : n = Len(stack) \/ n = Len(stack) + 1
    BY <2>1
  <2>3. \A n \in (Len(stack) - 1 + 1)..Len(stack') : Fine(stack'[n])
    BY <1>6, <2>1, <2>2
  <2> HIDE DEF Fine
  <2> QED BY <1>3, <2>1, <2>3
<1>7. CASE stack' = stack
  <2>1. Kept(Len(stack)) /\ Len(stack') = Len(stack)
    BY <1>1, <1>7, KeptSame
  <2>2. \A n \in (Len(stack) + 1)..Len(stack') : Fine(stack'[n])
    BY <2>1 DEF Kept
  <2> HIDE DEF Fine
  <2> QED BY <1>3, <2>1, <2>2
<1>8. CASE stack # <<>> /\ stack' = Popped
  <2>1. Kept(Len(stack) - 1) /\ Len(stack') = Len(stack) - 1 /\ Len(stack) \in Nat \ {0}
    BY <1>1, <1>8, KeptPop
  <2>2. \A n \in (Len(stack) - 1 + 1)..Len(stack') : Fine(stack'[n])
    BY <2>1
  <2> HIDE DEF Fine
  <2> QED BY <1>3, <2>1, <2>2
<1>9. ASSUME NEW id \in 1..Len(hist), NEW r \in Int
      PROVE  UserFrame(id, r) \in Frames /\ Fine(UserFrame(id, r))
  <2>1. id \in Ids
    BY <1>1, HistLen, FileOpAssumption DEF Ids, TypeOK
  <2>2. UserFrame(id, r) \in Frames /\ UserFrame(id, r).k = "user"
    BY <2>1, UserFrameFacts
  <2> QED BY <2>2
<1>10. /\ op.operation # "none" => op.id \in 1..Len(hist)
       /\ InAttempt => Top.id \in 1..Len(hist) /\ Top \in Frames /\ Fine(Top)
  BY KnownTop DEF KnownInv, SlotKnown, Known, InAttempt, Tries
<1>11. Move
  BY NextMoves
<1>12. CASE Quiet \/ Cancel
  BY <1>7, <1>12 DEF Quiet, Cancel
<1>13. CASE Returns \/ Parks \/ Refuses
  BY <1>8, <1>13 DEF Returns, Parks, Refuses, InCall, InAttempt
<1>14. CASE Loops
  <2>1. PICK f \in Frames : f.k \in {"do", "rest"} /\ stack' = Replaced(f)
    BY <1>14 DEF Loops
  <2> QED BY <1>5, <1>14, <2>1 DEF Loops, InCall
<1>15. CASE Gains
  <2>1. PICK d \in Nat : stack' = Replaced([Top EXCEPT !.br = @ + d])
    BY <1>15 DEF Gains
  <2>2. stack # <<>> /\ Top.k = "tryAll" /\ Top \in Frames
    BY <1>10, <1>15 DEF Gains, InAttempt
  <2>3. Top \in TryAllFrames
    BY <2>2 DEF Frames, UserFrames, TryFrames, TryAllFrames, DoFrames,
                RepeatFrames, HupFrames
  <2> DEFINE f == [Top EXCEPT !.br = @ + d]
  <2>4. f \in TryAllFrames /\ f.k = "tryAll"
    BY <2>3 DEF TryAllFrames
  <2>5. f \in Frames /\ stack' = Replaced(f)
    BY <2>1, <2>4 DEF Frames
  <2> HIDE DEF f
  <2> QED BY <1>5, <2>2, <2>4, <2>5
<1>16. CASE AnswersTry
  <2>1. PICK r \in Int : InAttempt /\ stack' = Replaced(UserFrame(Top.id, r))
    BY <1>16 DEF AnswersTry, TailCall
  <2> HIDE DEF Fine
  <2> QED BY <1>5, <1>9, <1>10, <2>1 DEF InAttempt
<1>17. CASE RepeatsTry
  <2>1. PICK r \in Int : InAttempt /\ stack' = Append(Replaced(Top), UserFrame(Top.id, r))
    BY <1>17 DEF RepeatsTry, CallThen
  <2> HIDE DEF Fine
  <2> QED BY <1>6, <1>9, <1>10, <2>1 DEF InAttempt
<1>18. CASE AnswersSlot
  <2>1. PICK r \in Int :
          /\ InCall /\ op.operation # "none"
          /\ \/ TailCall(op.id, r)
             \/ /\ Top.k \in {"hup", "hupAll"}
                /\ \E k \in {"hupAll", "hupEnd"} :
                     (k = "hupEnd" => op.operation \in BufAll) /\ CallThen([k |-> k], op.id, r)
    BY <1>18 DEF AnswersSlot
  <2>2. UserFrame(op.id, r) \in Frames /\ Fine(UserFrame(op.id, r)) /\ stack # <<>>
    BY <1>9, <1>10, <2>1 DEF InCall
  <2>3. CASE TailCall(op.id, r)
    <3> HIDE DEF Fine
    <3> QED BY <1>5, <2>2, <2>3 DEF TailCall
  <2>4. ASSUME Top.k \in {"hup", "hupAll"}, NEW k \in {"hupAll", "hupEnd"},
               k = "hupEnd" => op.operation \in BufAll, CallThen([k |-> k], op.id, r)
        PROVE  NoSecondCall'
    <3>1. ~(HupOnEnd => RdyOnEnd)
      BY <1>1, <2>2, <2>4, PoppedFacts DEF NoSecondCall, Top
    <3>2. op.operation \in Ops
      BY <2>1 DEF KnownInv, SlotKnown, HistKnown, Known
    <3>3. k # "hupEnd"
      BY <2>4, <3>1, <3>2 DEF ToldOnce
    <3> DEFINE f == [k |-> k]
    <3>4. f \in Frames /\ Fine(f)
      BY <3>1, <3>3, NewFrames
    <3>5. stack' = Append(Replaced(f), UserFrame(op.id, r))
      BY <2>4 DEF CallThen
    <3> HIDE DEF f, Fine
    <3> QED BY <1>6, <2>2, <3>4, <3>5
  <2> QED BY <2>1, <2>3, <2>4
<1>19. CASE RepeatsSlot
  <2>1. PICK r \in Int, f \in Frames :
          /\ InCall /\ op.operation \in Plain /\ f.k = "repeat" /\ CallThen(f, op.id, r)
    BY <1>19 DEF RepeatsSlot
  <2>2. UserFrame(op.id, r) \in Frames /\ Fine(UserFrame(op.id, r)) /\ stack # <<>>
    BY <1>9, <1>10, <2>1 DEF InCall, Plain
  <2>3. Fine(f)
    BY <2>1
  <2> HIDE DEF Fine
  <2> QED BY <1>6, <2>1, <2>2, <2>3 DEF CallThen
<1>20. CASE EndsAgain
  BY <1>1, <1>20, PoppedFacts DEF EndsAgain, TopIs, Top, NoSecondCall
<1>21. CASE Stores
  <2>1. stack' = stack \/ stack' = Append(stack, [k |-> "do", hup |-> FALSE])
    BY <1>21 DEF Stores
  <2>2. [k |-> "do", hup |-> FALSE] \in Frames
    BY NewFrames
  <2> QED BY <1>4, <1>7, <2>1, <2>2
<1>22. CASE Attempts
  <2>1. PICK f \in Frames : Tries(f) /\ stack' = Append(stack, f)
    BY <1>22 DEF Attempts
  <2> QED BY <1>4, <2>1 DEF Tries
<1>23. CASE ClosesNow
  <2>1. NewId \in Ids /\ 0 \in Int
    BY <1>1, <1>23, HistLen, FileOpAssumption DEF ClosesNow, MayStart, NewId, Ids, TypeOK
  <2>2. UserFrame(NewId, 0) \in Frames /\ UserFrame(NewId, 0).k = "user"
    BY <2>1, UserFrameFacts
  <2> QED BY <1>4, <1>23, <2>2 DEF ClosesNow
<1>24. CASE Enters
  <2>1. PICK f \in Frames : /\ f.k \in {"do", "hup", "abort"}
                            /\ f.k = "hup" => notif # {} /\ "RDY" \notin notif
                            /\ stack' = Append(stack, f)
    BY <1>24 DEF Enters
  <2>2. Fine(f)
    BY <2>1 DEF NoSecondCall
  <2> HIDE DEF Fine
  <2> QED BY <1>4, <2>1, <2>2
<1> QED BY <1>11, <1>12, <1>13, <1>14, <1>15, <1>16, <1>17, <1>18, <1>19, <1>20,
           <1>21, <1>22, <1>23, <1>24 DEF Move

LEMMA AnswerStep ==
  Inv /\ Inv' /\ KnownInv /\ NoSecondCall /\ AnswerInv /\ Move => AnswerInv'
<1> SUFFICES ASSUME Inv, Inv', KnownInv, NoSecondCall, AnswerInv, Move PROVE AnswerInv'
  OBVIOUS
<1>1. /\ TypeOK /\ stack \in Seq(Frames) /\ op \in OperationInfo
      /\ Len(hist) \in Nat /\ NewId = Len(hist) + 1
      /\ Len(hist') \in Nat /\ DOMAIN hist' = 1..Len(hist')
  BY HistLen, LenProperties DEF Inv, TypeOK, NewId
<1>2. /\ \A n \in DOMAIN stack : Tries(stack[n]) =>
           /\ stack[n].id \in 1..Len(hist) /\ Open(stack[n].id)
           /\ op.operation # "none" => op.id # stack[n].id
           /\ InAttempt /\ stack[n].id = Top.id => n = Len(stack)
      /\ op.operation # "none" => op.id \in 1..Len(hist) /\ Open(op.id)
  BY HeldFacts
<1>3. InAttempt => /\ stack # <<>> /\ Top \in Frames /\ Len(stack) \in DOMAIN stack
                   /\ Top.id \in 1..Len(hist) /\ Open(Top.id)
                   /\ op.operation # "none" => op.id # Top.id
                   /\ Top.k = "try" => hist[Top.id].repeat = Top.repeat
                   /\ Top.k = "tryAll" => ~hist[Top.id].repeat
  <2>1. InAttempt => stack # <<>> /\ Len(stack) \in DOMAIN stack /\ Top = stack[Len(stack)]
    BY <1>1, PoppedFacts DEF InAttempt, Top
  <2> QED BY <1>2, <2>1, KnownTop DEF InAttempt, Known
<1>4. hist' = hist => Answers' /\ \A j : Open(j) => StaysOpen(j)
  BY DEF AnswerInv, Answers, Open, StaysOpen
\* The operation in the slot is the same or gone, and no attempt is new.
<1>5. ASSUME NEW m, Kept(m), Answers',
             \A n \in 1..m : Tries(stack[n]) => StaysOpen(stack[n].id),
             op'.operation # "none" =>
               op.operation # "none" /\ op'.id = op.id /\ StaysOpen(op.id),
             \A n \in (m + 1)..Len(stack') : ~Tries(stack'[n])
      PROVE  AnswerInv'
  <2>1. \A n \in 1..m : n \in DOMAIN stack
    BY <1>5 DEF Kept
  <2>2. \A n \in 1..m : Tries(stack[n]) =>
          StaysOpen(stack[n].id) /\ (op'.operation # "none" => op'.id # stack[n].id)
    BY <1>2, <1>5, <2>1
  <2>3. op'.operation # "none" => StaysOpen(op'.id)
    BY <1>5
  <2> QED BY <1>5, <2>2, <2>3, AnswerKept
<1>6. ASSUME NEW m, Kept(m), hist' = hist,
             op'.operation # "none" => op.operation # "none" /\ op'.id = op.id,
             \A n \in (m + 1)..Len(stack') : ~Tries(stack'[n])
      PROVE  AnswerInv'
  <2>1. \A n \in 1..m : Tries(stack[n]) => StaysOpen(stack[n].id)
    BY <1>2, <1>4, <1>6 DEF Kept
  <2> QED BY <1>2, <1>4, <1>5, <1>6, <2>1
<1>7. CASE Quiet
  <2>1. Kept(Len(stack)) /\ Len(stack') = Len(stack)
    BY <1>1, <1>7, KeptSame DEF Quiet
  <2>2. \A n \in (Len(stack) + 1)..Len(stack') : ~Tries(stack'[n])
    BY <2>1 DEF Kept
  <2> QED BY <1>6, <1>7, <2>1, <2>2 DEF Quiet
<1>8. CASE Returns
  <2>1. Kept(Len(stack) - 1) /\ Len(stack') = Len(stack) - 1 /\ Len(stack) \in Nat \ {0}
    BY <1>1, <1>8, KeptPop DEF Returns, InCall
  <2>2. \A n \in (Len(stack) - 1 + 1)..Len(stack') : ~Tries(stack'[n])
    BY <2>1
  <2>3. op'.id = op.id /\ op'.operation = op.operation
    BY <1>1, <1>8 DEF Returns, OperationInfo
  <2> QED BY <1>6, <1>8, <2>1, <2>2, <2>3 DEF Returns, SameBooks
<1>9. InAttempt /\ stack' = Popped =>
        /\ Kept(Len(stack) - 1) /\ Len(stack') = Len(stack) - 1 /\ Len(stack) \in Nat \ {0}
        /\ \A n \in 1..(Len(stack) - 1) :
             n \in DOMAIN stack /\ (Tries(stack[n]) => stack[n].id # Top.id)
        /\ \A n \in (Len(stack) - 1 + 1)..Len(stack') : ~Tries(stack'[n])
  <2> HAVE InAttempt /\ stack' = Popped
  <2>1. Kept(Len(stack) - 1) /\ Len(stack') = Len(stack) - 1 /\ Len(stack) \in Nat \ {0}
    BY <1>1, <1>3, KeptPop
  <2>2. \A n \in 1..(Len(stack) - 1) : n \in DOMAIN stack /\ n # Len(stack)
    <3>1. DOMAIN stack = 1..Len(stack)
      BY <2>1 DEF Kept
    <3> QED BY <2>1, <3>1
  <2>3. \A n \in (Len(stack) - 1 + 1)..Len(stack') : ~Tries(stack'[n])
    BY <2>1
  <2> QED BY <1>2, <2>1, <2>2, <2>3
<1>10. CASE Parks
  <2>1. /\ InAttempt /\ stack' = Popped /\ hist' = hist
        /\ op'.id = Top.id
    BY <1>10 DEF Parks, SameBooks, addRWOp
  <2>2. Answers' /\ StaysOpen(op'.id)
    BY <1>3, <1>4, <2>1
  <2>3. \A n \in 1..(Len(stack) - 1) : Tries(stack[n]) =>
          StaysOpen(stack[n].id) /\ (op'.operation # "none" => op'.id # stack[n].id)
    BY <1>2, <1>4, <1>9, <2>1
  <2> QED BY <1>9, <2>1, <2>2, <2>3, AnswerKept
<1>11. CASE Refuses
  <2>1. /\ InAttempt /\ stack' = Popped /\ op' = op
        /\ hist' = [hist EXCEPT ![Top.id].cancelled = TRUE]
    BY <1>11 DEF Refuses
  <2>2. /\ Len(hist') = Len(hist)
        /\ \A j \in 1..Len(hist) :
             /\ hist'[j].finals = hist[j].finals /\ hist'[j].late = hist[j].late
             /\ j \notin {Top.id} => hist'[j] = hist[j]
    BY <1>1, <2>1, MarkedHist
  <2>3. Answers' /\ \A j \in 1..Len(hist) : j # Top.id /\ Open(j) => StaysOpen(j)
    BY <2>2, OthersOpen DEF AnswerInv, Answers
  <2>4. \A n \in 1..(Len(stack) - 1) : Tries(stack[n]) => StaysOpen(stack[n].id)
    BY <1>2, <1>9, <2>1, <2>3
  <2>5. op'.operation # "none" => StaysOpen(op.id)
    BY <1>2, <1>3, <2>1, <2>3
  <2> QED BY <1>5, <1>9, <2>1, <2>3, <2>4, <2>5
<1>12. CASE Loops
  <2>1. PICK f \in Frames : f.k \in {"do", "rest"} /\ stack' = Replaced(f)
    BY <1>12 DEF Loops
  <2>2. /\ Kept(Len(stack) - 1) /\ Len(stack') = Len(stack) /\ stack'[Len(stack)] = f
        /\ Len(stack) \in Nat \ {0}
    BY <1>1, <1>12, <2>1, KeptSwap DEF Loops, InCall
  <2>3. \A n \in (Len(stack) - 1 + 1)..Len(stack') : ~Tries(stack'[n])
    BY <2>1, <2>2 DEF Tries
  <2> QED BY <1>6, <1>12, <2>2, <2>3 DEF Loops, SameBooks
<1>13. CASE Gains
  <2>1. PICK d \in Nat : stack' = Replaced([Top EXCEPT !.br = @ + d])
    BY <1>13 DEF Gains
  <2>2. InAttempt /\ Top.k = "tryAll" /\ hist' = hist /\ op' = op
    BY <1>13 DEF Gains, SameBooks
  <2>3. Top \in TryAllFrames
    BY <1>3, <2>2 DEF Frames, UserFrames, TryFrames, TryAllFrames, DoFrames,
                RepeatFrames, HupFrames
  <2> DEFINE f == [Top EXCEPT !.br = @ + d]
  <2>4. f \in TryAllFrames /\ f.id = Top.id
    BY <2>3 DEF TryAllFrames
  <2>5. f \in Frames /\ stack' = Replaced(f)
    BY <2>1, <2>4 DEF Frames
  <2> HIDE DEF f
  <2>6. /\ Kept(Len(stack) - 1) /\ Len(stack') = Len(stack) /\ stack'[Len(stack)] = f
        /\ Len(stack) \in Nat \ {0}
    BY <1>1, <1>3, <2>2, <2>5, KeptSwap
  <2>7. \A n \in 1..(Len(stack) - 1) :
          n \in DOMAIN stack /\ (Tries(stack[n]) => stack[n].id # Top.id)
    BY <1>2, <2>2, <2>6 DEF Kept
  <2>8. /\ op'.operation # "none" => StaysOpen(op'.id)
        /\ StaysOpen(Top.id) /\ Answers'
    BY <1>2, <1>3, <1>4, <2>2
  <2>9. \A n \in 1..(Len(stack) - 1) : Tries(stack[n]) =>
          StaysOpen(stack[n].id) /\ (op'.operation # "none" => op'.id # stack[n].id)
    BY <1>2, <1>4, <2>2, <2>7
  <2>10. \A n \in (Len(stack) - 1 + 1)..Len(stack') :
           /\ n = Len(stack) - 1 + 1 /\ stack'[n] = f
           /\ StaysOpen(stack'[n].id)
           /\ op'.operation # "none" => op'.id # stack'[n].id
           /\ \A k \in 1..(Len(stack) - 1) : Tries(stack[k]) => stack[k].id # stack'[n].id
    BY <1>3, <2>2, <2>4, <2>6, <2>7, <2>8
  <2> QED BY <2>6, <2>8, <2>9, <2>10, AnswerKept
<1>14. ASSUME NEW id \in 1..Len(hist), NEW r \in Int, Called(id, r), Open(id)
       PROVE  /\ Answers' /\ \A j \in 1..Len(hist) : j # id /\ Open(j) => StaysOpen(j)
              /\ hist[id].repeat /\ r > 0 => StaysOpen(id)
              /\ UserFrame(id, r) \in Frames /\ ~Tries(UserFrame(id, r))
  <2>1. /\ Len(hist') = Len(hist)
        /\ \A j \in 1..Len(hist) : j # id => hist'[j] = hist[j]
        /\ hist'[id].finals =
             IF hist[id].repeat /\ r > 0 THEN hist[id].finals ELSE hist[id].finals + 1
        /\ hist'[id].late => hist[id].late \/ hist[id].cancelled
    BY <1>1, <1>14, CalledHist
  <2>2. hist'[id].finals <= 1 /\ ("repeat" \notin Habits => ~hist'[id].late)
    BY <1>14, <2>1 DEF Open, AnswerInv, Answers
  <2>3. Answers' /\ \A j \in 1..Len(hist) : j # id /\ Open(j) => StaysOpen(j)
    BY <2>1, <2>2, OthersOpen
  <2>4. hist[id].repeat => "repeat" \in Habits
    BY DEF KnownInv, HistKnown
  <2>5. hist[id].repeat /\ r > 0 => StaysOpen(id)
    BY <1>14, <2>1, <2>4 DEF StaysOpen, Open
  <2>6. id \in Ids
    BY <1>1, FileOpAssumption DEF Ids, TypeOK
  <2> QED BY <2>3, <2>5, <2>6, UserFrameFacts DEF Tries
<1>15. CASE AnswersTry
  <2>1. PICK r \in Int : InAttempt /\ TailCall(Top.id, r) /\ op' = op
    BY <1>15 DEF AnswersTry
  <2>2. /\ Answers' /\ \A j \in 1..Len(hist) : j # Top.id /\ Open(j) => StaysOpen(j)
        /\ UserFrame(Top.id, r) \in Frames /\ ~Tries(UserFrame(Top.id, r))
    BY <1>3, <1>14, <2>1 DEF TailCall
  <2>3. /\ Kept(Len(stack) - 1) /\ Len(stack') = Len(stack) /\ Len(stack) \in Nat \ {0}
        /\ stack'[Len(stack)] = UserFrame(Top.id, r)
    BY <1>1, <1>3, <2>1, <2>2, KeptSwap DEF TailCall
  <2>4. \A n \in (Len(stack) - 1 + 1)..Len(stack') : ~Tries(stack'[n])
    BY <2>2, <2>3
  <2>5. DOMAIN stack = 1..Len(stack)
    BY <2>3 DEF Kept
  <2>6. \A n \in 1..(Len(stack) - 1) : n \in DOMAIN stack /\ n # Len(stack)
    BY <2>3, <2>5
  <2>7. \A n \in 1..(Len(stack) - 1) : Tries(stack[n]) => StaysOpen(stack[n].id)
    BY <1>2, <2>1, <2>2, <2>6
  <2>8. op'.operation # "none" => op.operation # "none" /\ op'.id = op.id /\ StaysOpen(op.id)
    BY <1>2, <1>3, <2>1, <2>2
  <2> QED BY <1>5, <2>2, <2>3, <2>4, <2>7, <2>8
<1>16. CASE RepeatsTry
  <2>1. PICK r \in Int : /\ r > 0 /\ InAttempt /\ Top.k = "try" /\ Top.repeat
                         /\ CallThen(Top, Top.id, r) /\ op' = op
    BY <1>16 DEF RepeatsTry
  <2>2. /\ Answers' /\ \A j \in 1..Len(hist) : j # Top.id /\ Open(j) => StaysOpen(j)
        /\ StaysOpen(Top.id)
        /\ UserFrame(Top.id, r) \in Frames /\ ~Tries(UserFrame(Top.id, r))
    BY <1>3, <1>14, <2>1 DEF CallThen
  <2>3. /\ Kept(Len(stack) - 1) /\ Len(stack') = Len(stack) + 1 /\ Len(stack) \in Nat \ {0}
        /\ stack'[Len(stack)] = Top /\ stack'[Len(stack) + 1] = UserFrame(Top.id, r)
    BY <1>1, <1>3, <2>1, <2>2, KeptCall DEF CallThen
  <2>4. DOMAIN stack = 1..Len(stack) /\ Len(stack) \in Nat \ {0}
    BY <2>3 DEF Kept
  <2>5. \A n \in 1..(Len(stack) - 1) : n \in DOMAIN stack /\ n # Len(stack)
    BY <2>4, BelowTop
  <2>6. \A n \in 1..(Len(stack) - 1) : Tries(stack[n]) =>
          /\ StaysOpen(stack[n].id) /\ stack[n].id # Top.id
          /\ op'.operation # "none" => op'.id # stack[n].id
    BY <1>2, <2>1, <2>2, <2>5
  <2>7. op'.operation # "none" => StaysOpen(op'.id)
    BY <1>2, <1>3, <2>1, <2>2
  <2>8. ASSUME NEW n \in (Len(stack) - 1 + 1)..Len(stack'), Tries(stack'[n])
        PROVE  /\ n = Len(stack) - 1 + 1 /\ StaysOpen(stack'[n].id)
               /\ op'.operation # "none" => op'.id # stack'[n].id
               /\ \A k \in 1..(Len(stack) - 1) : Tries(stack[k]) => stack[k].id # stack'[n].id
    <3>1. n = Len(stack) \/ n = Len(stack) + 1
      BY <2>3, <2>8
    <3>2. n = Len(stack) /\ stack'[n] = Top
      BY <2>2, <2>3, <2>8, <3>1
    <3> QED BY <1>3, <2>1, <2>2, <2>3, <2>6, <3>2
  <2> QED BY <2>2, <2>3, <2>6, <2>7, <2>8, AnswerKept
\* The tries stay open when the callback of the operation in the slot is called.
<1>17. ASSUME NEW m, Kept(m), op.operation # "none",
              \A j \in 1..Len(hist) : j # op.id /\ Open(j) => StaysOpen(j)
       PROVE  \A n \in 1..m : Tries(stack[n]) => StaysOpen(stack[n].id)
  <2>1. \A n \in 1..m : n \in DOMAIN stack
    BY <1>17 DEF Kept
  <2> QED BY <1>2, <1>17, <2>1
<1>18. ASSUME NEW r \in Int, NEW f \in Frames, ~Tries(f), stack # <<>>,
              op.operation # "none", CallThen(f, op.id, r),
              op'.operation = "none" \/ (op' = op /\ hist[op.id].repeat /\ r > 0)
       PROVE  AnswerInv'
  <2>1. /\ Answers' /\ \A j \in 1..Len(hist) : j # op.id /\ Open(j) => StaysOpen(j)
        /\ hist[op.id].repeat /\ r > 0 => StaysOpen(op.id)
        /\ UserFrame(op.id, r) \in Frames /\ ~Tries(UserFrame(op.id, r))
    BY <1>2, <1>14, <1>18 DEF CallThen
  <2>2. /\ Kept(Len(stack) - 1) /\ Len(stack') = Len(stack) + 1 /\ Len(stack) \in Nat \ {0}
        /\ stack'[Len(stack)] = f /\ stack'[Len(stack) + 1] = UserFrame(op.id, r)
    BY <1>1, <1>18, <2>1, KeptCall DEF CallThen
  <2>3. \A n \in (Len(stack) - 1 + 1)..Len(stack') : n = Len(stack) \/ n = Len(stack) + 1
    BY <2>2
  <2>4. \A n \in (Len(stack) - 1 + 1)..Len(stack') : ~Tries(stack'[n])
    BY <1>18, <2>1, <2>2, <2>3
  <2>5. \A n \in 1..(Len(stack) - 1) : Tries(stack[n]) => StaysOpen(stack[n].id)
    BY <1>17, <1>18, <2>1, <2>2
  <2> QED BY <1>5, <1>18, <2>1, <2>2, <2>4, <2>5
<1>19. CASE AnswersSlot
  <2>1. PICK r \in Int :
          /\ InCall /\ op.operation # "none" /\ op'.operation = "none"
          /\ \/ TailCall(op.id, r)
             \/ \E k \in {"hupAll", "hupEnd"} : CallThen([k |-> k], op.id, r)
    BY <1>19 DEF AnswersSlot
  <2>2. CASE TailCall(op.id, r)
    <3>1. /\ Answers' /\ \A j \in 1..Len(hist) : j # op.id /\ Open(j) => StaysOpen(j)
          /\ UserFrame(op.id, r) \in Frames /\ ~Tries(UserFrame(op.id, r))
      BY <1>2, <1>14, <2>1, <2>2 DEF TailCall
    <3>2. /\ Kept(Len(stack) - 1) /\ Len(stack') = Len(stack) /\ Len(stack) \in Nat \ {0}
          /\ stack'[Len(stack)] = UserFrame(op.id, r)
      BY <1>1, <2>1, <2>2, <3>1, KeptSwap DEF TailCall, InCall
    <3>3. \A n \in (Len(stack) - 1 + 1)..Len(stack') : ~Tries(stack'[n])
      BY <3>1, <3>2
    <3>4. \A n \in 1..(Len(stack) - 1) : Tries(stack[n]) => StaysOpen(stack[n].id)
      BY <1>17, <2>1, <3>1, <3>2
    <3> QED BY <1>5, <2>1, <3>1, <3>2, <3>3, <3>4
  <2>3. ASSUME NEW k \in {"hupAll", "hupEnd"}, CallThen([k |-> k], op.id, r)
        PROVE  AnswerInv'
    <3>1. [k |-> k] \in Frames /\ ~Tries([k |-> k])
      BY NewFrames DEF Tries
    <3> QED BY <1>18, <2>1, <2>3, <3>1 DEF InCall
  <2> QED BY <2>1, <2>2, <2>3
<1>20. CASE RepeatsSlot
  <2>1. PICK r \in Int, f \in Frames :
          /\ r > 0 /\ InCall /\ op.operation \in Plain /\ op.repeat
          /\ f.k = "repeat" /\ CallThen(f, op.id, r) /\ op' = op
    BY <1>20 DEF RepeatsSlot
  <2>2. op.operation # "none" /\ hist[op.id].repeat /\ ~Tries(f) /\ stack # <<>>
    BY <2>1 DEF Plain, KnownInv, SlotKnown, Tries, InCall
  <2> QED BY <1>18, <2>1, <2>2
<1>21. CASE EndsAgain
  BY <1>1, <1>21, PoppedFacts DEF EndsAgain, TopIs, Top, NoSecondCall
<1>22. Repeats \subseteq BOOLEAN /\ 0 \in 0..1 /\ 1 \in 0..1
  <2>1. Repeats \subseteq BOOLEAN
    BY DEF Repeats
  <2> QED BY <2>1
<1>23. CASE Stores
  <2>1. PICK o \in Ops, len \in Nat, rep \in Repeats :
          /\ Started(o, rep) /\ op' = addRWOp(o, len, 0, rep, NewId)
          /\ stack' = stack \/ stack' = Append(stack, [k |-> "do", hup |-> FALSE])
    BY <1>23 DEF Stores
  <2>2. /\ Answers' /\ StaysOpen(Len(hist) + 1)
        /\ \A j \in 1..Len(hist) : Open(j) => StaysOpen(j)
    BY <1>22, <2>1, NewOpen DEF Started
  <2>3. op'.id = Len(hist) + 1
    BY <1>1, <2>1 DEF addRWOp
  <2>4. \A n \in DOMAIN stack : Tries(stack[n]) =>
          StaysOpen(stack[n].id) /\ op'.id # stack[n].id
    BY <1>1, <1>2, <2>2, <2>3
  <2>5. CASE stack' = stack
    <3>1. Kept(Len(stack)) /\ Len(stack') = Len(stack)
      BY <1>1, <2>5, KeptSame
    <3>2. /\ \A n \in (Len(stack) + 1)..Len(stack') : ~Tries(stack'[n])
          /\ \A n \in 1..Len(stack) : n \in DOMAIN stack
      BY <3>1 DEF Kept
    <3> QED BY <2>2, <2>3, <2>4, <3>1, <3>2, AnswerKept
  <2>6. CASE stack' = Append(stack, [k |-> "do", hup |-> FALSE])
    <3> DEFINE f == [k |-> "do", hup |-> FALSE]
    <3>1. f \in Frames /\ ~Tries(f) /\ stack' = Append(stack, f)
      BY <2>6, NewFrames DEF Tries
    <3> HIDE DEF f
    <3>2. Kept(Len(stack)) /\ Len(stack') = Len(stack) + 1 /\ stack'[Len(stack) + 1] = f
      BY <1>1, <3>1, KeptPush
    <3>3. /\ \A n \in (Len(stack) + 1)..Len(stack') : ~Tries(stack'[n])
          /\ \A n \in 1..Len(stack) : n \in DOMAIN stack
      BY <3>1, <3>2 DEF Kept
    <3> QED BY <2>2, <2>3, <2>4, <3>2, <3>3, AnswerKept
  <2> QED BY <2>1, <2>5, <2>6
<1>24. CASE Attempts
  <2>1. PICK o \in Ops, rep \in Repeats, f \in Frames :
          /\ Tries(f) /\ f.id = NewId
          /\ Started(o, rep) /\ stack' = Append(stack, f) /\ op' = op
    BY <1>24 DEF Attempts
  <2>2. /\ Answers' /\ StaysOpen(Len(hist) + 1)
        /\ \A j \in 1..Len(hist) : Open(j) => StaysOpen(j)
    BY <1>22, <2>1, NewOpen DEF Started
  <2>3. Kept(Len(stack)) /\ Len(stack') = Len(stack) + 1 /\ stack'[Len(stack) + 1] = f
    BY <1>1, <2>1, KeptPush
  <2>4. f.id = Len(hist) + 1
    BY <1>1, <2>1
  <2>5. \A n \in 1..Len(stack) : n \in DOMAIN stack
    BY <2>3 DEF Kept
  <2>6. \A n \in 1..Len(stack) : Tries(stack[n]) =>
          /\ StaysOpen(stack[n].id) /\ stack[n].id # f.id
          /\ op'.operation # "none" => op'.id # stack[n].id
    BY <1>1, <1>2, <2>1, <2>2, <2>4, <2>5
  <2>7. op'.operation # "none" => StaysOpen(op'.id) /\ op'.id # f.id
    BY <1>1, <1>2, <2>1, <2>2, <2>4
  <2>8. \A n \in (Len(stack) + 1)..Len(stack') : n = Len(stack) + 1 /\ stack'[n] = f
    BY <2>3 DEF Kept
  <2> QED BY <2>2, <2>3, <2>4, <2>6, <2>7, <2>8, AnswerKept
<1>25. CASE ClosesNow
  <2>1. /\ "close" \in Ops /\ stack' = Append(stack, UserFrame(NewId, 0)) /\ op' = op
        /\ hist' = Append(hist, [o |-> "close", repeat |-> FALSE, finals |-> 1,
                                 cancelled |-> FALSE, late |-> FALSE])
    BY <1>25 DEF ClosesNow, MayStart
  <2>2. Answers' /\ \A j \in 1..Len(hist) : Open(j) => StaysOpen(j)
    BY <1>22, <2>1, NewOpen
  <2>3. NewId \in Ids /\ 0 \in Int
    BY <1>1, <1>25, FileOpAssumption DEF ClosesNow, MayStart, Ids
  <2>4. UserFrame(NewId, 0) \in Frames /\ ~Tries(UserFrame(NewId, 0))
    BY <2>3, UserFrameFacts DEF Tries
  <2>5. Kept(Len(stack)) /\ Len(stack') = Len(stack) + 1
        /\ stack'[Len(stack) + 1] = UserFrame(NewId, 0)
    BY <1>1, <2>1, <2>4, KeptPush
  <2>6. /\ \A n \in (Len(stack) + 1)..Len(stack') : ~Tries(stack'[n])
        /\ \A n \in 1..Len(stack) : n \in DOMAIN stack
    BY <2>4, <2>5 DEF Kept
  <2>7. \A n \in 1..Len(stack) : Tries(stack[n]) => StaysOpen(stack[n].id)
    BY <1>2, <2>2, <2>6
  <2> QED BY <1>2, <1>5, <2>1, <2>2, <2>5, <2>6, <2>7
<1>26. CASE Cancel
  <2>1. /\ op' = Finished /\ stack' = stack
        /\ hist' = [n \in DOMAIN hist |->
                      IF n \in CancelTargets THEN [hist[n] EXCEPT !.cancelled = TRUE]
                                             ELSE hist[n]]
    BY <1>26 DEF Cancel
  <2>2. /\ Len(hist') = Len(hist)
        /\ \A j \in 1..Len(hist) :
             /\ hist'[j].finals = hist[j].finals /\ hist'[j].late = hist[j].late
             /\ j \notin CancelTargets => hist'[j] = hist[j]
    BY <1>1, <2>1, MarkedHist
  <2>3. op'.operation = "none" /\ Answers'
    BY <1>1, <2>1, <2>2, FinishedFacts DEF AnswerInv, Answers
  <2>4. \A j \in 1..Len(hist) : j \in CancelTargets =>
          (op.operation # "none" /\ j = op.id) \/ "repeat" \in Habits
    BY DEF CancelTargets, Free, KnownInv, HistKnown
  <2>5. \A j \in 1..Len(hist) :
          Open(j) /\ (op.operation # "none" => op.id # j) => StaysOpen(j)
    BY <2>2, <2>4 DEF Open, StaysOpen
  <2>6. Kept(Len(stack)) /\ Len(stack') = Len(stack)
    BY <1>1, <2>1, KeptSame
  <2>7. /\ \A n \in (Len(stack) + 1)..Len(stack') : ~Tries(stack'[n])
        /\ \A n \in 1..Len(stack) : n \in DOMAIN stack
    BY <2>6 DEF Kept
  <2>8. \A n \in 1..Len(stack) : Tries(stack[n]) => StaysOpen(stack[n].id)
    BY <1>2, <2>5, <2>7
  <2> QED BY <1>5, <2>3, <2>6, <2>7, <2>8
<1>27. CASE Enters
  <2>1. PICK f \in Frames : f.k \in {"do", "hup", "abort"} /\ stack' = Append(stack, f)
    BY <1>27 DEF Enters
  <2>2. Kept(Len(stack)) /\ Len(stack') = Len(stack) + 1 /\ stack'[Len(stack) + 1] = f
    BY <1>1, <2>1, KeptPush
  <2>3. \A n \in (Len(stack) + 1)..Len(stack') : ~Tries(stack'[n])
    BY <2>1, <2>2 DEF Kept, Tries
  <2> QED BY <1>6, <1>27, <2>2, <2>3 DEF Enters, SameBooks
<1> QED BY <1>7, <1>8, <1>10, <1>11, <1>12, <1>13, <1>15, <1>16, <1>19, <1>20, <1>21,
           <1>23, <1>24, <1>25, <1>26, <1>27 DEF Move

LEMMA AnswerInit == Init => KnownInv /\ NoSecondCall /\ AnswerInv
<1> SUFFICES ASSUME Init PROVE KnownInv /\ NoSecondCall /\ AnswerInv
  OBVIOUS
<1>1. /\ op.operation = "none" /\ op.id = 0 /\ DOMAIN stack = {} /\ notif = {}
      /\ Len(hist) = 0
  BY DEF Init
<1>2. KnownInv
  BY <1>1 DEF KnownInv, SlotKnown, HistKnown
<1>3. NoSecondCall /\ AnswerInv
  BY <1>1 DEF NoSecondCall, AnswerInv, SlotOpen, TriesOpen, Apart, Answers
<1> QED BY <1>2, <1>3

\* Every operation is answered once, whatever the user does (repeated and nested
\* operations, cancellations, starts on a busy slot), on both slots, provided a
\* hangup is reported together with EPOLLIN/EPOLLOUT or no buffered *All
\* operation is used: handleHup would call the callback of a partly done one a
\* second time.
THEOREM AnsweredOnce == ASSUME ToldOnce PROVE Spec => []CallbackOnce
<1> DEFINE I == Inv /\ KnownInv /\ NoSecondCall /\ AnswerInv
<1>1. Init => I
  BY InvInit, AnswerInit
<1>2. I /\ [Next]_vars => I'
  BY InvNext, NextMoves, KnownStep, SecondCallStep, AnswerStep
<1>3. I => CallbackOnce
  BY HistLen DEF Inv, AnswerInv, Answers, CallbackOnce
<1> QED BY <1>1, <1>2, <1>3, PTL DEF Spec

\* cancelRead and cancelWrite are final: if the user repeats no operation, no
\* callback comes after the cancellation, and none after recvAll or sendAll
\* was refused, under the same condition on hangups.
THEOREM CancelledIsSilent ==
  ASSUME ToldOnce, "repeat" \notin Habits PROVE Spec => []NoCallAfterCancel
<1> DEFINE I == Inv /\ KnownInv /\ NoSecondCall /\ AnswerInv
<1>1. Init => I
  BY InvInit, AnswerInit
<1>2. I /\ [Next]_vars => I'
  BY InvNext, NextMoves, KnownStep, SecondCallStep, AnswerStep
<1>3. I => NoCallAfterCancel
  BY HistLen DEF Inv, AnswerInv, Answers, NoCallAfterCancel
<1> QED BY <1>1, <1>2, <1>3, PTL DEF Spec

-----------------------------------------------------------------------------
(***************************************************************************)
(* No operation is forgotten and no byte is lost.  An operation is stored  *)
(* over another one in two ways: the user starts one on a busy slot, or an *)
(* attempt that would block finds that the callback of its own repeated    *)
(* operation has started another one.  A user who does neither is Polite,  *)
(* and then the slot is free whenever an attempt is in progress.           *)
(***************************************************************************)
Polite == "busy" \notin Habits /\ ~({"repeat", "nest"} \subseteq Habits)

\* Where an attempt is on the stack: at its top, or, when callbacks start no
\* operations, at its bottom.
Placed(k, n, l) ==
  /\ "nest" \in Habits => n = l
  /\ "nest" \notin Habits => n = 1
  /\ k = "tryAll" => n = l

TriesFree ==
  \A n \in DOMAIN stack : Tries(stack[n]) => Free /\ Placed(stack[n].k, n, Len(stack))

\* The bytes of the attempt on top of the stack.
TopDone == IF stack # <<>> THEN FrameDone(Top) ELSE 0

Books == moved = reported + forfeited + SlotDone + TopDone

Unanswered(id) == hist[id].finals = 0 /\ ~hist[id].cancelled

HoldInv == TriesFree /\ NoOpForgotten /\ Books

LEMMA BooksBalance ==
  ASSUME Inv PROVE Conservation <=> Books
<1>1. /\ SlotDone = IF op.operation \in All THEN op.lenDone ELSE 0
      /\ TopDone = IF TopIs("tryAll") THEN Top.br ELSE 0
  BY DEF SlotDone, TopDone, FrameDone, TopIs
<1>2. SlotDone \in Nat /\ TopDone \in Nat
  <2>1. stack # <<>> /\ Top.k = "tryAll" => Top.br \in Nat
    BY PoppedFacts, FrameFacts DEF Inv, TypeOK
  <2>2. op.lenDone \in Nat
    BY DEF Inv, TypeOK, OperationInfo
  <2> QED BY <1>1, <2>1, <2>2 DEF TopIs
<1>3. reported \in Nat /\ forfeited \in Nat /\ InFlight = SlotDone + TopDone
  BY <1>1 DEF Inv, TypeOK, InFlight
<1> QED BY <1>2, <1>3 DEF Conservation, Books

\* The attempts after a step that keeps the lowest m frames.
LEMMA FreeKept ==
  ASSUME Inv, TriesFree, NEW m, Kept(m),
         m < Len(stack) \/ ~InAttempt \/ Len(stack') = Len(stack),
         \A n \in 1..m : Tries(stack[n]) => op'.operation = "none",
         \A n \in (m + 1)..Len(stack') : Tries(stack'[n]) =>
           op'.operation = "none" /\ Placed(stack'[n].k, n, Len(stack'))
  PROVE  TriesFree'
<1> SUFFICES ASSUME NEW n \in DOMAIN stack', Tries(stack'[n])
             PROVE  op'.operation = "none" /\ Placed(stack'[n].k, n, Len(stack'))
  BY DEF TriesFree, Free, Tries, Placed
<1>1. n \in 1..m \/ n \in (m + 1)..Len(stack')
  BY KeptIndex
<1>2. CASE n \in 1..m
  <2>1. n \in DOMAIN stack /\ Tries(stack[n]) /\ stack'[n] = stack[n]
    BY <1>2, KeptIndex
  <2>2. op'.operation = "none" /\ Placed(stack[n].k, n, Len(stack))
    BY <1>2, <2>1 DEF TriesFree
  <2>3. n = Len(stack) => InAttempt
    BY <2>1, PoppedFacts DEF InAttempt, Top, Inv, TypeOK
  <2>4. n = Len(stack) => ~(m < Len(stack))
    BY <1>2, KeptIndex
  <2>5. n = Len(stack) => n = Len(stack')
    BY <2>3, <2>4
  <2> QED BY <2>1, <2>2, <2>5 DEF Placed
<1>3. CASE n \in (m + 1)..Len(stack')
  BY <1>3
<1> QED BY <1>1, <1>2, <1>3

\* The bytes on top of the stack after such a step.
LEMMA NothingOnTop ==
  ASSUME Inv, Inv', TriesFree, NEW m, Kept(m),
         m < Len(stack) \/ ~InAttempt,
         \A n \in (m + 1)..Len(stack') : stack'[n].k # "tryAll"
  PROVE  TopDone' = 0
<1> SUFFICES ASSUME stack' # <<>>, Top'.k = "tryAll" PROVE FALSE
  BY DEF TopDone, FrameDone
<1>1. /\ DOMAIN stack' = 1..Len(stack') /\ DOMAIN stack = 1..Len(stack)
      /\ m \in Nat /\ Len(stack') \in Nat /\ Len(stack) \in Nat
      /\ m <= Len(stack) /\ m <= Len(stack')
      /\ \A i \in 1..m : stack'[i] = stack[i]
  BY DEF Kept
<1>2. Len(stack') # 0 /\ Top' = stack'[Len(stack')]
  <2>1. stack' \in Seq(Frames)
    BY DEF Inv, TypeOK
  <2> QED BY <2>1, EmptySeq DEF Top
<1>3. Len(stack') \in 1..m
  BY <1>1, <1>2
<1>4. Len(stack') \in DOMAIN stack /\ stack[Len(stack')].k = "tryAll"
  BY <1>1, <1>2, <1>3
<1>5. Len(stack') = Len(stack)
  BY <1>4 DEF TriesFree, Tries, Placed
<1>6. stack # <<>> /\ Tries(Top)
  BY <1>1, <1>3, <1>4, <1>5 DEF Top, Tries
<1> QED BY <1>1, <1>3, <1>5, <1>6 DEF InAttempt

\* The operations in progress after such a step.
LEMMA HeldKept ==
  ASSUME Inv, Inv', NoOpForgotten, NEW m, Kept(m),
         \A id \in 1..Len(hist') : Unanswered(id)' =>
           \/ InProgress(id)'
           \/ /\ id \in 1..Len(hist) /\ Unanswered(id)
              /\ op.operation # "none" => op.id # id
              /\ \A n \in (m + 1)..Len(stack) : Tries(stack[n]) => stack[n].id # id
  PROVE  NoOpForgotten'
<1>1. Len(hist') \in Nat /\ DOMAIN hist' = 1..Len(hist') /\ DOMAIN hist = 1..Len(hist)
  BY HistLen, LenProperties DEF Inv, TypeOK
<1> SUFFICES ASSUME NEW id \in 1..Len(hist'), Unanswered(id)' PROVE InProgress(id)'
  BY <1>1 DEF NoOpForgotten, Unanswered
<1>2. SUFFICES ASSUME /\ id \in 1..Len(hist) /\ Unanswered(id)
                      /\ op.operation # "none" => op.id # id
                      /\ \A n \in (m + 1)..Len(stack) : Tries(stack[n]) => stack[n].id # id
               PROVE  InProgress(id)'
  OBVIOUS
<1>3. InProgress(id)
  BY <1>1, <1>2 DEF NoOpForgotten, Unanswered
<1>4. PICK n \in DOMAIN stack : Tries(stack[n]) /\ stack[n].id = id
  BY <1>2, <1>3 DEF InProgress, Tries
<1>5. n \in 1..m
  BY <1>2, <1>4 DEF Kept
<1>6. n \in DOMAIN stack' /\ stack'[n] = stack[n]
  BY <1>5 DEF Kept
<1> QED BY <1>4, <1>6 DEF InProgress, Tries

\* A callback is recorded: the books and the unanswered operations.
LEMMA CalledBooks ==
  ASSUME Inv, NEW c \in 1..Len(hist), NEW r \in Int, Called(c, r)
  PROVE  /\ reported' = reported + Gain(r) /\ forfeited' = forfeited
         /\ Len(hist') = Len(hist)
         /\ \A id \in 1..Len(hist') : Unanswered(id)' =>
              /\ id \in 1..Len(hist) /\ Unanswered(id)
              /\ ~(hist[c].repeat /\ r > 0) => id # c
<1>1. /\ Len(hist') = Len(hist)
      /\ \A j \in 1..Len(hist) : j # c => hist'[j] = hist[j]
      /\ hist'[c].finals =
           IF hist[c].repeat /\ r > 0 THEN hist[c].finals ELSE hist[c].finals + 1
      /\ hist'[c].cancelled = hist[c].cancelled
  BY CalledHist DEF Inv
<1>2. hist[c].finals \in Nat
  BY HistLen DEF Inv, OpHistory
<1>3. reported' = reported + Gain(r) /\ forfeited' = forfeited
  BY DEF Called, Gain, Inv, TypeOK
<1>4. ASSUME NEW id \in 1..Len(hist), hist'[id].finals = 0, ~hist'[id].cancelled
      PROVE  Unanswered(id) /\ (~(hist[c].repeat /\ r > 0) => id # c)
  <2>1. CASE id # c
    BY <1>1, <1>4, <2>1 DEF Unanswered
  <2>2. CASE id = c
    BY <1>1, <1>2, <1>4, <2>2 DEF Unanswered
  <2> QED BY <2>1, <2>2
<1> QED BY <1>1, <1>3, <1>4 DEF Unanswered

LEMMA HoldFacts ==
  ASSUME Inv, KnownInv, HoldInv
  PROVE  /\ InAttempt => /\ stack # <<>> /\ Top \in Frames /\ Free
                         /\ Placed(Top.k, Len(stack), Len(stack))
                         /\ Top.id \in 1..Len(hist) /\ TopDone = FrameDone(Top)
                         /\ Top.k = "try" => hist[Top.id].repeat = Top.repeat
                         /\ Top.k = "tryAll" => ~hist[Top.id].repeat
         /\ InCall => stack # <<>> /\ TopDone = 0
         /\ op.operation # "none" =>
              /\ \A n \in DOMAIN stack : ~Tries(stack[n])
              /\ op.id \in 1..Len(hist) /\ hist[op.id].repeat = op.repeat
              /\ hist[op.id].repeat => op.operation \in Plain
         /\ moved \in Nat /\ reported \in Nat /\ forfeited \in Nat
         /\ SlotDone \in Nat /\ (Free => SlotDone = 0) /\ TopDone \in Nat
<1>1. stack # <<>> => Len(stack) \in DOMAIN stack /\ Top = stack[Len(stack)] /\ Top \in Frames
  BY PoppedFacts DEF Top, Inv, TypeOK
<1>2. InAttempt => /\ stack # <<>> /\ Top \in Frames /\ Free
                   /\ Placed(Top.k, Len(stack), Len(stack))
  BY <1>1 DEF HoldInv, TriesFree, InAttempt
<1>3. InAttempt => /\ Top.id \in 1..Len(hist)
                   /\ Top.k = "try" => hist[Top.id].repeat = Top.repeat
                   /\ Top.k = "tryAll" => ~hist[Top.id].repeat
  BY KnownTop DEF InAttempt, Known
<1>4. InAttempt => TopDone = FrameDone(Top)
  BY DEF InAttempt, TopDone
<1>5. InCall => stack # <<>> /\ TopDone = 0
  BY DEF InCall, TopDone, FrameDone, Tries
<1>6. op.operation # "none" => \A n \in DOMAIN stack : ~Tries(stack[n])
  BY DEF HoldInv, TriesFree, Free
<1>7. op.operation # "none" => /\ op.id \in 1..Len(hist) /\ hist[op.id].repeat = op.repeat
                               /\ hist[op.id].repeat => op.operation \in Plain
  BY DEF KnownInv, SlotKnown, HistKnown, Known
<1>8. SlotDone \in Nat /\ (Free => SlotDone = 0)
  BY DEF SlotDone, Free, All, BufAll, Inv, TypeOK, OperationInfo
<1>9. TopDone \in Nat
  <2>1. stack # <<>> /\ Top.k = "tryAll" => Top.br \in Nat
    BY <1>1, FrameFacts
  <2> QED BY <2>1 DEF TopDone, FrameDone
<1>10. moved \in Nat /\ reported \in Nat /\ forfeited \in Nat
  BY DEF Inv, TypeOK
<1> QED BY <1>2, <1>3, <1>4, <1>5, <1>6, <1>7, <1>8, <1>9, <1>10

LEMMA HoldStep == Polite /\ Inv /\ Inv' /\ KnownInv /\ HoldInv /\ Move => HoldInv'
<1> SUFFICES ASSUME Polite, Inv, Inv', KnownInv, HoldInv, Move PROVE HoldInv'
  OBVIOUS
<1>1. /\ TypeOK /\ stack \in Seq(Frames) /\ op \in OperationInfo
      /\ Len(hist) \in Nat /\ NewId = Len(hist) + 1
      /\ TriesFree /\ NoOpForgotten /\ Books
  BY HistLen DEF Inv, TypeOK, NewId, HoldInv
<1>2. InAttempt => /\ stack # <<>> /\ Top \in Frames /\ Free
                   /\ Placed(Top.k, Len(stack), Len(stack))
                   /\ Top.id \in 1..Len(hist) /\ TopDone = FrameDone(Top)
                   /\ Top.k = "try" => hist[Top.id].repeat = Top.repeat
                   /\ Top.k = "tryAll" => ~hist[Top.id].repeat
  BY HoldFacts
<1>3. op.operation # "none" =>
        /\ \A n \in DOMAIN stack : ~Tries(stack[n])
        /\ op.id \in 1..Len(hist) /\ hist[op.id].repeat = op.repeat
        /\ hist[op.id].repeat => op.operation \in Plain
  BY HoldFacts
<1>4. /\ InCall => stack # <<>> /\ TopDone = 0
      /\ moved \in Nat /\ reported \in Nat /\ forfeited \in Nat
      /\ SlotDone \in Nat /\ (Free => SlotDone = 0) /\ TopDone \in Nat
  BY HoldFacts
<1>5. hist' = hist => \A id \in 1..Len(hist') : Unanswered(id)' =>
                        id \in 1..Len(hist) /\ Unanswered(id)
  BY DEF Unanswered
<1>6. ASSUME op'.operation = "none" PROVE SlotDone' = 0
  BY <1>6 DEF SlotDone, All, BufAll
<1>7. op' = op => SlotDone' = SlotDone
  BY DEF SlotDone
\* A step that leaves the operation in the slot where it is, and pops or pushes
\* frames of other calls.
<1>8. ASSUME NEW m, Kept(m), m < Len(stack) \/ ~InAttempt,
             \A n \in (m + 1)..Len(stack) : ~Tries(stack[n]),
             \A n \in (m + 1)..Len(stack') : ~Tries(stack'[n]),
             op'.operation = op.operation, op'.id = op.id,
             \A id \in 1..Len(hist') : Unanswered(id)' =>
               id \in 1..Len(hist) /\ Unanswered(id)
      PROVE  TriesFree' /\ NoOpForgotten' /\ TopDone' = 0
  <2>1. \A n \in 1..m : Tries(stack[n]) => op'.operation = "none"
    BY <1>3, <1>8, KeptIndex
  <2>2. TriesFree'
    BY <1>1, <1>8, <2>1, FreeKept
  <2>3. \A n \in (m + 1)..Len(stack') : stack'[n].k # "tryAll"
    BY <1>8 DEF Tries
  <2>4. TopDone' = 0
    BY <1>1, <1>8, <2>3, NothingOnTop
  <2>5. ASSUME NEW id \in 1..Len(hist'), Unanswered(id)'
        PROVE  \/ InProgress(id)'
               \/ /\ id \in 1..Len(hist) /\ Unanswered(id)
                  /\ op.operation # "none" => op.id # id
                  /\ \A n \in (m + 1)..Len(stack) : Tries(stack[n]) => stack[n].id # id
    BY <1>8, <2>5 DEF InProgress
  <2>6. NoOpForgotten'
    BY <1>1, <1>8, <2>5, HeldKept
  <2> QED BY <2>2, <2>4, <2>6
<1>9. CASE Quiet
  <2>1. Kept(Len(stack)) /\ Len(stack') = Len(stack) /\ Len(stack) \in Nat
    BY <1>1, <1>9, KeptSame DEF Quiet, Kept
  <2>2. TriesFree'
    BY <1>1, <1>9 DEF Quiet, TriesFree, Free
  <2>3. NoOpForgotten'
    BY <1>1, <1>9 DEF Quiet, NoOpForgotten, InProgress
  <2>4. Books'
    BY <1>1, <1>9 DEF Quiet, Books, SlotDone, TopDone, Top
  <2> QED BY <2>2, <2>3, <2>4 DEF HoldInv
<1>10. CASE Returns
  <2>1. stack # <<>> /\ ~Tries(Top) /\ stack' = Popped /\ UNCHANGED <<reported, forfeited, hist>>
    BY <1>10 DEF Returns, InCall, SameBooks
  <2>2. /\ Kept(Len(stack) - 1) /\ Len(stack') = Len(stack) - 1
        /\ Len(stack) \in Nat \ {0} /\ Top = stack[Len(stack)]
    BY <1>1, <2>1, KeptPop
  <2>3. /\ \A n \in (Len(stack) - 1 + 1)..Len(stack) : ~Tries(stack[n])
        /\ \A n \in (Len(stack) - 1 + 1)..Len(stack') : ~Tries(stack'[n])
        /\ Len(stack) - 1 < Len(stack)
    BY <2>1, <2>2
  <2>4. op'.operation = op.operation /\ op'.id = op.id
    BY <1>1, <1>10 DEF Returns, OperationInfo
  <2>5. TriesFree' /\ NoOpForgotten' /\ TopDone' = 0
    BY <1>5, <1>8, <2>1, <2>2, <2>3, <2>4
  <2>6. moved' + SlotDone = moved + SlotDone' /\ SlotDone' \in Nat
    <3>1. CASE UNCHANGED <<op, moved>>
      BY <1>4, <1>7, <3>1
    <3>2. ASSUME NEW d \in Nat, op.operation \in All, op' = [op EXCEPT !.lenDone = d],
                 moved' + op.lenDone = moved + d
          PROVE  moved' + SlotDone = moved + SlotDone' /\ SlotDone' \in Nat
      <4>1. op'.lenDone = d
        BY <1>1, <3>2 DEF OperationInfo
      <4> QED BY <2>4, <3>2, <4>1 DEF SlotDone
    <3> QED BY <1>10, <3>1, <3>2 DEF Returns
  <2>7. moved' \in Nat /\ TopDone = 0
    BY <1>4, <1>10 DEF Inv, TypeOK, Returns
  <2>8. moved' = reported + forfeited + SlotDone'
    <3>1. moved = reported + forfeited + SlotDone + TopDone
      BY <1>1 DEF Books
    <3>2. /\ moved \in Nat /\ moved' \in Nat /\ reported \in Nat /\ forfeited \in Nat
          /\ SlotDone \in Nat /\ SlotDone' \in Nat
      BY <1>4, <2>6, <2>7
    <3>3. moved = reported + forfeited + SlotDone
      BY <2>7, <3>1, <3>2
    <3>4. moved' + SlotDone = moved + SlotDone'
      BY <2>6
    <3>5. \A a, b \in Nat : a + SlotDone = moved + b => a = reported + forfeited + b
      BY <1>4, <3>3
    <3> QED BY <3>2, <3>4, <3>5
  <2>9. Books'
    BY <1>4, <2>1, <2>5, <2>6, <2>8 DEF Books
  <2> QED BY <2>5, <2>9 DEF HoldInv
<1>11. CASE Parks
  <2>1. /\ InAttempt /\ stack' = Popped /\ UNCHANGED <<reported, forfeited, hist, moved>>
    BY <1>11 DEF Parks, SameBooks
  <2>2. /\ Kept(Len(stack) - 1) /\ Len(stack') = Len(stack) - 1
        /\ Len(stack) \in Nat \ {0} /\ Top = stack[Len(stack)]
    BY <1>1, <1>2, <2>1, KeptPop
  <2>3. /\ op'.id = Top.id /\ op'.operation = Top.o
        /\ Top.k \in {"try", "tryAll"}
        /\ Top.k = "tryAll" => op'.lenDone = Top.br
    BY <1>11 DEF Parks, addRWOp
  <2>4. /\ Top.k = "try" => Top.o \in Plain
        /\ Top.k = "tryAll" => Top.o \in BufAll
    BY <1>2, <2>1, FrameFacts
  <2>5. SlotDone' = FrameDone(Top) /\ op'.operation # "none"
    BY <2>3, <2>4 DEF SlotDone, FrameDone, Plain, All, BufAll
  <2>6. \A n \in 1..(Len(stack) - 1) : ~Tries(stack[n])
    <3>1. ASSUME NEW n \in 1..(Len(stack) - 1), Tries(stack[n]) PROVE FALSE
      <4>1. n \in DOMAIN stack /\ n # Len(stack)
        BY <2>2, BelowTop DEF Kept
      <4>2. Placed(stack[n].k, n, Len(stack))
        BY <1>1, <3>1, <4>1 DEF TriesFree
      <4>3. "nest" \notin Habits /\ n = 1 /\ Len(stack) = 1
        BY <1>2, <2>1, <4>1, <4>2 DEF Placed
      <4> QED BY <4>1, <4>3
    <3> QED BY <3>1
  <2>7. \A n \in (Len(stack) - 1 + 1)..Len(stack') : FALSE
    BY <2>2
  <2>8. Len(stack) - 1 < Len(stack)
    BY <2>2
  <2>9. TriesFree'
    BY <1>1, <2>2, <2>6, <2>7, <2>8, FreeKept
  <2>10. TopDone' = 0
    BY <1>1, <2>2, <2>7, <2>8, NothingOnTop
  <2>11. ASSUME NEW id \in 1..Len(hist'), Unanswered(id)'
         PROVE  \/ InProgress(id)'
                \/ /\ id \in 1..Len(hist) /\ Unanswered(id)
                   /\ op.operation # "none" => op.id # id
                   /\ \A n \in (Len(stack) - 1 + 1)..Len(stack) :
                        Tries(stack[n]) => stack[n].id # id
    <3>1. Top.id = id => InProgress(id)'
      BY <2>3, <2>5 DEF InProgress
    <3>2. \A n \in (Len(stack) - 1 + 1)..Len(stack) : stack[n] = Top
      BY <2>2
    <3> QED BY <1>2, <1>5, <2>1, <2>11, <3>1, <3>2 DEF Free
  <2>12. NoOpForgotten'
    BY <1>1, <2>2, <2>11, HeldKept
  <2>13. Books'
    BY <1>1, <1>2, <1>4, <2>1, <2>5, <2>10 DEF Books
  <2> QED BY <2>9, <2>12, <2>13 DEF HoldInv
<1>12. CASE Refuses
  BY <1>2, <1>12 DEF Refuses
<1>13. CASE Loops
  <2>1. /\ stack # <<>> /\ ~Tries(Top) /\ UNCHANGED <<reported, forfeited, hist, op, moved>>
        /\ InCall
    BY <1>13 DEF Loops, InCall, SameBooks
  <2>2. PICK f \in Frames : f.k \in {"do", "rest"} /\ stack' = Replaced(f)
    BY <1>13 DEF Loops
  <2>3. /\ Kept(Len(stack) - 1) /\ Len(stack') = Len(stack) /\ stack'[Len(stack)] = f
        /\ Len(stack) \in Nat \ {0} /\ Top = stack[Len(stack)]
    BY <1>1, <2>1, <2>2, KeptSwap
  <2>4. ~Tries(f)
    BY <2>2 DEF Tries
  <2>5. /\ \A n \in (Len(stack) - 1 + 1)..Len(stack) : ~Tries(stack[n])
        /\ \A n \in (Len(stack) - 1 + 1)..Len(stack') : ~Tries(stack'[n])
        /\ Len(stack) - 1 < Len(stack)
    BY <2>1, <2>3, <2>4
  <2>6. TriesFree' /\ NoOpForgotten' /\ TopDone' = 0
    BY <1>5, <1>8, <2>1, <2>3, <2>5
  <2>7. Books'
    BY <1>1, <1>4, <1>7, <2>1, <2>6 DEF Books
  <2> QED BY <2>6, <2>7 DEF HoldInv
<1>14. CASE Gains
  <2>1. PICK d \in Nat : moved' = moved + d /\ stack' = Replaced([Top EXCEPT !.br = @ + d])
    BY <1>14 DEF Gains
  <2>2. /\ InAttempt /\ Top.k = "tryAll" /\ Top \in Frames /\ stack # <<>> /\ Free
        /\ UNCHANGED <<reported, forfeited, hist, op>>
    BY <1>2, <1>14 DEF Gains, SameBooks
  <2>3. Top \in TryAllFrames
    BY <2>2 DEF Frames, UserFrames, TryFrames, TryAllFrames, DoFrames,
                RepeatFrames, HupFrames
  <2> DEFINE f == [Top EXCEPT !.br = @ + d]
  <2>4. /\ f \in TryAllFrames /\ f.k = "tryAll" /\ f.id = Top.id
        /\ f.br = Top.br + d /\ Top.br \in Nat
    BY <2>3 DEF TryAllFrames
  <2>5. f \in Frames /\ stack' = Replaced(f)
    BY <2>1, <2>4 DEF Frames
  <2> HIDE DEF f
  <2>6. /\ Kept(Len(stack) - 1) /\ Len(stack') = Len(stack) /\ stack'[Len(stack)] = f
        /\ Len(stack) \in Nat \ {0} /\ Top = stack[Len(stack)]
    BY <1>1, <2>2, <2>5, KeptSwap
  <2>7. /\ \A n \in (Len(stack) - 1 + 1)..Len(stack') : n = Len(stack) /\ stack'[n] = f
        /\ \A n \in (Len(stack) - 1 + 1)..Len(stack) : n = Len(stack) /\ stack[n] = Top
        /\ Len(stack) - 1 < Len(stack)
    BY <2>6
  <2>8. op'.operation = "none" /\ Placed(f.k, Len(stack), Len(stack'))
    BY <1>2, <2>2, <2>4, <2>6 DEF Free
  <2>9. TriesFree'
    BY <1>1, <2>6, <2>7, <2>8, FreeKept
  <2>10. TopDone' = TopDone + d
    <3>1. Len(stack) \in DOMAIN stack'
      BY <2>6 DEF Kept
    <3>2. stack' # <<>> /\ Top' = f
      BY <2>6, <3>1 DEF Top
    <3> QED BY <1>2, <2>2, <2>4, <3>2 DEF TopDone, FrameDone
  <2>11. ASSUME NEW id \in 1..Len(hist'), Unanswered(id)'
         PROVE  \/ InProgress(id)'
                \/ /\ id \in 1..Len(hist) /\ Unanswered(id)
                   /\ op.operation # "none" => op.id # id
                   /\ \A n \in (Len(stack) - 1 + 1)..Len(stack) :
                        Tries(stack[n]) => stack[n].id # id
    <3>1. Len(stack) \in DOMAIN stack'
      BY <2>6 DEF Kept
    <3>2. Top.id = id => InProgress(id)'
      BY <2>4, <2>6, <3>1 DEF InProgress
    <3> QED BY <1>5, <2>2, <2>7, <2>11, <3>2 DEF Free
  <2>12. NoOpForgotten'
    BY <1>1, <2>6, <2>11, HeldKept
  <2>13. Books'
    BY <1>1, <1>4, <1>7, <2>1, <2>2, <2>10 DEF Books
  <2> QED BY <2>9, <2>12, <2>13 DEF HoldInv
<1>15. CASE AnswersTry
  <2>1. PICK r \in Int : /\ InAttempt /\ TailCall(Top.id, r) /\ op' = op
                         /\ ~(Top.k = "try" /\ Top.repeat /\ r > 0)
                         /\ moved' + FrameDone(Top) = moved + Gain(r)
    BY <1>15 DEF AnswersTry
  <2>2. ~(hist[Top.id].repeat /\ r > 0)
    BY <1>2, <2>1 DEF InAttempt, Tries
  <2>3. /\ reported' = reported + Gain(r) /\ forfeited' = forfeited
        /\ \A id \in 1..Len(hist') : Unanswered(id)' =>
             id \in 1..Len(hist) /\ Unanswered(id) /\ id # Top.id
    BY <1>2, <2>1, <2>2, CalledBooks DEF TailCall
  <2>4. UserFrame(Top.id, r) \in Frames /\ UserFrame(Top.id, r).k = "user"
    <3>1. Top.id \in Ids
      BY <1>2, <2>1, KnownTop
    <3> QED BY <3>1, UserFrameFacts
  <2>5. /\ Kept(Len(stack) - 1) /\ Len(stack') = Len(stack)
        /\ stack'[Len(stack)] = UserFrame(Top.id, r)
        /\ Len(stack) \in Nat \ {0} /\ Top = stack[Len(stack)]
    BY <1>1, <1>2, <2>1, <2>4, KeptSwap DEF TailCall
  <2>6. /\ \A n \in (Len(stack) - 1 + 1)..Len(stack') : stack'[n].k = "user"
        /\ \A n \in (Len(stack) - 1 + 1)..Len(stack) : stack[n] = Top
        /\ Len(stack) - 1 < Len(stack)
    BY <2>4, <2>5
  <2>7. op'.operation = "none" /\ op.operation = "none"
    BY <1>2, <2>1 DEF Free
  <2>8. TriesFree'
    BY <1>1, <2>5, <2>6, <2>7, FreeKept DEF Tries
  <2>9. TopDone' = 0
    BY <1>1, <2>5, <2>6, NothingOnTop
  <2>10. NoOpForgotten'
    BY <1>1, <2>3, <2>5, <2>6, <2>7, HeldKept
  <2>11. Gain(r) \in Nat /\ FrameDone(Top) \in Nat /\ moved' \in Nat
    <3>1. Gain(r) \in Nat
      BY DEF Gain
    <3>2. FrameDone(Top) \in Nat
      BY <1>2, <1>4, <2>1
    <3>3. moved' \in Nat
      BY DEF Inv, TypeOK
    <3> QED BY <3>1, <3>2, <3>3
  <2>12. SlotDone' = SlotDone /\ TopDone = FrameDone(Top)
    BY <1>2, <1>7, <2>1
  <2>13. moved' = reported + Gain(r) + forfeited + SlotDone
    <3>1. moved = reported + forfeited + SlotDone + TopDone
      BY <1>1 DEF Books
    <3>2. moved' + FrameDone(Top) = moved + Gain(r)
      BY <2>1
    <3>3. /\ moved \in Nat /\ moved' \in Nat /\ reported \in Nat /\ forfeited \in Nat
          /\ SlotDone \in Nat /\ FrameDone(Top) \in Nat /\ Gain(r) \in Nat
      BY <1>4, <2>11
    <3> QED BY <2>12, <3>1, <3>2, <3>3
  <2>14. Books'
    BY <1>4, <2>3, <2>9, <2>11, <2>12, <2>13 DEF Books
  <2> QED BY <2>8, <2>10, <2>14 DEF HoldInv
<1>16. CASE RepeatsTry
  <2>1. PICK r \in Int : /\ r > 0 /\ InAttempt /\ Top.k = "try" /\ Top.repeat
                         /\ CallThen(Top, Top.id, r) /\ op' = op /\ moved' = moved + r
    BY <1>16 DEF RepeatsTry
  <2>2. /\ reported' = reported + Gain(r) /\ forfeited' = forfeited
        /\ \A id \in 1..Len(hist') : Unanswered(id)' =>
             id \in 1..Len(hist) /\ Unanswered(id)
    BY <1>2, <2>1, CalledBooks DEF CallThen
  <2>3. UserFrame(Top.id, r) \in Frames /\ UserFrame(Top.id, r).k = "user"
    <3>1. Top.id \in Ids
      BY <1>2, <2>1, KnownTop
    <3> QED BY <3>1, UserFrameFacts
  <2>4. /\ Kept(Len(stack) - 1) /\ Len(stack') = Len(stack) + 1
        /\ stack'[Len(stack)] = Top /\ stack'[Len(stack) + 1] = UserFrame(Top.id, r)
        /\ Len(stack) \in Nat \ {0} /\ Top = stack[Len(stack)]
    BY <1>1, <1>2, <2>1, <2>3, KeptCall DEF CallThen
  <2>5. \A n \in (Len(stack) - 1 + 1)..Len(stack') : n = Len(stack) \/ n = Len(stack) + 1
    BY <2>4
  <2>6. /\ \A n \in (Len(stack) - 1 + 1)..Len(stack) : stack[n] = Top
        /\ Len(stack) - 1 < Len(stack)
    BY <2>4
  <2>7. "nest" \notin Habits
    <3>1. "repeat" \in Habits
      BY <1>2, <2>1 DEF KnownInv, HistKnown
    <3> QED BY <3>1 DEF Polite
  <2>8. op'.operation = "none" /\ op.operation = "none"
    BY <1>2, <2>1 DEF Free
  <2>9. \A n \in (Len(stack) - 1 + 1)..Len(stack') : Tries(stack'[n]) =>
           Placed(stack'[n].k, n, Len(stack'))
    <3>1. Placed(Top.k, Len(stack), Len(stack')) /\ ~Tries(UserFrame(Top.id, r))
      BY <1>2, <2>1, <2>3, <2>7 DEF Placed, Tries
    <3> QED BY <2>4, <2>5, <3>1
  <2>10. TriesFree'
    BY <1>1, <2>4, <2>6, <2>8, <2>9, FreeKept
  <2>11. \A n \in (Len(stack) - 1 + 1)..Len(stack') : stack'[n].k # "tryAll"
    BY <2>1, <2>3, <2>4, <2>5
  <2>12. TopDone' = 0
    BY <1>1, <2>4, <2>6, <2>11, NothingOnTop
  <2>13. ASSUME NEW id \in 1..Len(hist'), Unanswered(id)'
         PROVE  \/ InProgress(id)'
                \/ /\ id \in 1..Len(hist) /\ Unanswered(id)
                   /\ op.operation # "none" => op.id # id
                   /\ \A n \in (Len(stack) - 1 + 1)..Len(stack) :
                        Tries(stack[n]) => stack[n].id # id
    <3>1. Len(stack) \in DOMAIN stack'
      BY <2>4 DEF Kept
    <3>2. Top.id = id => InProgress(id)'
      BY <2>1, <2>4, <3>1 DEF InProgress
    <3> QED BY <2>2, <2>6, <2>8, <2>13, <3>2
  <2>14. NoOpForgotten'
    BY <1>1, <2>4, <2>13, HeldKept
  <2>15. Gain(r) = r /\ TopDone = 0 /\ SlotDone' = SlotDone
    BY <1>2, <1>7, <2>1 DEF Gain, FrameDone
  <2>16. Books'
    <3>1. moved = reported + forfeited + SlotDone + TopDone
      BY <1>1 DEF Books
    <3>2. moved' = reported + r + forfeited + SlotDone
      BY <1>4, <2>1, <2>15, <3>1
    <3> QED BY <1>4, <2>2, <2>12, <2>15, <3>2 DEF Books
  <2> QED BY <2>10, <2>14, <2>16 DEF HoldInv
\* The callback of the operation in the slot: no attempt is in progress.
<1>17. ASSUME NEW r \in Int, NEW m, Kept(m), InCall, op.operation # "none",
              m < Len(stack), Called(op.id, r),
              \A n \in (m + 1)..Len(stack') : ~Tries(stack'[n]),
              op'.operation = "none" \/ op' = op,
              op'.operation = "none" => ~(op.operation \in Plain /\ op.repeat /\ r > 0),
              moved' + SlotDone = moved + Gain(r) + SlotDone'
       PROVE  HoldInv'
  <2>1. op.operation \in Plain /\ op.repeat <=> hist[op.id].repeat
    BY <1>3, <1>17
  <2>2. /\ reported' = reported + Gain(r) /\ forfeited' = forfeited
        /\ \A id \in 1..Len(hist') : Unanswered(id)' =>
             /\ id \in 1..Len(hist) /\ Unanswered(id)
             /\ ~(hist[op.id].repeat /\ r > 0) => id # op.id
    BY <1>3, <1>17, CalledBooks
  <2>3. \A n \in DOMAIN stack : ~Tries(stack[n])
    BY <1>3, <1>17
  <2>4. TriesFree'
    <3>1. \A n \in 1..m : ~Tries(stack[n])
      BY <1>17, <2>3, KeptIndex
    <3> QED BY <1>1, <1>17, <3>1, FreeKept
  <2>5. TopDone' = 0
    <3>1. \A n \in (m + 1)..Len(stack') : stack'[n].k # "tryAll"
      BY <1>17 DEF Tries
    <3> QED BY <1>1, <1>17, <3>1, NothingOnTop
  <2>6. ASSUME NEW id \in 1..Len(hist'), Unanswered(id)'
        PROVE  \/ InProgress(id)'
               \/ /\ id \in 1..Len(hist) /\ Unanswered(id)
                  /\ op.operation # "none" => op.id # id
                  /\ \A n \in (m + 1)..Len(stack) : Tries(stack[n]) => stack[n].id # id
    <3>1. \A n \in (m + 1)..Len(stack) : n \in DOMAIN stack
      BY <1>17 DEF Kept
    <3>2. CASE op'.operation = "none"
      BY <1>17, <2>1, <2>2, <2>3, <2>6, <3>1, <3>2
    <3>3. CASE op' = op
      <4>1. id = op.id => InProgress(id)'
        BY <1>17, <3>3 DEF InProgress
      <4> QED BY <2>2, <2>3, <2>6, <3>1, <4>1
    <3> QED BY <1>17, <3>2, <3>3
  <2>7. NoOpForgotten'
    BY <1>1, <1>17, <2>6, HeldKept
  <2>8. /\ moved \in Nat /\ moved' \in Nat /\ reported \in Nat /\ forfeited \in Nat
        /\ SlotDone \in Nat /\ SlotDone' \in Nat /\ Gain(r) \in Nat
    <3>1. SlotDone' \in Nat
      BY <1>4, <1>6, <1>7, <1>17
    <3>2. Gain(r) \in Nat
      BY DEF Gain
    <3>3. moved' \in Nat
      BY DEF Inv, TypeOK
    <3> QED BY <1>4, <3>1, <3>2, <3>3
  <2>9. moved = reported + forfeited + SlotDone
    <3>1. moved = reported + forfeited + SlotDone + TopDone /\ TopDone = 0
      BY <1>1, <1>4, <1>17 DEF Books
    <3> QED BY <2>8, <3>1
  <2>10. moved' = reported + Gain(r) + forfeited + SlotDone'
    <3>1. moved' + SlotDone = moved + Gain(r) + SlotDone'
      BY <1>17
    <3> QED BY <2>8, <2>9, <3>1
  <2>11. Books'
    BY <2>2, <2>5, <2>8, <2>10 DEF Books
  <2> QED BY <2>4, <2>7, <2>11 DEF HoldInv
<1>18. op.operation # "none" => \A r \in Int :
         UserFrame(op.id, r) \in Frames /\ ~Tries(UserFrame(op.id, r))
  <2>1. op.operation # "none" => op.id \in Ids
    BY <1>1, <1>3, FileOpAssumption DEF Ids, TypeOK
  <2> QED BY <2>1, UserFrameFacts DEF Tries
<1>19. ASSUME NEW r \in Int, NEW f \in Frames, ~Tries(f), InCall, op.operation # "none",
              stack' = Append(Replaced(f), UserFrame(op.id, r))
       PROVE  /\ Kept(Len(stack) - 1) /\ Len(stack) - 1 < Len(stack)
              /\ \A n \in (Len(stack) - 1 + 1)..Len(stack') : ~Tries(stack'[n])
  <2>1. /\ Kept(Len(stack) - 1) /\ Len(stack') = Len(stack) + 1 /\ stack'[Len(stack)] = f
        /\ stack'[Len(stack) + 1] = UserFrame(op.id, r) /\ Len(stack) \in Nat \ {0}
    BY <1>1, <1>4, <1>18, <1>19, KeptCall
  <2>2. \A n \in (Len(stack) - 1 + 1)..Len(stack') : n = Len(stack) \/ n = Len(stack) + 1
    BY <2>1
  <2>3. \A n \in (Len(stack) - 1 + 1)..Len(stack') : ~Tries(stack'[n])
    BY <1>18, <1>19, <2>1, <2>2
  <2>4. Len(stack) - 1 < Len(stack)
    BY <2>1
  <2> QED BY <2>1, <2>3, <2>4
<1>20. CASE AnswersSlot
  <2>1. PICK r \in Int :
          /\ InCall /\ op.operation # "none"
          /\ ~(op.operation \in Plain /\ op.repeat /\ r > 0)
          /\ op'.operation = "none"
          /\ moved' + SlotDone = moved + Gain(r)
          /\ \/ TailCall(op.id, r)
             \/ \E k \in {"hupAll", "hupEnd"} : CallThen([k |-> k], op.id, r)
    BY <1>20 DEF AnswersSlot
  <2>2. moved' + SlotDone = moved + Gain(r) + SlotDone'
    <3>1. Gain(r) \in Nat /\ SlotDone' = 0
      BY <1>6, <2>1 DEF Gain
    <3> QED BY <1>4, <2>1, <3>1
  <2>3. CASE TailCall(op.id, r)
    <3>1. /\ Kept(Len(stack) - 1) /\ Len(stack') = Len(stack)
          /\ stack'[Len(stack)] = UserFrame(op.id, r) /\ Len(stack) \in Nat \ {0}
      BY <1>1, <1>4, <1>18, <2>1, <2>3, KeptSwap DEF TailCall
    <3>2. /\ \A n \in (Len(stack) - 1 + 1)..Len(stack') : ~Tries(stack'[n])
          /\ Len(stack) - 1 < Len(stack)
      BY <1>18, <2>1, <3>1
    <3> QED BY <1>17, <2>1, <2>2, <2>3, <3>1, <3>2 DEF TailCall
  <2>4. ASSUME NEW k \in {"hupAll", "hupEnd"}, CallThen([k |-> k], op.id, r)
        PROVE  HoldInv'
    <3> DEFINE f == [k |-> k]
    <3>1. f \in Frames /\ ~Tries(f)
      BY NewFrames DEF Tries
    <3>2. stack' = Append(Replaced(f), UserFrame(op.id, r)) /\ Called(op.id, r)
      BY <2>4 DEF CallThen
    <3> HIDE DEF f
    <3>3. /\ Kept(Len(stack) - 1) /\ Len(stack) - 1 < Len(stack)
          /\ \A n \in (Len(stack) - 1 + 1)..Len(stack') : ~Tries(stack'[n])
      BY <1>19, <2>1, <3>1, <3>2
    <3> QED BY <1>17, <2>1, <2>2, <3>2, <3>3
  <2> QED BY <2>1, <2>3, <2>4
<1>21. CASE RepeatsSlot
  <2>1. PICK r \in Int, f \in Frames :
          /\ r > 0 /\ InCall /\ op.operation \in Plain /\ op.repeat
          /\ f.k = "repeat" /\ CallThen(f, op.id, r) /\ op' = op /\ moved' = moved + r
    BY <1>21 DEF RepeatsSlot
  <2>2. op.operation # "none" /\ ~Tries(f) /\ op'.operation # "none"
    BY <2>1 DEF Plain, Tries
  <2>3. stack' = Append(Replaced(f), UserFrame(op.id, r)) /\ Called(op.id, r)
    BY <2>1 DEF CallThen
  <2>4. /\ Kept(Len(stack) - 1) /\ Len(stack) - 1 < Len(stack)
        /\ \A n \in (Len(stack) - 1 + 1)..Len(stack') : ~Tries(stack'[n])
    BY <1>19, <2>1, <2>2, <2>3
  <2>5. moved' + SlotDone = moved + Gain(r) + SlotDone'
    <3>1. Gain(r) = r /\ SlotDone' = SlotDone
      BY <1>7, <2>1 DEF Gain
    <3> QED BY <1>4, <2>1, <3>1
  <2> QED BY <1>17, <2>1, <2>2, <2>3, <2>4, <2>5
<1>22. CASE EndsAgain
  <2>1. /\ stack # <<>> /\ Top.k = "hupEnd" /\ TailCall(op.id, HupResult)
        /\ op' = op /\ moved' = moved
    BY <1>22 DEF EndsAgain, TopIs
  <2>2. HupResult \in Int /\ ~(HupResult > 0) /\ Gain(HupResult) = 0
    BY DEF HupResult, Gain
  <2>3. op.id \in 1..Len(hist) /\ op.id \in Ids
    <3>1. HupEnding
      BY <1>1, <2>1, PoppedFacts DEF HupEnding, Top
    <3> QED BY <1>1, <3>1, FileOpAssumption DEF Inv, IdInv, KnownInv, SlotKnown, Ids
  <2>4. /\ reported' = reported + Gain(HupResult) /\ forfeited' = forfeited
        /\ \A id \in 1..Len(hist') : Unanswered(id)' =>
             id \in 1..Len(hist) /\ Unanswered(id)
    BY <2>1, <2>2, <2>3, CalledBooks DEF TailCall
  <2>5. UserFrame(op.id, HupResult) \in Frames /\ ~Tries(UserFrame(op.id, HupResult))
    BY <2>2, <2>3, UserFrameFacts DEF Tries
  <2>6. /\ Kept(Len(stack) - 1) /\ Len(stack') = Len(stack)
        /\ stack'[Len(stack)] = UserFrame(op.id, HupResult)
        /\ Len(stack) \in Nat \ {0} /\ Top = stack[Len(stack)]
    BY <1>1, <2>1, <2>5, KeptSwap DEF TailCall
  <2>7. ~Tries(Top)
    BY <2>1 DEF Tries
  <2>8. /\ \A n \in (Len(stack) - 1 + 1)..Len(stack) : ~Tries(stack[n])
        /\ \A n \in (Len(stack) - 1 + 1)..Len(stack') : ~Tries(stack'[n])
        /\ Len(stack) - 1 < Len(stack)
    BY <2>5, <2>6, <2>7
  <2>9. TriesFree' /\ NoOpForgotten' /\ TopDone' = 0
    BY <1>8, <2>1, <2>4, <2>6, <2>8
  <2>10. Books'
    <3>1. TopDone = 0 /\ SlotDone' = SlotDone
      BY <1>4, <1>7, <2>1, <2>7 DEF InCall
    <3>2. reported' = reported /\ moved = reported + forfeited + SlotDone + TopDone
      BY <1>1, <1>4, <2>2, <2>4 DEF Books
    <3> QED BY <1>4, <2>1, <2>4, <2>9, <3>1, <3>2 DEF Books
  <2> QED BY <2>9, <2>10 DEF HoldInv
\* A start: the slot is free and no attempt is in progress.
<1>23. ASSUME NEW o, MayStart(o)
       PROVE  /\ ~InAttempt /\ TopDone = 0
              /\ \A n \in DOMAIN stack : ~Tries(stack[n])
              /\ "nest" \notin Habits => Len(stack) = 0
  <2>1. UserCode /\ (stack # <<>> => "nest" \in Habits)
    BY <1>23 DEF MayStart
  <2>2. ~InAttempt /\ TopDone = 0
    BY <2>1 DEF UserCode, TopIs, InAttempt, Tries, TopDone, FrameDone
  <2>3. ASSUME NEW n \in DOMAIN stack, Tries(stack[n]) PROVE FALSE
    <3>1. stack # <<>>
      BY <2>3
    <3>2. n = Len(stack)
      BY <1>1, <2>1, <2>3, <3>1 DEF TriesFree, Placed
    <3> QED BY <2>2, <2>3, <3>1, <3>2 DEF InAttempt, Top
  <2> QED BY <2>1, <2>2, <2>3
<1>24. ASSUME NEW o \in Ops, NEW rep \in BOOLEAN, NEW fin \in Nat,
              hist' = Append(hist, [o |-> o, repeat |-> rep, finals |-> fin,
                                    cancelled |-> FALSE, late |-> FALSE])
       PROVE  \A id \in 1..Len(hist') : Unanswered(id)' =>
                \/ id \in 1..Len(hist) /\ Unanswered(id)
                \/ id = Len(hist) + 1 /\ fin = 0
  <2> DEFINE h == [o |-> o, repeat |-> rep, finals |-> fin,
                   cancelled |-> FALSE, late |-> FALSE]
  <2>1. h \in OpHistory /\ h.finals = fin
    BY FileOpAssumption DEF OpHistory
  <2>2. hist' = Append(hist, h)
    BY <1>24
  <2> HIDE DEF h
  <2>3. /\ Len(hist') = Len(hist) + 1
        /\ \A j \in 1..Len(hist) : hist'[j] = hist[j]
        /\ hist'[Len(hist) + 1] = h
    BY <1>1, <2>1, <2>2, StartedHist
  <2>4. \A j \in 1..Len(hist') : j \in 1..Len(hist) \/ j = Len(hist) + 1
    BY <1>1, <2>3
  <2> QED BY <2>1, <2>3, <2>4 DEF Unanswered
<1>25. Repeats \subseteq BOOLEAN /\ 0 \in Nat /\ 1 \in Nat
  <2>1. Repeats \subseteq BOOLEAN
    BY DEF Repeats
  <2> QED BY <2>1
<1>26. CASE Stores
  <2>1. PICK o \in Ops, len \in Nat, rep \in Repeats :
          /\ MayStart(o) /\ (Free \/ "busy" \in Habits)
          /\ Started(o, rep) /\ op' = addRWOp(o, len, 0, rep, NewId)
          /\ stack' = stack \/ stack' = Append(stack, [k |-> "do", hup |-> FALSE])
          /\ UNCHANGED <<moved, reported, forfeited>>
    BY <1>26 DEF Stores
  <2>2. /\ ~InAttempt /\ TopDone = 0 /\ Free /\ SlotDone = 0
        /\ \A n \in DOMAIN stack : ~Tries(stack[n])
    BY <1>4, <1>23, <2>1 DEF Polite
  <2>3. \A id \in 1..Len(hist') : Unanswered(id)' =>
          (id \in 1..Len(hist) /\ Unanswered(id)) \/ id = Len(hist) + 1
    BY <1>24, <1>25, <2>1 DEF Started
  <2>4. op'.id = Len(hist) + 1 /\ op'.operation = o /\ op'.lenDone = 0 /\ o # "none"
    BY <1>1, <2>1, FileOpAssumption DEF addRWOp, Operations, Plain, All, BufAll
  <2>5. SlotDone' = 0
    BY <2>4 DEF SlotDone
  <2>6. /\ Kept(Len(stack))
        /\ \A n \in (Len(stack) + 1)..Len(stack') : ~Tries(stack'[n])
    <3>1. CASE stack' = stack
      <4>1. Kept(Len(stack)) /\ Len(stack') = Len(stack)
        BY <1>1, <3>1, KeptSame
      <4>2. \A n \in (Len(stack) + 1)..Len(stack') : FALSE
        BY <4>1 DEF Kept
      <4> QED BY <4>1, <4>2
    <3>2. CASE stack' = Append(stack, [k |-> "do", hup |-> FALSE])
      <4> DEFINE f == [k |-> "do", hup |-> FALSE]
      <4>1. f \in Frames /\ ~Tries(f) /\ stack' = Append(stack, f)
        BY <3>2, NewFrames DEF Tries
      <4> HIDE DEF f
      <4>2. Kept(Len(stack)) /\ Len(stack') = Len(stack) + 1 /\ stack'[Len(stack) + 1] = f
        BY <1>1, <4>1, KeptPush
      <4> QED BY <4>1, <4>2 DEF Kept
    <3> QED BY <2>1, <3>1, <3>2
  <2>7. \A n \in 1..Len(stack) : ~Tries(stack[n])
    BY <2>2, <2>6, KeptIndex
  <2>8. TriesFree'
    BY <1>1, <2>2, <2>6, <2>7, FreeKept
  <2>9. TopDone' = 0
    <3>1. \A n \in (Len(stack) + 1)..Len(stack') : stack'[n].k # "tryAll"
      BY <2>6 DEF Tries
    <3> QED BY <1>1, <2>2, <2>6, <3>1, NothingOnTop
  <2>10. \A id : id = Len(hist) + 1 => InProgress(id)'
    BY <2>4 DEF InProgress
  <2>11. \A n \in (Len(stack) + 1)..Len(stack) : FALSE
    BY <2>6 DEF Kept
  <2>12. NoOpForgotten'
    BY <1>1, <2>2, <2>3, <2>6, <2>10, <2>11, HeldKept DEF Free
  <2>13. Books'
    BY <1>1, <1>4, <2>1, <2>2, <2>5, <2>9 DEF Books
  <2> QED BY <2>8, <2>12, <2>13 DEF HoldInv
<1>27. CASE Attempts
  <2>1. PICK o \in Ops, rep \in Repeats, f \in Frames :
          /\ MayStart(o) /\ (Free \/ "busy" \in Habits)
          /\ Tries(f) /\ f.id = NewId /\ (f.k = "tryAll" => f.br = 0)
          /\ Started(o, rep) /\ stack' = Append(stack, f)
          /\ UNCHANGED <<op, moved, reported, forfeited>>
    BY <1>27 DEF Attempts
  <2>2. /\ ~InAttempt /\ TopDone = 0 /\ Free
        /\ \A n \in DOMAIN stack : ~Tries(stack[n])
        /\ "nest" \notin Habits => Len(stack) = 0
    BY <1>23, <2>1 DEF Polite
  <2>3. \A id \in 1..Len(hist') : Unanswered(id)' =>
          (id \in 1..Len(hist) /\ Unanswered(id)) \/ id = Len(hist) + 1
    BY <1>24, <1>25, <2>1 DEF Started
  <2>4. Kept(Len(stack)) /\ Len(stack') = Len(stack) + 1 /\ stack'[Len(stack) + 1] = f
    BY <1>1, <2>1, KeptPush
  <2>5. Len(stack) \in Nat /\ DOMAIN stack' = 1..Len(stack')
    BY <2>4 DEF Kept
  <2>6. \A n \in (Len(stack) + 1)..Len(stack') : n = Len(stack) + 1 /\ stack'[n] = f
    BY <2>4, <2>5
  <2>7. Placed(f.k, Len(stack) + 1, Len(stack'))
    BY <2>2, <2>4 DEF Placed
  <2>8. \A n \in 1..Len(stack) : ~Tries(stack[n])
    BY <2>2, <2>4, KeptIndex
  <2>9. op'.operation = "none"
    BY <2>1, <2>2 DEF Free
  <2>10. TriesFree'
    BY <1>1, <2>2, <2>4, <2>6, <2>7, <2>8, <2>9, FreeKept
  <2>11. Len(stack) + 1 \in DOMAIN stack'
    BY <2>4, <2>5
  <2>12. TopDone' = 0
    <3>1. stack' # <<>> /\ Top' = f
      BY <2>4, <2>11 DEF Top
    <3> QED BY <2>1, <3>1 DEF TopDone, FrameDone
  <2>13. \A id : id = Len(hist) + 1 => InProgress(id)'
    BY <1>1, <2>1, <2>4, <2>11 DEF InProgress, Tries
  <2>14. \A n \in (Len(stack) + 1)..Len(stack) : FALSE
    BY <2>5
  <2>15. NoOpForgotten'
    BY <1>1, <2>2, <2>3, <2>4, <2>13, <2>14, HeldKept DEF Free
  <2>16. Books'
    BY <1>1, <1>4, <1>7, <2>1, <2>2, <2>12 DEF Books
  <2> QED BY <2>10, <2>15, <2>16 DEF HoldInv
<1>28. CASE ClosesNow
  <2>1. /\ MayStart("close") /\ "close" \in Ops
        /\ stack' = Append(stack, UserFrame(NewId, 0))
        /\ hist' = Append(hist, [o |-> "close", repeat |-> FALSE, finals |-> 1,
                                 cancelled |-> FALSE, late |-> FALSE])
        /\ UNCHANGED <<op, moved, reported, forfeited>>
    BY <1>28 DEF ClosesNow, MayStart
  <2>2. /\ ~InAttempt /\ TopDone = 0
        /\ \A n \in DOMAIN stack : ~Tries(stack[n])
    BY <1>23, <2>1
  <2>3. \A id \in 1..Len(hist') : Unanswered(id)' => id \in 1..Len(hist) /\ Unanswered(id)
    <3>1. 1 \in Nat /\ 1 # 0 /\ FALSE \in BOOLEAN
      OBVIOUS
    <3> HIDE DEF Unanswered
    <3> QED BY <1>24, <2>1, <3>1
  <2>4. NewId \in Ids /\ 0 \in Int
    BY <1>1, <2>1, FileOpAssumption DEF MayStart, Ids
  <2>5. UserFrame(NewId, 0) \in Frames /\ ~Tries(UserFrame(NewId, 0))
    BY <2>4, UserFrameFacts DEF Tries
  <2>6. Kept(Len(stack)) /\ Len(stack') = Len(stack) + 1
        /\ stack'[Len(stack) + 1] = UserFrame(NewId, 0)
    BY <1>1, <2>1, <2>5, KeptPush
  <2>7. /\ \A n \in (Len(stack) + 1)..Len(stack') : ~Tries(stack'[n])
        /\ \A n \in (Len(stack) + 1)..Len(stack) : FALSE
    BY <2>5, <2>6 DEF Kept
  <2>8. TriesFree' /\ NoOpForgotten' /\ TopDone' = 0
    BY <1>8, <2>1, <2>2, <2>3, <2>6, <2>7
  <2>9. Books'
    BY <1>1, <1>4, <1>7, <2>1, <2>2, <2>8 DEF Books
  <2> QED BY <2>8, <2>9 DEF HoldInv
<1>29. CASE Cancel
  <2>1. /\ op' = Finished /\ UNCHANGED <<stack, moved, reported>>
        /\ forfeited' = IF op.operation \in All THEN forfeited + op.lenDone ELSE forfeited
        /\ hist' = [n \in DOMAIN hist |->
                      IF n \in CancelTargets THEN [hist[n] EXCEPT !.cancelled = TRUE]
                                             ELSE hist[n]]
    BY <1>29 DEF Cancel
  <2>2. Len(hist') \in Nat /\ DOMAIN hist' = 1..Len(hist')
    BY LenProperties DEF Inv, TypeOK
  <2>3. /\ Len(hist') = Len(hist)
        /\ \A j \in 1..Len(hist) :
             /\ j \in CancelTargets => hist'[j].cancelled
             /\ j \notin CancelTargets => hist'[j] = hist[j]
    BY <1>1, <2>1, <2>2, MarkedHist
  <2>4. \A id \in 1..Len(hist') : Unanswered(id)' =>
          /\ id \in 1..Len(hist) /\ Unanswered(id)
          /\ op.operation # "none" => op.id # id
    BY <2>3 DEF Unanswered, CancelTargets, Free
  <2>5. op'.operation = "none" /\ SlotDone' = 0
    BY <1>1, <1>6, <2>1, FinishedFacts
  <2>6. Kept(Len(stack)) /\ Len(stack') = Len(stack)
    BY <1>1, <2>1, KeptSame
  <2>7. /\ \A n \in (Len(stack) + 1)..Len(stack') : FALSE
        /\ \A n \in (Len(stack) + 1)..Len(stack) : FALSE
    BY <2>6 DEF Kept
  <2>8. TriesFree'
    BY <1>1, <2>5, <2>6, <2>7, FreeKept
  <2>9. NoOpForgotten'
    BY <1>1, <2>4, <2>6, <2>7, HeldKept
  <2>10. forfeited' = forfeited + SlotDone /\ TopDone' = TopDone
    <3>1. forfeited' = forfeited + SlotDone
      BY <1>4, <2>1 DEF SlotDone
    <3> QED BY <2>1, <3>1 DEF TopDone, Top
  <2>11. Books'
    BY <1>1, <1>4, <2>1, <2>5, <2>10 DEF Books
  <2> QED BY <2>8, <2>9, <2>11 DEF HoldInv
<1>30. CASE Enters
  <2>1. PICK f \in Frames : f.k \in {"do", "hup", "abort"} /\ stack' = Append(stack, f)
    BY <1>30 DEF Enters
  <2>2. ~InAttempt /\ UNCHANGED <<op, moved, reported, forfeited, hist>>
    BY <1>30 DEF Enters, SameBooks
  <2>3. TopDone = 0 /\ ~Tries(f)
    BY <2>1, <2>2 DEF InAttempt, TopDone, FrameDone, Tries
  <2>4. Kept(Len(stack)) /\ Len(stack') = Len(stack) + 1 /\ stack'[Len(stack) + 1] = f
    BY <1>1, <2>1, KeptPush
  <2>5. /\ \A n \in (Len(stack) + 1)..Len(stack') : ~Tries(stack'[n])
        /\ \A n \in (Len(stack) + 1)..Len(stack) : FALSE
    BY <2>3, <2>4 DEF Kept
  <2>6. TriesFree' /\ NoOpForgotten' /\ TopDone' = 0
    BY <1>5, <1>8, <2>2, <2>4, <2>5
  <2>7. Books'
    BY <1>1, <1>4, <1>7, <2>2, <2>3, <2>6 DEF Books
  <2> QED BY <2>6, <2>7 DEF HoldInv
<1> QED BY <1>9, <1>10, <1>11, <1>12, <1>13, <1>14, <1>15, <1>16, <1>20, <1>21, <1>22,
           <1>26, <1>27, <1>28, <1>29, <1>30 DEF Move

LEMMA HoldInit == Init => HoldInv
<1> SUFFICES ASSUME Init PROVE HoldInv
  OBVIOUS
<1>1. /\ op.operation = "none" /\ stack = <<>> /\ DOMAIN stack = {} /\ DOMAIN hist = {}
      /\ moved = 0 /\ reported = 0 /\ forfeited = 0
  BY DEF Init
<1>2. SlotDone = 0 /\ TopDone = 0
  BY <1>1 DEF SlotDone, TopDone, All, BufAll
<1> QED BY <1>1, <1>2 DEF HoldInv, TriesFree, NoOpForgotten, Books

\* No operation is forgotten, on every stream and both slots, whatever the
\* user does short of the two ways to store over a pending operation (Polite):
\* a start on a busy slot, and a start from the callback of a repeated one.
THEOREM NothingForgotten == ASSUME Polite PROVE Spec => []NoOpForgotten
<1> DEFINE I == Inv /\ KnownInv /\ HoldInv
<1>1. Init => I
  BY InvInit, AnswerInit, HoldInit
<1>2. I /\ [Next]_vars => I'
  BY InvNext, NextMoves, KnownStep, HoldStep
<1>3. I => NoOpForgotten
  BY DEF HoldInv
<1> QED BY <1>1, <1>2, <1>3, PTL DEF Spec

\* Every byte moved is reported once, under the same condition: an operation
\* that is stored over takes the bytes it has done with it.
THEOREM BytesAccounted == ASSUME Polite PROVE Spec => []Conservation
<1> DEFINE I == Inv /\ KnownInv /\ HoldInv
<1>1. Init => I
  BY InvInit, AnswerInit, HoldInit
<1>2. I /\ [Next]_vars => I'
  BY InvNext, NextMoves, KnownStep, HoldStep
<1>3. I => Conservation
  BY BooksBalance DEF HoldInv
<1> QED BY <1>1, <1>2, <1>3, PTL DEF Spec

-----------------------------------------------------------------------------
(***************************************************************************)
(* The end of the stream is told truthfully.  Once the stream has ended it *)
(* stays so; handleHup runs only then, and a call of doOperation that was  *)
(* told of a hangup runs after one.                                        *)
(***************************************************************************)

\* A hangup is what a repeated operation is told after its callback, although
\* a reader may have left bytes in the kernel: only a writer repeats operations
\* on a stream that reports hangups.
RepeatsSafely == "repeat" \in Habits => IsWrite \/ ~HupOnEnd

NotifTrue ==
  /\ "HUP" \in notif => HupOnEnd /\ down
  /\ "HUP" \in notif /\ "RDY" \notin notif => Ended

FrameTrue(f) ==
  /\ f.k \in {"hup", "hupAll", "hupEnd"} => Ended
  /\ KnowsHup(f) => HupOnEnd /\ down
  /\ f.k = "repeat" => "repeat" \in Habits
  /\ f.k = "user" /\ f.r = HupResult /\ hist[f.id].o \notin {"wait", "close"} => Ended

TruthInv == NotifTrue /\ \A n \in DOMAIN stack : FrameTrue(stack[n])

LEMMA EndStays ==
  ASSUME Inv, [Next]_vars
  PROVE  (Ended => Ended') /\ (down => down')
<1>1. TypeOK /\ avail \in Nat /\ stack \in Seq(Frames) /\ op \in OperationInfo
  BY DEF Inv, TypeOK
<1>2. ASSUME NEW o, NEW n \in Nat \ {0}, NEW r \in Results(o, n), Transfer(r),
             closed' = closed
      PROVE  (Ended => Ended') /\ (down => down')
  <2>1. down' = down /\ (avail' = avail \/ avail > 0)
    BY <1>1, <1>2, ResultFacts DEF Transfer
  <2>2. Ended /\ ~closed /\ ~IsWrite => avail' = 0
    BY <1>1, <1>2, <2>1 DEF Ended
  <2> QED BY <1>2, <2>1, <2>2 DEF Ended
<1>12. \A n : Sys(n) \in Results("rwAll", n)
  BY DEF Results
<1>3. CASE UNCHANGED streamVars /\ (closed' = closed \/ closed' = TRUE)
  BY <1>3 DEF streamVars, Ended
<1>4. CASE TryStep
  <2>1. Top.len \in Nat \ {0}
    BY <1>1, <1>4, PoppedFacts, FrameFacts DEF TryStep, TopIs
  <2> QED BY <1>2, <1>4, <2>1 DEF TryStep
<1>5. CASE TryAllStep
  <2>1. Top.len \in Nat \ {0} /\ Top.br \in Nat
    BY <1>1, <1>5, PoppedFacts, FrameFacts DEF TryAllStep, TopIs
  <2>2. Top.br < Top.len => Top.len - Top.br \in Nat \ {0}
    BY <2>1
  <2> QED BY <1>2, <1>3, <1>5, <1>12, <2>2 DEF TryAllStep
<1>6. CASE DoPlain
  <2>1. op.len \in Nat \ {0}
    BY <1>1, <1>6 DEF DoPlain, Inv, LenInv, OperationInfo, Plain
  <2> QED BY <1>2, <1>6, <2>1 DEF DoPlain
<1>7. CASE DoAll
  <2>1. op.len - op.lenDone \in Nat \ {0}
    BY <1>1, <1>7 DEF DoAll, Inv, LenInv, OperationInfo
  <2> QED BY <1>2, <1>7, <1>12, <2>1 DEF DoAll
<1>8. CASE Kernel
  BY <1>3, <1>8 DEF Kernel, End, OtherEdge, Arrive, Ended
<1>9. CASE User
  BY <1>3, <1>9 DEF User, Start, StartWait, StartPlain, StartV, StartSendFile,
       StartRwAll, StartSrAll, StartVAll, StartClose, CloseFd, Cancel, Add, Remove
<1>10. CASE DoWait \/ DoRepeat \/ DoOther \/ HupPlain \/ HupAll \/ HupEnd \/ HupNone
  BY <1>3, <1>10 DEF DoWait, DoRepeat, DoOther, CloseFd, HupPlain, HupAll, HupEnd, HupNone
<1>11. CASE Harvest \/ Dispatch \/ CallbackReturn \/ UNCHANGED vars
  BY <1>3, <1>11 DEF Harvest, Dispatch, CallbackReturn, vars, streamVars
<1> QED BY <1>4, <1>5, <1>6, <1>7, <1>8, <1>9, <1>10, <1>11 DEF Next, Library

LEMMA NotifStep ==
  ASSUME Inv, NotifTrue, [Next]_vars
  PROVE  NotifTrue'
<1>1. \/ notif' = notif \/ notif' = {}
      \/ notif' = Mask /\ UNCHANGED <<avail, down, closed>>
  BY DEF Next, Kernel, User, Library, Start, End, OtherEdge, Arrive, StartWait,
         StartPlain, StartV, StartSendFile, StartRwAll, StartSrAll, StartVAll,
         StartClose, CloseFd, Cancel, Add, Remove, Harvest, Dispatch, TryStep,
         TryAllStep, DoPlain, DoWait, DoRepeat, DoAll, DoOther, HupPlain, HupAll,
         HupEnd, HupNone, CallbackReturn, epollVars, streamVars, vars
<1>2. CASE notif' = notif \/ notif' = {}
  BY <1>2, EndStays DEF NotifTrue
<1>3. CASE notif' = Mask /\ UNCHANGED <<avail, down, closed>>
  <2>1. /\ "HUP" \in Mask => HupOnEnd /\ down
        /\ "RDY" \notin Mask => ~(avail > 0)
    BY DEF Mask
  <2>2. avail \in Nat
    BY DEF Inv, TypeOK
  <2>3. "HUP" \in Mask /\ "RDY" \notin Mask => Ended
    BY <2>1, <2>2 DEF Ended
  <2>4. Ended => Ended'
    BY EndStays
  <2> QED BY <1>3, <2>1, <2>3, <2>4 DEF NotifTrue
<1> QED BY <1>1, <1>2, <1>3

LEMMA TruthKept ==
  ASSUME Inv, KnownInv, TruthInv, [Next]_vars, Remembers, NEW m, Kept(m),
         \A n \in (m + 1)..Len(stack') : FrameTrue(stack[n])'
  PROVE  TruthInv'
<1>1. (Ended => Ended') /\ (down => down') /\ NotifTrue'
  BY EndStays, NotifStep DEF TruthInv
<1>2. ASSUME NEW n \in DOMAIN stack' PROVE FrameTrue(stack[n])'
  <2>1. CASE n \in 1..m
    <3>1. n \in DOMAIN stack /\ stack'[n] = stack[n]
      BY <2>1, KeptIndex
    <3>2. FrameTrue(stack[n]) /\ FrameKnown(stack[n])
      BY <3>1 DEF TruthInv, KnownInv
    <3>3. stack[n].k = "user" => hist'[stack[n].id].o = hist[stack[n].id].o
      BY <3>2 DEF FrameKnown, Known, Remembers
    <3> QED BY <1>1, <3>1, <3>2, <3>3 DEF FrameTrue, KnowsHup
  <2>2. CASE n \in (m + 1)..Len(stack')
    BY <2>2
  <2> QED BY <1>2, <2>1, <2>2, KeptIndex
<1> QED BY <1>1, <1>2 DEF TruthInv

\* A frame that a call of the library goes on as, and a callback.
LEMMA TrueFrame ==
  ASSUME NEW f \in Frames, f.k # "user",
         f.k \in {"hup", "hupAll", "hupEnd"} => Ended',
         KnowsHup(f) => HupOnEnd /\ down',
         f.k = "repeat" => "repeat" \in Habits
  PROVE  \A n : stack'[n] = f => FrameTrue(stack[n])'
BY DEF FrameTrue, KnowsHup

LEMMA TrueCallback ==
  ASSUME Inv, NEW id \in Ids, NEW r \in Int,
         r = HupResult => Ended' \/ hist'[id].o \in {"wait", "close"}
  PROVE  /\ UserFrame(id, r) \in Frames
         /\ \A n : stack'[n] = UserFrame(id, r) => FrameTrue(stack[n])'
<1>1. UserFrame(id, r) \in Frames
  BY NewFrames
<1>2. /\ UserFrame(id, r).k = "user" /\ UserFrame(id, r).id = id
      /\ UserFrame(id, r).r = r
  BY DEF UserFrame
<1>3. \A n : stack'[n] = UserFrame(id, r) => FrameTrue(stack[n])'
  BY <1>2 DEF FrameTrue, KnowsHup
<1> QED BY <1>1, <1>3

LEMMA TruthStep ==
  RepeatsSafely /\ Inv /\ Inv' /\ KnownInv /\ TruthInv /\ [Next]_vars => TruthInv'
<1> SUFFICES ASSUME RepeatsSafely, Inv, Inv', KnownInv, TruthInv, [Next]_vars
             PROVE  TruthInv'
  OBVIOUS
<1>1. /\ TypeOK /\ stack \in Seq(Frames) /\ op \in OperationInfo
      /\ Len(hist) \in Nat /\ NewId = Len(hist) + 1
      /\ Len(hist') \in Nat /\ DOMAIN hist' = 1..Len(hist')
  BY HistLen, LenProperties DEF Inv, TypeOK, NewId
<1>2. (Ended => Ended') /\ (down => down')
  BY EndStays
<1>3. stack # <<>> => Top \in Frames /\ FrameTrue(Top)
  <2>1. stack # <<>> => Len(stack) \in DOMAIN stack /\ Top \in Frames
    BY <1>1, PoppedFacts
  <2> QED BY <2>1 DEF TruthInv, Top
<1>4. hist' = hist => Remembers
  BY <1>1 DEF Remembers
<1>5. op.operation # "none" => /\ op.id \in 1..Len(hist) /\ op.id \in Ids
                               /\ hist[op.id].o = op.operation
                               /\ op.repeat => "repeat" \in Habits
  <2>1. op.operation # "none" => /\ op.id \in 1..Len(hist)
                                 /\ hist[op.id].o = op.operation
                                 /\ op.repeat => "repeat" \in Habits
    BY DEF KnownInv, SlotKnown, HistKnown, Known
  <2> QED BY <1>1, <2>1, FileOpAssumption DEF Ids, TypeOK
<1>6. ASSUME stack' = stack, Remembers PROVE TruthInv'
  <2>1. Kept(Len(stack)) /\ Len(stack') = Len(stack)
    BY <1>1, <1>6, KeptSame
  <2>2. \A n \in (Len(stack) + 1)..Len(stack') : FALSE
    BY <2>1 DEF Kept
  <2> QED BY <1>6, <2>1, <2>2, TruthKept
<1>7. ASSUME stack # <<>>, stack' = Popped, Remembers PROVE TruthInv'
  <2>1. Kept(Len(stack) - 1) /\ Len(stack') = Len(stack) - 1 /\ Len(stack) \in Nat \ {0}
    BY <1>1, <1>7, KeptPop
  <2>2. \A n \in (Len(stack) - 1 + 1)..Len(stack') : FALSE
    BY <2>1
  <2> QED BY <1>7, <2>1, <2>2, TruthKept
<1>8. ASSUME NEW f \in Frames, stack' = Append(stack, f), Remembers,
             \A n : stack'[n] = f => FrameTrue(stack[n])'
      PROVE  TruthInv'
  <2>1. Kept(Len(stack)) /\ Len(stack') = Len(stack) + 1 /\ stack'[Len(stack) + 1] = f
    BY <1>1, <1>8, KeptPush
  <2>2. \A n \in (Len(stack) + 1)..Len(stack') : stack'[n] = f
    BY <2>1 DEF Kept
  <2> QED BY <1>8, <2>1, <2>2, TruthKept
<1>9. ASSUME NEW f \in Frames, stack # <<>>, stack' = Replaced(f), Remembers,
             \A n : stack'[n] = f => FrameTrue(stack[n])'
      PROVE  TruthInv'
  <2>1. /\ Kept(Len(stack) - 1) /\ Len(stack') = Len(stack) /\ stack'[Len(stack)] = f
        /\ Len(stack) \in Nat \ {0}
    BY <1>1, <1>9, KeptSwap
  <2>2. \A n \in (Len(stack) - 1 + 1)..Len(stack') : stack'[n] = f
    BY <2>1
  <2> QED BY <1>9, <2>1, <2>2, TruthKept
<1>10. ASSUME NEW f \in Frames, NEW u \in Frames, stack # <<>>,
              stack' = Append(Replaced(f), u), Remembers,
              \A n : stack'[n] = f => FrameTrue(stack[n])',
              \A n : stack'[n] = u => FrameTrue(stack[n])'
       PROVE  TruthInv'
  <2>1. /\ Kept(Len(stack) - 1) /\ Len(stack') = Len(stack) + 1 /\ stack'[Len(stack)] = f
        /\ stack'[Len(stack) + 1] = u /\ Len(stack) \in Nat \ {0}
    BY <1>1, <1>10, KeptCall
  <2>2. \A n \in (Len(stack) - 1 + 1)..Len(stack') : n = Len(stack) \/ n = Len(stack) + 1
    BY <2>1
  <2>3. \A n \in (Len(stack) - 1 + 1)..Len(stack') : stack'[n] = f \/ stack'[n] = u
    BY <2>1, <2>2
  <2> QED BY <1>10, <2>1, <2>3, TruthKept
\* The callback of operation c is called with r.
<1>11. ASSUME NEW c \in 1..Len(hist), NEW r \in Int, Called(c, r),
              r = HupResult => Ended' \/ hist[c].o \in {"wait", "close"}
       PROVE  /\ Remembers /\ UserFrame(c, r) \in Frames
              /\ \A n : stack'[n] = UserFrame(c, r) => FrameTrue(stack[n])'
  <2>1. Remembers /\ hist'[c].o = hist[c].o
    BY <1>1, <1>11, CalledHist DEF Remembers
  <2>2. c \in Ids
    BY <1>1, FileOpAssumption DEF Ids, TypeOK
  <2> QED BY <1>11, <2>1, <2>2, TrueCallback
<1>12. Move
  BY NextMoves
<1>13. CASE Quiet
  BY <1>4, <1>6, <1>13 DEF Quiet
<1>14. CASE Returns \/ Parks
  BY <1>4, <1>7, <1>14 DEF Returns, Parks, InCall, InAttempt, SameBooks
<1>15. CASE Refuses
  <2>1. hist' = [hist EXCEPT ![Top.id].cancelled = TRUE] /\ stack # <<>> /\ stack' = Popped
    BY <1>15 DEF Refuses, InAttempt
  <2>2. Remembers
    BY <1>1, <2>1, MarkedHist
  <2> QED BY <1>7, <2>1, <2>2
<1>16. CASE Loops
  <2>1. PICK f \in Frames : /\ f.k \in {"do", "rest"} /\ stack' = Replaced(f)
                            /\ KnowsHup(f) => KnowsHup(Top)
    BY <1>16 DEF Loops
  <2>2. stack # <<>> /\ Remembers
    BY <1>4, <1>16 DEF Loops, InCall, SameBooks
  <2>3. KnowsHup(f) => HupOnEnd /\ down'
    BY <1>2, <1>3, <2>1, <2>2 DEF FrameTrue
  <2>4. \A n : stack'[n] = f => FrameTrue(stack[n])'
    BY <2>1, <2>3, TrueFrame
  <2> QED BY <1>9, <2>1, <2>2, <2>4
<1>17. CASE Gains
  <2>1. PICK d \in Nat : stack' = Replaced([Top EXCEPT !.br = @ + d])
    BY <1>17 DEF Gains
  <2>2. stack # <<>> /\ Top.k = "tryAll" /\ Top \in Frames /\ Remembers
    BY <1>3, <1>4, <1>17 DEF Gains, InAttempt, SameBooks
  <2>3. Top \in TryAllFrames
    BY <2>2 DEF Frames, UserFrames, TryFrames, TryAllFrames, DoFrames,
                RepeatFrames, HupFrames
  <2> DEFINE f == [Top EXCEPT !.br = @ + d]
  <2>4. f \in TryAllFrames /\ f.k = "tryAll"
    BY <2>3 DEF TryAllFrames
  <2>5. f \in Frames /\ stack' = Replaced(f)
    BY <2>1, <2>4 DEF Frames
  <2> HIDE DEF f
  <2>6. \A n : stack'[n] = f => FrameTrue(stack[n])'
    BY <2>4, <2>5, TrueFrame DEF KnowsHup
  <2> QED BY <1>9, <2>2, <2>5, <2>6
<1>18. InAttempt => /\ stack # <<>> /\ Top \in Frames /\ Tries(Top)
                    /\ Top.id \in 1..Len(hist)
  BY KnownTop DEF InAttempt, Known
<1>19. CASE AnswersTry
  <2>1. PICK r \in Int : InAttempt /\ TailCall(Top.id, r) /\ Truth(r)
    BY <1>19 DEF AnswersTry
  <2>2. /\ Remembers /\ UserFrame(Top.id, r) \in Frames
        /\ \A n : stack'[n] = UserFrame(Top.id, r) => FrameTrue(stack[n])'
    BY <1>11, <1>18, <2>1 DEF TailCall, Truth
  <2> QED BY <1>9, <1>18, <2>1, <2>2 DEF TailCall
<1>20. CASE RepeatsTry
  <2>1. PICK r \in Int : r > 0 /\ InAttempt /\ CallThen(Top, Top.id, r)
    BY <1>20 DEF RepeatsTry
  <2>2. r # HupResult
    BY <2>1 DEF HupResult
  <2>3. /\ Remembers /\ UserFrame(Top.id, r) \in Frames
        /\ \A n : stack'[n] = UserFrame(Top.id, r) => FrameTrue(stack[n])'
    BY <1>11, <1>18, <2>1, <2>2 DEF CallThen
  <2>4. \A n : stack'[n] = Top => FrameTrue(stack[n])'
    BY <1>18, <2>1, TrueFrame DEF Tries, KnowsHup
  <2> QED BY <1>10, <1>18, <2>1, <2>3, <2>4 DEF CallThen
<1>21. CASE AnswersSlot
  <2>1. PICK r \in Int :
          /\ InCall /\ op.operation # "none"
          /\ \/ Truth(r)
             \/ op.operation \in {"wait", "close"}
             \/ Top.k \in {"hup", "hupAll"} \/ (Top.k = "repeat" /\ Top.hup)
          /\ \/ TailCall(op.id, r)
             \/ /\ Top.k \in {"hup", "hupAll"}
                /\ \E k \in {"hupAll", "hupEnd"} : CallThen([k |-> k], op.id, r)
    BY <1>21 DEF AnswersSlot
  <2>2. stack # <<>> /\ FrameTrue(Top)
    BY <1>3, <2>1 DEF InCall
  <2>3. Top.k = "repeat" /\ Top.hup => Ended
    BY <2>2 DEF FrameTrue, KnowsHup, RepeatsSafely, Ended
  <2>4. Top.k \in {"hup", "hupAll"} => Ended
    BY <2>2 DEF FrameTrue
  <2>5. r = HupResult => Ended' \/ hist[op.id].o \in {"wait", "close"}
    BY <1>2, <1>5, <2>1, <2>3, <2>4 DEF Truth
  <2>6. Called(op.id, r)
    BY <2>1 DEF TailCall, CallThen
  <2>7. /\ Remembers /\ UserFrame(op.id, r) \in Frames
        /\ \A n : stack'[n] = UserFrame(op.id, r) => FrameTrue(stack[n])'
    BY <1>5, <1>11, <2>1, <2>5, <2>6
  <2>8. CASE TailCall(op.id, r)
    BY <1>9, <2>2, <2>7, <2>8 DEF TailCall
  <2>9. ASSUME NEW k \in {"hupAll", "hupEnd"}, CallThen([k |-> k], op.id, r), Ended
        PROVE  TruthInv'
    <3> DEFINE f == [k |-> k]
    <3>1. f \in Frames /\ f.k # "user" /\ ~KnowsHup(f) /\ f.k # "repeat"
      BY NewFrames DEF KnowsHup
    <3>2. stack' = Append(Replaced(f), UserFrame(op.id, r))
      BY <2>9 DEF CallThen
    <3> HIDE DEF f
    <3>3. \A n : stack'[n] = f => FrameTrue(stack[n])'
      BY <1>2, <2>9, <3>1, TrueFrame
    <3> QED BY <1>10, <2>2, <2>7, <3>1, <3>2, <3>3
  <2> QED BY <2>1, <2>4, <2>8, <2>9
<1>22. CASE RepeatsSlot
  <2>1. PICK r \in Int, f \in Frames :
          /\ r > 0 /\ InCall /\ op.operation \in Plain /\ op.repeat
          /\ f.k = "repeat" /\ CallThen(f, op.id, r) /\ (KnowsHup(f) => KnowsHup(Top))
    BY <1>22 DEF RepeatsSlot
  <2>2. r # HupResult /\ stack # <<>> /\ op.operation # "none"
    <3>1. r # HupResult
      BY <2>1 DEF HupResult
    <3> QED BY <2>1, <3>1 DEF InCall, Plain
  <2>3. /\ Remembers /\ UserFrame(op.id, r) \in Frames
        /\ \A n : stack'[n] = UserFrame(op.id, r) => FrameTrue(stack[n])'
    BY <1>5, <1>11, <2>1, <2>2 DEF CallThen
  <2>4. (KnowsHup(f) => HupOnEnd /\ down') /\ "repeat" \in Habits
    BY <1>2, <1>3, <1>5, <2>1, <2>2 DEF FrameTrue
  <2>5. \A n : stack'[n] = f => FrameTrue(stack[n])'
    BY <2>1, <2>4, TrueFrame
  <2> QED BY <1>10, <2>1, <2>2, <2>3, <2>5 DEF CallThen
<1>23. CASE EndsAgain
  <2>1. stack # <<>> /\ Top.k = "hupEnd" /\ TailCall(op.id, HupResult) /\ HupResult \in Int
    BY <1>23 DEF EndsAgain, TopIs, HupResult
  <2>2. op.id \in 1..Len(hist)
    <3>1. HupEnding
      BY <1>1, <2>1, PoppedFacts DEF HupEnding, Top
    <3> QED BY <1>1, <3>1, FileOpAssumption DEF Inv, IdInv, KnownInv, SlotKnown, Ids
  <2>3. Ended'
    BY <1>2, <1>3, <2>1 DEF FrameTrue
  <2>4. /\ Remembers /\ UserFrame(op.id, HupResult) \in Frames
        /\ \A n : stack'[n] = UserFrame(op.id, HupResult) => FrameTrue(stack[n])'
    BY <1>11, <2>1, <2>2, <2>3 DEF TailCall
  <2> QED BY <1>9, <2>1, <2>4 DEF TailCall
<1>24. ASSUME NEW o \in Ops, NEW rep \in BOOLEAN, NEW fin \in Nat,
              hist' = Append(hist, [o |-> o, repeat |-> rep, finals |-> fin,
                                    cancelled |-> FALSE, late |-> FALSE])
       PROVE  Remembers /\ hist'[Len(hist) + 1].o = o
  <2> DEFINE h == [o |-> o, repeat |-> rep, finals |-> fin,
                   cancelled |-> FALSE, late |-> FALSE]
  <2>1. h \in OpHistory /\ h.o = o
    BY FileOpAssumption DEF OpHistory
  <2>2. hist' = Append(hist, h)
    BY <1>24
  <2> HIDE DEF h
  <2> QED BY <1>1, <2>1, <2>2, StartedHist
<1>25. Repeats \subseteq BOOLEAN
  BY DEF Repeats
<1>26. CASE Stores
  <2>1. PICK o \in Ops, rep \in Repeats :
          /\ Started(o, rep)
          /\ stack' = stack \/ stack' = Append(stack, [k |-> "do", hup |-> FALSE])
    BY <1>26 DEF Stores
  <2>2. Remembers
    BY <1>24, <1>25, <2>1 DEF Started
  <2> DEFINE f == [k |-> "do", hup |-> FALSE]
  <2>3. f \in Frames /\ f.k = "do" /\ ~KnowsHup(f)
    BY NewFrames DEF KnowsHup
  <2>4. stack' = stack \/ stack' = Append(stack, f)
    BY <2>1
  <2> HIDE DEF f
  <2>5. \A n : stack'[n] = f => FrameTrue(stack[n])'
    BY <2>3, TrueFrame
  <2> QED BY <1>6, <1>8, <2>2, <2>3, <2>4, <2>5
<1>27. CASE Attempts
  <2>1. PICK o \in Ops, rep \in Repeats, f \in Frames :
          Tries(f) /\ Started(o, rep) /\ stack' = Append(stack, f)
    BY <1>27 DEF Attempts
  <2>2. Remembers
    BY <1>24, <1>25, <2>1 DEF Started
  <2>3. \A n : stack'[n] = f => FrameTrue(stack[n])'
    BY <2>1, TrueFrame DEF Tries, KnowsHup
  <2> QED BY <1>8, <2>1, <2>2, <2>3
<1>28. CASE ClosesNow
  <2>1. /\ "close" \in Ops /\ stack' = Append(stack, UserFrame(NewId, 0))
        /\ hist' = Append(hist, [o |-> "close", repeat |-> FALSE, finals |-> 1,
                                 cancelled |-> FALSE, late |-> FALSE])
    BY <1>28 DEF ClosesNow, MayStart
  <2>2. Remembers /\ hist'[Len(hist) + 1].o = "close"
    <3>1. 1 \in Nat /\ FALSE \in BOOLEAN
      OBVIOUS
    <3> QED BY <1>24, <2>1, <3>1
  <2>3. NewId \in Ids /\ 0 \in Int
    BY <1>1, <1>28, FileOpAssumption DEF ClosesNow, MayStart, Ids
  <2>4. /\ UserFrame(NewId, 0) \in Frames
        /\ \A n : stack'[n] = UserFrame(NewId, 0) => FrameTrue(stack[n])'
    BY <1>1, <2>2, <2>3, TrueCallback
  <2> QED BY <1>8, <2>1, <2>2, <2>4
<1>29. CASE Cancel
  <2>1. /\ stack' = stack
        /\ hist' = [n \in DOMAIN hist |->
                      IF n \in CancelTargets THEN [hist[n] EXCEPT !.cancelled = TRUE]
                                             ELSE hist[n]]
    BY <1>29 DEF Cancel
  <2>2. Remembers
    BY <1>1, <2>1, MarkedHist
  <2> QED BY <1>6, <2>1, <2>2
<1>30. CASE Enters
  <2>1. PICK f \in Frames : /\ f.k \in {"do", "hup", "abort"}
                            /\ f.k = "hup" => notif # {} /\ "RDY" \notin notif
                            /\ KnowsHup(f) => "HUP" \in notif
                            /\ stack' = Append(stack, f)
    BY <1>30 DEF Enters
  <2>2. Remembers
    BY <1>4, <1>30 DEF Enters, SameBooks
  <2>3. f.k = "hup" => Ended'
    <3>1. notif # {} /\ "RDY" \notin notif => "HUP" \in notif
      BY <1>1 DEF TypeOK
    <3> QED BY <1>2, <2>1, <3>1 DEF TruthInv, NotifTrue
  <2>4. KnowsHup(f) => HupOnEnd /\ down'
    BY <1>2, <2>1 DEF TruthInv, NotifTrue
  <2>5. \A n : stack'[n] = f => FrameTrue(stack[n])'
    BY <2>1, <2>3, <2>4, TrueFrame
  <2> QED BY <1>8, <2>1, <2>2, <2>5
<1> QED BY <1>12, <1>13, <1>14, <1>15, <1>16, <1>17, <1>19, <1>20, <1>21, <1>22, <1>23,
           <1>26, <1>27, <1>28, <1>29, <1>30 DEF Move

\* A callback that is told of the end of the stream is told the truth, on every
\* stream and both slots and whatever the user does, except that a reader whose
\* stream reports hangups must not repeat operations.
THEOREM EndTold == ASSUME RepeatsSafely PROVE Spec => []EndIsTheEnd
<1> DEFINE I == Inv /\ KnownInv /\ TruthInv
<1>1. Init => I
  <2>1. Init => TruthInv
    <3> SUFFICES ASSUME Init PROVE TruthInv
      OBVIOUS
    <3>1. notif = {} /\ DOMAIN stack = {}
      BY DEF Init
    <3> QED BY <3>1 DEF TruthInv, NotifTrue
  <2> QED BY <2>1, InvInit, AnswerInit
<1>2. I /\ [Next]_vars => I'
  BY InvNext, NextMoves, KnownStep, TruthStep
<1>3. I => EndIsTheEnd
  BY DEF TruthInv, FrameTrue, EndIsTheEnd, Ended
<1> QED BY <1>1, <1>2, <1>3, PTL DEF Spec

-----------------------------------------------------------------------------
(***************************************************************************)
(* Who hears of the end.  The end of the stream is one edge, like the      *)
(* arrival of data, but no later transfer shows it: after the notification *)
(* has been dispatched, the call of doOperation it led to is the only one  *)
(* that will look.                                                         *)
(***************************************************************************)

\* The end comes as EPOLLIN or EPOLLOUT, so that dispatch() calls doOperation
\* and not handleHup, as it does on sockets and not on pipes.  A reader is told
\* of the hangup as well, as it is on UNIX stream sockets and after a reset,
\* not after a TCP FIN, and goes through the notification's call: readvAll()
\* looks at the stream in a call of its own, which knows of no hangup and may
\* stop after one transfer.
EndHeard == RdyOnEnd /\ (IsWrite \/ (HupOnEnd /\ "rwvAll" \notin Ops))

\* A call of doOperation that will still find the end, and one that will stop
\* after a transfer because it knows of no end.
FindsEnd(f) ==
  f.k \in {"do", "rest"} \/ (f.k = "repeat" /\ (~f.short \/ f.hup))
KnowsNoEnd(f) ==
  /\ f.k \in {"do", "rest", "repeat"} /\ ~f.hup
  /\ ~IsWrite \/ (f.k = "repeat" /\ f.short)

\* The stream has ended, and no edge and no notification is left to say so.
EndPassed == registered /\ down /\ ~edge /\ "RDY" \notin notif

\* No operation will be stored without a look at the stream, and one that is
\* stored is still going to be served.
EndMet ==
  /\ ~skip
  /\ \A n \in DOMAIN stack : ~KnowsNoEnd(stack[n])
  /\ Waiting => \E n \in DOMAIN stack : FindsEnd(stack[n])

EndInv ==
  /\ closed => ~registered
  /\ notif # {} => "RDY" \in notif
  /\ registered /\ HupOnEnd /\ down /\ notif # {} /\ "HUP" \notin notif => edge
  /\ EndPassed => EndMet

\* After the end a system call never would block, and a write fails.
LEMMA SysEnded ==
  ASSUME TypeOK, down, ~closed, NEW n \in Nat \ {0}
  PROVE  Sys(n) # EAGAIN /\ (IsWrite => ~(Sys(n) > 0))
<1>1. avail \in Nat /\ IsWrite \in BOOLEAN /\ closed \in BOOLEAN /\ down \in BOOLEAN
  BY FileOpAssumption DEF TypeOK
<1>2. CASE IsWrite
  <2>1. Sys(n) = -1
    BY <1>1, <1>2 DEF Sys
  <2> QED BY <2>1 DEF EAGAIN
<1>3. CASE ~IsWrite /\ avail > 0
  <2>1. Sys(n) = IF n < avail THEN n ELSE avail
    BY <1>1, <1>3 DEF Sys
  <2> QED BY <1>1, <1>3, <2>1 DEF EAGAIN
<1>4. CASE ~IsWrite /\ avail = 0
  <2>1. Sys(n) = 0
    BY <1>1, <1>4 DEF Sys
  <2> QED BY <1>4, <2>1 DEF EAGAIN
<1> QED BY <1>1, <1>2, <1>3, <1>4

LEMMA ResultEnded ==
  ASSUME TypeOK, down, ~closed, NEW o, NEW n \in Nat \ {0}, NEW r \in Results(o, n)
  PROVE  r # EAGAIN /\ (IsWrite => ~(r > 0))
<1>1. Sys(n) \in Int /\ Sys(n) # EAGAIN /\ (IsWrite => ~(Sys(n) > 0))
  BY SysFacts, SysEnded
<1> QED BY <1>1 DEF Results, EAGAIN

\* EndMet after a step that keeps the lowest m frames.
LEMMA MetKept ==
  ASSUME EndMet, ~skip', NEW m, Kept(m),
         \A n \in (m + 1)..Len(stack') : ~KnowsNoEnd(stack'[n]),
         Waiting' => \/ Waiting /\ \A n \in (m + 1)..Len(stack) : ~FindsEnd(stack[n])
                     \/ \E n \in (m + 1)..Len(stack') : FindsEnd(stack'[n])
  PROVE  EndMet'
<1>1. /\ \A n \in DOMAIN stack' : n \in 1..m \/ n \in (m + 1)..Len(stack')
      /\ \A n \in DOMAIN stack : n \in 1..m \/ n \in (m + 1)..Len(stack)
      /\ \A n \in 1..m : n \in DOMAIN stack /\ n \in DOMAIN stack' /\ stack'[n] = stack[n]
  BY KeptIndex
<1>2. \A n \in (m + 1)..Len(stack') : n \in DOMAIN stack'
  BY DEF Kept
<1>3. ASSUME NEW n \in DOMAIN stack' PROVE ~KnowsNoEnd(stack'[n])
  BY <1>1, <1>3 DEF EndMet
<1>4. ASSUME Waiting' PROVE \E n \in DOMAIN stack' : FindsEnd(stack'[n])
  <2>1. CASE \E n \in (m + 1)..Len(stack') : FindsEnd(stack'[n])
    BY <1>2, <2>1
  <2>2. CASE Waiting /\ \A n \in (m + 1)..Len(stack) : ~FindsEnd(stack[n])
    <3>1. PICK n \in DOMAIN stack : FindsEnd(stack[n])
      BY <2>2 DEF EndMet
    <3>2. n \in 1..m
      BY <1>1, <2>2, <3>1
    <3> QED BY <1>1, <3>1, <3>2
  <2> QED BY <1>4, <2>1, <2>2
<1>5. /\ \A n \in DOMAIN stack' : ~KnowsNoEnd(stack[n])'
      /\ Waiting' => \E n \in DOMAIN stack' : FindsEnd(stack[n])'
  BY <1>3, <1>4 DEF KnowsNoEnd, FindsEnd
<1> QED BY <1>5 DEF EndMet

LEMMA MetSame ==
  ASSUME EndMet, ~skip', stack \in Seq(Frames), stack' = stack, Waiting' => Waiting
  PROVE  EndMet'
<1>1. Kept(Len(stack)) /\ Len(stack') = Len(stack)
  BY KeptSame
<1>2. /\ \A n \in (Len(stack) + 1)..Len(stack) : FALSE
      /\ \A n \in (Len(stack) + 1)..Len(stack') : FALSE
  BY <1>1 DEF Kept
<1> QED BY <1>1, <1>2, MetKept

LEMMA MetPop ==
  ASSUME EndMet, ~skip', stack \in Seq(Frames), stack # <<>>, stack' = Popped,
         Waiting' => Waiting /\ ~FindsEnd(Top)
  PROVE  EndMet'
<1> DEFINE m == Len(stack) - 1
<1>1. Kept(m) /\ Len(stack') = m /\ Len(stack) \in Nat \ {0} /\ Top = stack[Len(stack)]
  BY KeptPop
<1>2. /\ \A n \in (m + 1)..Len(stack) : n = Len(stack)
      /\ \A n \in (m + 1)..Len(stack') : FALSE
  BY <1>1
<1> QED BY <1>1, <1>2, MetKept

LEMMA MetSwap ==
  ASSUME EndMet, ~skip', stack \in Seq(Frames), stack # <<>>, NEW f \in Frames,
         stack' = Replaced(f), ~KnowsNoEnd(f),
         Waiting' => FindsEnd(f) \/ (Waiting /\ ~FindsEnd(Top))
  PROVE  EndMet'
<1> DEFINE m == Len(stack) - 1
<1>1. /\ Kept(m) /\ Len(stack') = Len(stack) /\ stack'[Len(stack)] = f
      /\ Len(stack) \in Nat \ {0} /\ Top = stack[Len(stack)]
  BY KeptSwap
<1>2. /\ \A n \in (m + 1)..Len(stack) : n = Len(stack)
      /\ \A n \in (m + 1)..Len(stack') : n = Len(stack)
      /\ Len(stack) \in (m + 1)..Len(stack')
  BY <1>1
<1> HIDE DEF m
<1> QED BY <1>1, <1>2, MetKept

LEMMA MetPush ==
  ASSUME EndMet, ~skip', stack \in Seq(Frames), NEW f \in Frames,
         stack' = Append(stack, f), ~KnowsNoEnd(f), Waiting' => Waiting \/ FindsEnd(f)
  PROVE  EndMet'
<1>1. /\ Kept(Len(stack)) /\ Len(stack') = Len(stack) + 1 /\ stack'[Len(stack) + 1] = f
  BY KeptPush
<1>2. /\ \A n \in (Len(stack) + 1)..Len(stack) : FALSE
      /\ \A n \in (Len(stack) + 1)..Len(stack') : n = Len(stack) + 1
      /\ Len(stack) + 1 \in (Len(stack) + 1)..Len(stack')
  BY <1>1 DEF Kept
<1> QED BY <1>1, <1>2, MetKept

LEMMA MetCall ==
  ASSUME EndMet, ~skip', stack \in Seq(Frames), stack # <<>>, NEW f \in Frames,
         NEW u \in Frames, stack' = Append(Replaced(f), u),
         ~KnowsNoEnd(f), ~KnowsNoEnd(u),
         Waiting' => FindsEnd(f) \/ (Waiting /\ ~FindsEnd(Top))
  PROVE  EndMet'
<1> DEFINE m == Len(stack) - 1
<1>1. /\ Kept(m) /\ Len(stack') = Len(stack) + 1
      /\ stack'[Len(stack)] = f /\ stack'[Len(stack) + 1] = u
      /\ Len(stack) \in Nat \ {0} /\ Top = stack[Len(stack)]
  BY KeptCall
<1>2. /\ \A n \in (m + 1)..Len(stack) : n = Len(stack)
      /\ \A n \in (m + 1)..Len(stack') : n = Len(stack) \/ n = Len(stack) + 1
      /\ Len(stack) \in (m + 1)..Len(stack')
  BY <1>1
<1> HIDE DEF m
<1> QED BY <1>1, <1>2, MetKept

\* Callbacks' frames, and the ways to call one.
LEMMA MetTailCall ==
  ASSUME EndMet, ~skip', stack \in Seq(Frames), stack # <<>>, NEW id \in Ids, NEW r \in Int,
         TailCall(id, r), Waiting' => Waiting /\ ~FindsEnd(Top)
  PROVE  EndMet'
<1>1. UserFrame(id, r) \in Frames /\ ~KnowsNoEnd(UserFrame(id, r))
  BY NewFrames DEF UserFrame, KnowsNoEnd
<1>2. stack' = Replaced(UserFrame(id, r))
  BY DEF TailCall
<1> QED BY <1>1, <1>2, MetSwap

LEMMA MetCallThen ==
  ASSUME EndMet, ~skip', stack \in Seq(Frames), stack # <<>>, NEW f \in Frames,
         NEW id \in Ids, NEW r \in Int, CallThen(f, id, r), ~KnowsNoEnd(f),
         Waiting' => FindsEnd(f) \/ (Waiting /\ ~FindsEnd(Top))
  PROVE  EndMet'
<1>1. UserFrame(id, r) \in Frames /\ ~KnowsNoEnd(UserFrame(id, r))
  BY NewFrames DEF UserFrame, KnowsNoEnd
<1>2. stack' = Append(Replaced(f), UserFrame(id, r))
  BY DEF CallThen
<1> QED BY <1>1, <1>2, MetCall

-----------------------------------------------------------------------------
(***************************************************************************)
(* Steps of the user and the library after the end.                        *)
(***************************************************************************)

\* The state in which they are taken.
AfterEnd == Inv /\ EndMet /\ down /\ ~closed

LEMMA AfterEndFacts ==
  ASSUME AfterEnd
  PROVE  /\ TypeOK /\ stack \in Seq(Frames) /\ op \in OperationInfo /\ ~skip
         /\ stack # <<>> => Top \in Frames /\ ~KnowsNoEnd(Top)
<1>1. TypeOK /\ stack \in Seq(Frames) /\ op \in OperationInfo /\ ~skip
  BY DEF AfterEnd, Inv, TypeOK, EndMet
<1>2. ASSUME stack # <<>> PROVE Top \in Frames /\ ~KnowsNoEnd(Top)
  <2>1. Top \in Frames /\ Len(stack) \in DOMAIN stack
    BY <1>1, <1>2, PoppedFacts
  <2> QED BY <2>1 DEF AfterEnd, EndMet, Top
<1> QED BY <1>1, <1>2

LEMMA MetTry == AfterEnd /\ TryStep => EndMet'
<1> SUFFICES ASSUME AfterEnd, TryStep PROVE EndMet'
  OBVIOUS
<1>0. PICK r \in Results(Top.o, Top.len) :
        \/ r = EAGAIN
        \/ op' = op /\ (TailCall(Top.id, r) \/ CallThen(Top, Top.id, r))
  BY Zenon DEF TryStep
<1>1. /\ TypeOK /\ stack \in Seq(Frames) /\ stack # <<>> /\ Top.k = "try"
      /\ EndMet /\ down /\ ~closed /\ ~skip /\ Top \in Frames
  BY AfterEndFacts DEF TryStep, TopIs, AfterEnd
<1>2. Top.len \in Nat \ {0} /\ Top.id \in Ids
  BY <1>1, FrameFacts
<1>3. r \in Int /\ r # EAGAIN
  BY <1>1, <1>2, ResultFacts, ResultEnded
<1>4. ~skip'
  BY <1>1 DEF TryStep
<1>5. ~KnowsNoEnd(Top) /\ ~FindsEnd(Top)
  BY <1>1 DEF KnowsNoEnd, FindsEnd
<1>6. op' = op /\ (TailCall(Top.id, r) \/ CallThen(Top, Top.id, r))
  BY <1>0, <1>3
<1>7. Waiting' => Waiting
  BY <1>6 DEF Waiting
<1> QED BY <1>1, <1>2, <1>3, <1>4, <1>5, <1>6, <1>7, MetTailCall, MetCallThen

LEMMA MetTryAll == AfterEnd /\ TryAllStep => EndMet'
<1> SUFFICES ASSUME AfterEnd, TryAllStep PROVE EndMet'
  OBVIOUS
<1> DEFINE r == Sys(Top.len - Top.br)
<1>1. /\ TypeOK /\ stack \in Seq(Frames) /\ stack # <<>> /\ Top.k = "tryAll"
      /\ EndMet /\ down /\ ~closed /\ ~skip /\ Top \in Frames
  BY AfterEndFacts DEF TryAllStep, TopIs, AfterEnd
<1>2. /\ Top.len \in Lens /\ Top.len \in Nat \ {0} /\ Top.br \in Nat /\ Top.id \in Ids
      /\ Top.o \in BufAll
  BY <1>1, FrameFacts
<1>3. ~skip'
  BY <1>1 DEF TryAllStep
<1>4. ~FindsEnd(Top)
  BY <1>1 DEF FindsEnd
<1>5. CASE Top.br >= Top.len
  <2>0. ~(Top.br < Top.len)
    BY <1>2, <1>5
  <2>1. TailCall(Top.id, Top.br) /\ op' = op
    BY <2>0, Zenon DEF TryAllStep
  <2>2. Waiting' => Waiting
    BY <2>1 DEF Waiting
  <2> QED BY <1>1, <1>2, <1>3, <1>4, <2>1, <2>2, MetTailCall
<1>6. CASE Top.br < Top.len
  <2>1. Top.len - Top.br \in Nat \ {0}
    BY <1>2, <1>6
  <2>2. r \in Int /\ r # EAGAIN
    BY <1>1, <2>1, SysFacts, SysEnded
  <2>3. /\ op' = op
        /\ \/ TailCall(Top.id, IF Top.br = 0 THEN r ELSE Top.br)
           \/ r > 0 /\ stack' = Replaced([Top EXCEPT !.br = @ + r])
    <3>1. ~(Top.br >= Top.len)
      BY <1>2, <1>6
    <3> QED BY <2>2, <3>1, Zenon DEF TryAllStep
  <2>4. Waiting' => Waiting
    BY <2>3 DEF Waiting
  <2>5. (IF Top.br = 0 THEN r ELSE Top.br) \in Int
    BY <1>2, <2>2
  <2>6. CASE TailCall(Top.id, IF Top.br = 0 THEN r ELSE Top.br)
    BY <1>1, <1>2, <1>3, <1>4, <2>4, <2>5, <2>6, MetTailCall
  <2>7. CASE r > 0 /\ stack' = Replaced([Top EXCEPT !.br = @ + r])
    <3> DEFINE f == [Top EXCEPT !.br = @ + r]
    <3>1. Top.br + r \in Nat
      BY <1>2, <2>2, <2>7
    <3>2. f \in Frames /\ f.k = "tryAll"
      BY <1>1, <1>2, <3>1 DEF Frames, UserFrames, TryFrames, TryAllFrames, DoFrames,
                              RepeatFrames, HupFrames
    <3>3. stack' = Replaced(f)
      BY <2>7
    <3> HIDE DEF f
    <3>4. ~KnowsNoEnd(f)
      BY <3>2 DEF KnowsNoEnd
    <3> QED BY <1>1, <1>3, <1>4, <2>4, <3>2, <3>3, <3>4, MetSwap
  <2> QED BY <2>3, <2>6, <2>7
<1> QED BY <1>2, <1>5, <1>6

\* doOperation.  A reader's call knows of the hangup here, and a writer's
\* system call fails.
LEMMA MetDoPlain == EndHeard /\ AfterEnd /\ DoPlain => EndMet'
<1> SUFFICES ASSUME EndHeard, AfterEnd, DoPlain PROVE EndMet'
  OBVIOUS
<1>0. PICK r \in Results(op.operation, op.len) :
        LET short == Short(r, op.len)
            f == [k |-> "repeat", o |-> op.operation, short |-> short, hup |-> Top.hup]
        IN
        \/ r = EAGAIN
        \/ op' = Finished /\ TailCall(op.id, r) /\ skip' = skip
        \/ r > 0 /\ CallThen(f, op.id, r) /\ skip' = skip
        \/ /\ r > 0 /\ op' = Finished /\ TailCall(op.id, r)
           /\ skip' = (skip \/ SkipNext(short, Top.hup))
  BY Zenon DEF DoPlain
<1> DEFINE short == Short(r, op.len)
           f == [k |-> "repeat", o |-> op.operation, short |-> short, hup |-> Top.hup]
<1>1. /\ TypeOK /\ stack \in Seq(Frames) /\ stack # <<>> /\ Top.k = "do"
      /\ EndMet /\ down /\ ~closed /\ ~skip /\ Top \in Frames /\ ~KnowsNoEnd(Top)
      /\ op \in OperationInfo /\ op.operation \in Plain /\ Inv
  BY AfterEndFacts DEF DoPlain, TopIs, AfterEnd
<1>2. op.operation # "none" /\ op.id \in Ids /\ op.len \in Nat \ {0}
  BY <1>1 DEF Inv, IdInv, LenInv, Plain, OperationInfo
<1>3. r \in Int /\ r # EAGAIN /\ (IsWrite => ~(r > 0)) /\ short \in BOOLEAN
  <2>1. r \in Int
    BY <1>0, <1>1, <1>2, ResultFacts
  <2>2. r # EAGAIN /\ (IsWrite => ~(r > 0))
    BY <1>0, <1>1, <1>2, ResultEnded
  <2> QED BY <2>1, <2>2 DEF Short
<1>4. Top.hup \in BOOLEAN /\ (r > 0 => Top.hup)
  BY <1>1, <1>3, FrameFacts DEF KnowsNoEnd
<1>5. CASE op' = Finished /\ TailCall(op.id, r) /\ skip' = skip
  <2>1. ~Waiting'
    BY <1>1, <1>5, ClearedFacts
  <2>2. ~skip'
    BY <1>1, <1>5
  <2> QED BY <1>1, <1>2, <1>3, <1>5, <2>1, <2>2, MetTailCall
<1>6. CASE r > 0 /\ CallThen(f, op.id, r) /\ skip' = skip
  <2>1. f \in Frames /\ FindsEnd(f) /\ ~KnowsNoEnd(f)
    BY <1>1, <1>3, <1>4, <1>6, NewFrames DEF FindsEnd, KnowsNoEnd
  <2>2. ~skip'
    BY <1>1, <1>6
  <2>3. CallThen(f, op.id, r)
    BY <1>6
  <2> HIDE DEF f
  <2> QED BY <1>1, <1>2, <1>3, <2>1, <2>2, <2>3, MetCallThen
<1>7. CASE /\ r > 0 /\ op' = Finished /\ TailCall(op.id, r)
           /\ skip' = (skip \/ SkipNext(short, Top.hup))
  <2>1. ~Waiting'
    BY <1>1, <1>7, ClearedFacts
  <2>2. ~skip'
    BY <1>1, <1>4, <1>7 DEF SkipNext
  <2> QED BY <1>1, <1>2, <1>3, <1>7, <2>1, <2>2, MetTailCall
<1>8. \/ op' = Finished /\ TailCall(op.id, r) /\ skip' = skip
      \/ r > 0 /\ CallThen(f, op.id, r) /\ skip' = skip
      \/ /\ r > 0 /\ op' = Finished /\ TailCall(op.id, r)
         /\ skip' = (skip \/ SkipNext(short, Top.hup))
  BY <1>0, <1>3, Zenon
<1> QED BY <1>5, <1>6, <1>7, <1>8

LEMMA MetDoWait == AfterEnd /\ DoWait => EndMet'
<1> SUFFICES ASSUME AfterEnd, DoWait PROVE EndMet'
  OBVIOUS
<1>1. /\ stack \in Seq(Frames) /\ stack # <<>> /\ EndMet /\ ~skip /\ Inv
  BY AfterEndFacts DEF DoWait, TopIs, AfterEnd
<1>2. op.id \in Ids /\ 0 \in Int
  BY <1>1 DEF Inv, IdInv, DoWait
<1>3. op' = Finished /\ TailCall(op.id, 0) /\ ~skip'
  BY <1>1 DEF DoWait
<1>4. ~Waiting'
  BY <1>1, <1>3, ClearedFacts
<1> QED BY <1>1, <1>2, <1>3, <1>4, MetTailCall

LEMMA MetDoRepeat == AfterEnd /\ DoRepeat => EndMet'
<1> SUFFICES ASSUME AfterEnd, DoRepeat PROVE EndMet'
  OBVIOUS
<1>1. /\ stack \in Seq(Frames) /\ stack # <<>> /\ Top.k = "repeat" /\ Inv
      /\ EndMet /\ ~skip /\ Top \in Frames /\ ~KnowsNoEnd(Top)
  BY AfterEndFacts DEF DoRepeat, TopIs, AfterEnd
<1>2. Top.o \in Plain /\ Top.short \in BOOLEAN /\ Top.hup \in BOOLEAN
  BY <1>1, FrameFacts
<1>3. Top.hup \/ (IsWrite /\ ~Top.short)
  BY <1>1, <1>2, FileOpAssumption DEF KnowsNoEnd
<1>4. CASE op.operation = Top.o /\ op' = Finished /\ TailCall(op.id, HupResult) /\ skip' = skip
  <2>1. ~Waiting' /\ ~skip'
    BY <1>1, <1>4, ClearedFacts
  <2>2. op.id \in Ids /\ HupResult \in Int
    BY <1>1, <1>2, <1>4 DEF Inv, IdInv, Plain, HupResult
  <2> QED BY <1>1, <1>4, <2>1, <2>2, MetTailCall
<1>5. ASSUME ~Top.hup, ~Top.short, skip' = skip,
             stack' = Replaced([k |-> "do", hup |-> FALSE])
      PROVE  EndMet'
  <2> DEFINE f == [k |-> "do", hup |-> FALSE]
  <2>1. f \in Frames /\ FindsEnd(f) /\ ~KnowsNoEnd(f)
    BY <1>3, <1>5, NewFrames DEF FindsEnd, KnowsNoEnd
  <2>2. stack' = Replaced(f) /\ ~skip'
    BY <1>1, <1>5
  <2> HIDE DEF f
  <2> QED BY <1>1, <2>1, <2>2, MetSwap
<1>6. ASSUME skip' = (skip \/ SkipNext(Top.short, Top.hup)),
             stack' = Replaced([k |-> "rest", hup |-> Top.hup])
      PROVE  EndMet'
  <2> DEFINE f == [k |-> "rest", hup |-> Top.hup]
  <2>1. f \in Frames /\ FindsEnd(f) /\ ~KnowsNoEnd(f)
    BY <1>2, <1>3, NewFrames DEF FindsEnd, KnowsNoEnd
  <2>2. stack' = Replaced(f) /\ ~skip'
    BY <1>1, <1>3, <1>6 DEF SkipNext
  <2> HIDE DEF f
  <2> QED BY <1>1, <2>1, <2>2, MetSwap
<1> QED BY <1>2, <1>3, <1>4, <1>5, <1>6 DEF DoRepeat

LEMMA MetDoAll == AfterEnd /\ DoAll => EndMet'
<1> SUFFICES ASSUME AfterEnd, DoAll PROVE EndMet'
  OBVIOUS
<1> DEFINE n == op.len - op.lenDone
           r == Sys(n)
           done == op.lenDone + r
           x == IF op.lenDone = 0 THEN r ELSE op.lenDone
<1>1. /\ TypeOK /\ stack \in Seq(Frames) /\ stack # <<>> /\ Top.k \in {"do", "rest"}
      /\ EndMet /\ down /\ ~closed /\ ~skip /\ Top \in Frames /\ ~KnowsNoEnd(Top)
      /\ op \in OperationInfo /\ op.operation \in All /\ Inv
  BY AfterEndFacts DEF DoAll, AtRest, TopIs, AfterEnd
<1>2. op.id \in Ids /\ op.lenDone \in Nat /\ n \in Nat \ {0}
  BY <1>1 DEF Inv, IdInv, LenInv, All, BufAll, OperationInfo
<1>3. r \in Int /\ r # EAGAIN /\ (IsWrite => ~(r > 0))
  BY <1>1, <1>2, SysFacts, SysEnded
<1>4. r > 0 => Top.hup /\ done \in Nat
  BY <1>1, <1>2, <1>3, FrameFacts DEF KnowsNoEnd
<1>5. ~skip'
  BY <1>1 DEF DoAll
<1>6. \/ op' = Finished /\ TailCall(op.id, x)
      \/ r > 0 /\ op' = [Finished EXCEPT !.lenDone = done] /\ TailCall(op.id, done)
  BY <1>3, <1>4, Zenon DEF DoAll
<1>7. CASE op' = Finished /\ TailCall(op.id, x)
  <2>1. ~Waiting' /\ x \in Int
    BY <1>1, <1>2, <1>3, <1>7, ClearedFacts
  <2> QED BY <1>1, <1>2, <1>5, <1>7, <2>1, MetTailCall
<1>8. CASE r > 0 /\ op' = [Finished EXCEPT !.lenDone = done] /\ TailCall(op.id, done)
  <2>1. done \in Nat /\ done \in Int
    BY <1>4, <1>8
  <2>2. ~Waiting'
    BY <1>1, <1>8, <2>1, FinishedFacts DEF Waiting
  <2> QED BY <1>1, <1>2, <1>5, <1>8, <2>1, <2>2, MetTailCall
<1> QED BY <1>6, <1>7, <1>8

LEMMA MetDoOther == AfterEnd /\ DoOther => EndMet' \/ ~registered'
<1> SUFFICES ASSUME AfterEnd, DoOther, registered' PROVE EndMet'
  OBVIOUS
<1>1. /\ stack \in Seq(Frames) /\ stack # <<>> /\ EndMet /\ ~skip
  BY AfterEndFacts DEF DoOther, AtRest, TopIs, AfterEnd
<1>2. ~skip'
  BY <1>1 DEF DoOther
<1>3. CASE op.operation = "none" /\ Return /\ op' = op
  <2>1. ~Waiting' /\ stack' = Popped
    BY <1>3 DEF Waiting, Return
  <2> QED BY <1>1, <1>2, <2>1, MetPop
<1>4. CASE stack' = Append(stack, [k |-> "abort"]) /\ op' = op
  <2> DEFINE f == [k |-> "abort"]
  <2>1. f \in Frames /\ ~KnowsNoEnd(f) /\ stack' = Append(stack, f)
    BY <1>4, NewFrames DEF KnowsNoEnd
  <2>2. Waiting' => Waiting
    BY <1>4 DEF Waiting
  <2> HIDE DEF f
  <2> QED BY <1>1, <1>2, <2>1, <2>2, MetPush
<1>5. ~CloseFd
  BY DEF CloseFd
<1> QED BY <1>3, <1>4, <1>5 DEF DoOther

LEMMA MetHup == AfterEnd /\ (HupPlain \/ HupAll \/ HupEnd \/ HupNone) => EndMet'
<1> SUFFICES ASSUME AfterEnd, HupPlain \/ HupAll \/ HupEnd \/ HupNone PROVE EndMet'
  OBVIOUS
<1>1. /\ stack \in Seq(Frames) /\ stack # <<>> /\ EndMet /\ ~skip /\ Inv
      /\ op \in OperationInfo /\ Top.k \in {"hup", "hupAll", "hupEnd"}
  BY AfterEndFacts DEF HupPlain, HupAll, HupEnd, HupNone, TopIs, AfterEnd
<1>2. ~skip' /\ ~FindsEnd(Top) /\ HupResult \in Int
  BY <1>1 DEF HupPlain, HupAll, HupEnd, HupNone, FindsEnd, HupResult
<1>3. \A k \in {"hupAll", "hupEnd"} : [k |-> k] \in Frames /\ ~KnowsNoEnd([k |-> k])
  BY NewFrames DEF KnowsNoEnd
<1>4. CASE HupPlain \/ HupAll
  <2>1. op' = Finished /\ op.operation # "none"
    BY <1>4 DEF HupPlain, HupAll, Plain, BufAll
  <2>2. ~Waiting' /\ op.id \in Ids /\ op.lenDone \in Int
    BY <1>1, <2>1, ClearedFacts DEF Inv, IdInv, OperationInfo
  <2>3. PICK r \in Int : \/ TailCall(op.id, r)
                         \/ CallThen([k |-> "hupAll"], op.id, r)
                         \/ CallThen([k |-> "hupEnd"], op.id, r)
    BY <1>2, <1>4, <2>2 DEF HupPlain, HupAll
  <2>4. CASE TailCall(op.id, r)
    BY <1>1, <1>2, <2>2, <2>4, MetTailCall
  <2>5. ASSUME NEW f \in Frames, ~KnowsNoEnd(f), CallThen(f, op.id, r) PROVE EndMet'
    BY <1>1, <1>2, <2>2, <2>5, MetCallThen
  <2> QED BY <1>3, <2>3, <2>4, <2>5
<1>5. CASE HupEnd
  <2>1. TailCall(op.id, HupResult) /\ op' = op /\ Top.k = "hupEnd"
    BY <1>5 DEF HupEnd, TopIs
  <2>2. HupEnding
    <3>1. Len(stack) \in DOMAIN stack
      BY <1>1, PoppedFacts
    <3> QED BY <2>1, <3>1 DEF HupEnding, Top
  <2>3. op.id \in Ids
    BY <1>1, <2>2 DEF Inv, IdInv
  <2>4. Waiting' => Waiting
    BY <2>1 DEF Waiting
  <2> QED BY <1>1, <1>2, <2>1, <2>3, <2>4, MetTailCall
<1>6. CASE HupNone
  <2>1. stack' = Popped /\ op' = op
    BY <1>6 DEF HupNone, Return
  <2>2. Waiting' => Waiting
    BY <2>1 DEF Waiting
  <2> QED BY <1>1, <1>2, <2>1, <2>2, MetPop
<1> QED BY <1>4, <1>5, <1>6

LEMMA MetReturn == AfterEnd /\ CallbackReturn => EndMet'
<1> SUFFICES ASSUME AfterEnd, CallbackReturn PROVE EndMet'
  OBVIOUS
<1>1. /\ stack \in Seq(Frames) /\ stack # <<>> /\ EndMet /\ ~skip /\ Top.k = "user"
  BY AfterEndFacts DEF CallbackReturn, TopIs, AfterEnd
<1>2. stack' = Popped /\ op' = op /\ ~skip' /\ ~FindsEnd(Top)
  BY <1>1 DEF CallbackReturn, FindsEnd
<1>3. Waiting' => Waiting
  BY <1>2 DEF Waiting
<1> QED BY <1>1, <1>2, <1>3, MetPop

\* The user.  An operation that is started looks at the stream first, since
\* skipSynchronousAttempt is not set, and close() finds the end.
LEMMA MetStart == EndHeard /\ AfterEnd /\ (Start \/ Cancel) => EndMet' \/ ~registered'
<1> SUFFICES ASSUME EndHeard, AfterEnd, Start \/ Cancel, registered' PROVE EndMet'
  OBVIOUS
<1>1. /\ stack \in Seq(Frames) /\ EndMet /\ ~skip /\ op \in OperationInfo /\ Inv
      /\ down /\ TypeOK
  BY AfterEndFacts DEF AfterEnd
<1>2. ~skip'
  BY <1>1 DEF Start, StartWait, StartPlain, StartV, StartSendFile, StartRwAll, StartSrAll,
              StartVAll, StartClose, Cancel
<1>3. NewId \in Ids \/ ~(Len(hist) < MaxOps)
  <2>1. Len(hist) \in Nat /\ MaxOps \in Nat
    BY <1>1, HistLen, FileOpAssumption
  <2> QED BY <2>1 DEF NewId, Ids
<1>4. ASSUME NEW f \in Frames, Tries(f), stack' = Append(stack, f), op' = op PROVE EndMet'
  <2>1. ~KnowsNoEnd(f)
    BY <1>4 DEF Tries, KnowsNoEnd
  <2>2. Waiting' => Waiting
    BY <1>4 DEF Waiting
  <2> QED BY <1>1, <1>2, <1>4, <2>1, <2>2, MetPush
<1>5. CASE StartWait
  <2>1. op' = addRWOp("wait", 0, 0, FALSE, NewId) /\ stack' = stack
    BY <1>5 DEF StartWait
  <2>2. ~Waiting'
    BY <2>1 DEF Waiting, addRWOp
  <2> QED BY <1>1, <1>2, <2>1, <2>2, MetSame
<1>6. ASSUME NEW o \in Plain, NEW len \in Lens, NEW rep \in BOOLEAN,
             Len(hist) < MaxOps, op' = op,
             stack' = Append(stack, [k |-> "try", o |-> o, len |-> len,
                                     repeat |-> rep, id |-> NewId])
      PROVE  EndMet'
  <2> DEFINE f == [k |-> "try", o |-> o, len |-> len, repeat |-> rep, id |-> NewId]
  <2>1. f \in Frames /\ Tries(f) /\ stack' = Append(stack, f)
    BY <1>3, <1>6, NewFrames DEF Tries
  <2> HIDE DEF f
  <2> QED BY <1>4, <1>6, <2>1
<1>7. ASSUME NEW len \in Lens, NEW rep \in Repeats,
             \/ \E o \in {"rw", "sr"} : StartPlain(o, len, rep)
             \/ StartV(len, rep)
             \/ StartSendFile(len, rep)
      PROVE  EndMet'
  <2>1. rep \in BOOLEAN
    BY DEF Repeats
  <2>2. PICK o \in Plain :
          /\ Len(hist) < MaxOps /\ op' = op
          /\ stack' = Append(stack, [k |-> "try", o |-> o, len |-> len,
                                     repeat |-> rep, id |-> NewId])
    <3>1. CASE \E o \in {"rw", "sr"} : StartPlain(o, len, rep)
      BY <1>1, <3>1 DEF StartPlain, MayStart, Plain
    <3>2. CASE StartV(len, rep)
      BY <1>1, <3>2 DEF StartV, StartPlain, MayStart, Plain
    <3>3. CASE StartSendFile(len, rep)
      BY <1>1, <3>3 DEF StartSendFile, MayStart, Plain
    <3> QED BY <1>7, <3>1, <3>2, <3>3
  <2> QED BY <1>6, <2>1, <2>2
<1>8. ASSUME NEW len \in Lens, StartRwAll(len) \/ StartSrAll(len) PROVE EndMet'
  <2>1. PICK o \in BufAll :
          /\ Len(hist) < MaxOps /\ op' = op
          /\ stack' = Append(stack, [k |-> "tryAll", o |-> o, len |-> len,
                                     br |-> 0, id |-> NewId])
    BY <1>1, <1>8 DEF StartRwAll, StartSrAll, MayStart, BufAll
  <2> DEFINE f == [k |-> "tryAll", o |-> o, len |-> len, br |-> 0, id |-> NewId]
  <2>2. f \in Frames /\ Tries(f) /\ stack' = Append(stack, f)
    BY <1>3, <2>1, NewFrames DEF Tries
  <2> HIDE DEF f
  <2> QED BY <1>4, <2>1, <2>2
<1>9. ASSUME NEW len \in Lens, StartVAll(len) PROVE EndMet'
  <2> DEFINE f == [k |-> "do", hup |-> FALSE]
  <2>1. "rwvAll" \in Ops /\ stack' = Append(stack, f)
    BY <1>1, <1>9 DEF StartVAll, MayStart
  <2>2. f \in Frames /\ FindsEnd(f) /\ ~KnowsNoEnd(f)
    BY <2>1, NewFrames DEF FindsEnd, KnowsNoEnd, EndHeard
  <2> HIDE DEF f
  <2> QED BY <1>1, <1>2, <2>1, <2>2, MetPush
<1>10. ~StartClose
  <2>1. Mask # {} /\ ~CloseFd
    BY <1>1 DEF Mask, EndHeard, CloseFd
  <2> QED BY <2>1 DEF StartClose
<1>11. CASE Cancel
  <2>1. op' = Finished /\ stack' = stack
    BY <1>11 DEF Cancel
  <2>2. ~Waiting'
    BY <1>1, <2>1, ClearedFacts
  <2> QED BY <1>1, <1>2, <2>1, <2>2, MetSame
<1> QED BY <1>5, <1>7, <1>8, <1>9, <1>10, <1>11 DEF Start

-----------------------------------------------------------------------------
\* A step of the user's operations or of the library leaves the kernel's and
\* epoll's state alone, or closes the descriptor.
Works ==
  \/ Start \/ Cancel \/ TryStep \/ TryAllStep
  \/ DoPlain \/ DoWait \/ DoRepeat \/ DoAll \/ DoOther
  \/ HupPlain \/ HupAll \/ HupEnd \/ HupNone \/ CallbackReturn

LEMMA WorksCloses ==
  ASSUME Works
  PROVE  /\ down' = down /\ notif' = notif
         /\ \/ closed' = closed /\ registered' = registered /\ edge' = edge
            \/ CloseFd
<1>1. CASE Start \/ Cancel
  BY <1>1 DEF Start, StartWait, StartPlain, StartV, StartSendFile, StartRwAll, StartSrAll,
              StartVAll, StartClose, Cancel, streamVars, epollVars, CloseFd
<1>2. CASE TryStep \/ TryAllStep \/ CallbackReturn
  BY <1>2 DEF TryStep, TryAllStep, CallbackReturn, Transfer, streamVars, epollVars
<1>3. CASE DoPlain \/ DoWait \/ DoRepeat \/ DoAll
  BY <1>3 DEF DoPlain, DoWait, DoRepeat, DoAll, Transfer, streamVars, epollVars
<1>4. CASE DoOther
  BY <1>4 DEF DoOther, CloseFd, streamVars, epollVars
<1>5. CASE HupPlain \/ HupAll \/ HupEnd \/ HupNone
  BY <1>5 DEF HupPlain, HupAll, HupEnd, HupNone, streamVars, epollVars
<1> QED BY <1>1, <1>2, <1>3, <1>4, <1>5 DEF Works

LEMMA EndStep == EndHeard /\ Inv /\ EndInv /\ [Next]_vars => EndInv'
<1> SUFFICES ASSUME EndHeard, Inv, EndInv, [Next]_vars PROVE EndInv'
  OBVIOUS
<1>1. CASE Works
  <2>1. /\ down' = down /\ notif' = notif
        /\ \/ closed' = closed /\ registered' = registered /\ edge' = edge
           \/ CloseFd
    BY <1>1, WorksCloses
  <2>2. CASE CloseFd
    BY <2>1, <2>2 DEF EndInv, EndPassed, CloseFd
  <2>3. CASE closed' = closed /\ registered' = registered /\ edge' = edge
    <3>1. ASSUME EndPassed' PROVE EndMet'
      <4>1. EndPassed /\ registered' /\ down
        BY <2>1, <2>3, <3>1 DEF EndPassed
      <4>2. AfterEnd
        BY <4>1 DEF AfterEnd, EndInv, EndPassed
      <4> QED BY <1>1, <4>1, <4>2, MetStart, MetTry, MetTryAll, MetDoPlain, MetDoWait,
                 MetDoRepeat, MetDoAll, MetDoOther, MetHup, MetReturn DEF Works
    <3> QED BY <2>1, <2>3, <3>1 DEF EndInv
  <2> QED BY <2>1, <2>2, <2>3
<1>2. CASE Kernel
  <2>1. registered' = registered /\ closed' = closed /\ notif' = notif
    BY <1>2 DEF Kernel, End, OtherEdge, Arrive
  <2>2. ~down' \/ edge' \/ ~registered'
    BY <1>2 DEF Kernel, End, OtherEdge, Arrive, Inv, TypeOK
  <2> QED BY <2>1, <2>2 DEF EndInv, EndPassed
<1>3. CASE Add
  <2>1. notif' = notif /\ down' = down /\ ~closed' /\ edge' = (Mask # {})
    BY <1>3 DEF Add, streamVars
  <2>2. down => Mask # {}
    BY DEF Mask, EndHeard
  <2> QED BY <2>1, <2>2 DEF EndInv, EndPassed
<1>4. CASE Remove
  BY <1>4 DEF Remove, EndInv, EndPassed
<1>5. CASE Harvest
  <2>1. /\ notif' = Mask /\ down' = down /\ closed' = closed /\ registered' = registered
    BY <1>5 DEF Harvest, streamVars
  <2>2. /\ down => "RDY" \in Mask
        /\ Mask # {} => "RDY" \in Mask
        /\ down /\ HupOnEnd => "HUP" \in Mask
    BY DEF Mask, EndHeard
  <2> QED BY <2>1, <2>2 DEF EndInv, EndPassed
<1>6. CASE Dispatch
  <2>1. /\ stack = <<>> /\ notif # {} /\ notif' = {} /\ "RDY" \in notif
        /\ down' = down /\ closed' = closed /\ registered' = registered /\ edge' = edge
    BY <1>6 DEF Dispatch, streamVars, EndInv
  <2> DEFINE f == [k |-> "do", hup |-> "HUP" \in notif]
  <2>2. ~skip' /\ stack' = <<f>>
    BY <1>6, <2>1 DEF Dispatch
  <2>3. ASSUME EndPassed' PROVE EndMet'
    <3>1. IsWrite \/ "HUP" \in notif
      BY <2>1, <2>3 DEF EndPassed, EndInv, EndHeard
    <3>2. FindsEnd(f) /\ ~KnowsNoEnd(f)
      BY <3>1 DEF FindsEnd, KnowsNoEnd
    <3> HIDE DEF f
    <3>3. DOMAIN stack' = {1} /\ stack'[1] = f
      BY <2>2
    <3>4. \A n \in DOMAIN stack' : ~KnowsNoEnd(stack[n])' /\ FindsEnd(stack[n])'
      BY <3>2, <3>3 DEF KnowsNoEnd, FindsEnd
    <3>5. \E n \in DOMAIN stack' : FindsEnd(stack[n])'
      BY <3>3, <3>4
    <3> QED BY <2>2, <3>4, <3>5 DEF EndMet
  <2> QED BY <2>1, <2>3 DEF EndInv
<1>7. CASE UNCHANGED vars
  <2>1. EndPassed' = EndPassed /\ EndMet' = EndMet
    BY <1>7 DEF EndPassed, EndMet, Waiting, KnowsNoEnd, FindsEnd, vars
  <2> QED BY <1>7, <2>1 DEF EndInv, vars
<1> QED BY <1>1, <1>2, <1>3, <1>4, <1>5, <1>6, <1>7 DEF Next, User, Library, Works

\* The end of a socket is heard: of an operation that writes to a stream whose
\* end comes as EPOLLOUT (a socket; a pipe that is full reports EPOLLERR alone),
\* and of one that reads from a stream whose end comes as EPOLLIN with EPOLLHUP
\* or EPOLLERR (a UNIX stream socket, a reset connection; a TCP FIN is EPOLLIN
\* alone) by a user who starts no readvAll(), none sleeps in epoll_wait once
\* the stream has ended, whatever else the user does.  On the streams left out
\* doOperation and handleHup do miss ends.
THEOREM EndNotMissed == ASSUME EndHeard PROVE Spec => []NoLostEnd
<1> DEFINE I == Inv /\ EndInv
<1>1. Init => I
  <2>1. Init => EndInv
    BY DEF Init, EndInv, EndPassed
  <2> QED BY <2>1, InvInit
<1>2. I /\ [Next]_vars => I'
  BY InvNext, EndStep
<1>3. I => NoLostEnd
  <2> SUFFICES ASSUME Inv, EndInv, Idle, registered, Waiting, down PROVE FALSE
    BY DEF NoLostEnd
  <2>1. EndMet /\ stack = <<>>
    BY DEF EndInv, EndPassed, Idle
  <2> QED BY <2>1 DEF EndMet
<1> QED BY <1>1, <1>2, <1>3, PTL DEF Spec
=============================================================================
