---------------------------- MODULE SocketProofs ----------------------------
(***************************************************************************)
(* What happens to the operations of a Socket: proofs about connect,       *)
(* accept and read in the composition with a Timer.                        *)
(***************************************************************************)
EXTENDS ReactorProofs

-----------------------------------------------------------------------------
(***************************************************************************)
(* An operation that was started and neither ended nor given up is pending *)
(* and is held in one place only: in a slot or by a call in progress.      *)
(* This holds for the untidy users too, but not for one who cancels or     *)
(* replaces a repeated accept in its callback.                             *)
(***************************************************************************)
Orderly == Habits \cap {"reenter", "breakoff"} = {}

Pending(id) == id \in 1..Len(hist) /\ hist[id].finals = 0 /\ hist[id].over = FALSE

Busy(slot) == op[slot].operation # "none"
Holds(n) == stack[n].k \in Holding

\* The operation a holding frame is about.
HeldForm(n) == IF stack[n].k = "try" THEN "accept" ELSE stack[n].form

SlotsHold ==
  /\ op[0].operation \in {"none", "accept", "read"}
  /\ op[1].operation \in {"none", "connect"}
  /\ \A slot \in 0..1 : Busy(slot) =>
       Pending(op[slot].id) /\ hist[op[slot].id].o = op[slot].operation

CallsHold ==
  \A n \in DOMAIN stack : Holds(n) =>
    Pending(stack[n].id) /\ hist[stack[n].id].o = HeldForm(n)

Apart ==
  /\ Busy(0) /\ Busy(1) => op[0].id # op[1].id
  /\ \A slot \in 0..1, n \in DOMAIN stack :
       Busy(slot) /\ Holds(n) => op[slot].id # stack[n].id
  /\ \A m, n \in DOMAIN stack :
       Holds(m) /\ Holds(n) /\ m # n => stack[m].id # stack[n].id

HolderInv == SlotsHold /\ CallsHold /\ Apart /\ OneAnswer

\* No accept() runs below the calls of dispatch(), nor beside its loop over
\* connections, and that loop serves a repeated accept.
LoopInv ==
  /\ \A m, n \in DOMAIN stack : stack[m].k = "try" /\ stack[n].k \in Serving => n < m
  /\ \A m, n \in DOMAIN stack : stack[m].k = "try" => stack[n].k # "accept"
  /\ \A n \in DOMAIN stack :
       stack[n].k = "accept" /\ op[0].operation = "accept" => op[0].repeat

LEMMA LoopInit == Init => LoopInv
BY DEF Init, LoopInv

\* The calls of dispatch() in the next state, in terms of this one.
LEMMA ServingNext ==
  ASSUME BaseInv, stack' \in Seq(Frames), SocketNest \/ OtherNest
  PROVE  /\ \A n \in DOMAIN stack' : stack'[n].k \in Serving =>
              \/ n \in DOMAIN stack /\ stack[n].k \in Serving
              \/ stack = <<>>
              \/ stack # <<>> /\ Top.k \in Serving /\ n = Len(stack) + 1
         /\ \A n \in DOMAIN stack' : stack'[n].k = "accept" =>
              \/ n \in DOMAIN stack /\ stack[n].k = "accept"
              \/ /\ stack # <<>> /\ Top.k \in Serving /\ n = Len(stack)
                 /\ UNCHANGED op /\ op[0].repeat
<1> DEFINE L == Len(stack)
           Old(n) == n \in DOMAIN stack /\ stack'[n] = stack[n]
           Fits(n) ==
             /\ stack'[n].k \in Serving =>
                  \/ n \in DOMAIN stack /\ stack[n].k \in Serving
                  \/ stack = <<>>
                  \/ stack # <<>> /\ Top.k \in Serving /\ n = L + 1
             /\ stack'[n].k = "accept" =>
                  \/ n \in DOMAIN stack /\ stack[n].k = "accept"
                  \/ /\ stack # <<>> /\ Top.k \in Serving /\ n = L
                     /\ UNCHANGED op /\ op[0].repeat
<1> SUFFICES ASSUME NEW n \in DOMAIN stack' PROVE Fits(n)
  OBVIOUS
<1>0. L \in Nat /\ DOMAIN stack = 1..L /\ (stack = <<>> <=> L = 0) /\ Top = stack[L]
  BY BaseFacts, StackFacts DEF Top
<1>1. Len(stack') \in Nat /\ n \in 1..Len(stack')
  BY SeqFacts
<1>2. Old(n) => Fits(n)
  OBVIOUS
<1>3. stack'[n].k \notin Serving => Fits(n)
  BY DEF Serving
<1>4. CASE stack' = stack
  BY <1>2, <1>4
<1> HIDE DEF L
<1>5. CASE Returned
  <2>1. /\ L >= 1 /\ Len(stack') = L - 1 /\ \A m \in 1..(L - 1) : stack'[m] = stack[m]
    BY <1>5 DEF Returned, Kept, L
  <2>2. Old(n)
    BY <1>0, <1>1, <2>1
  <2> QED BY <1>2, <2>2
<1>6. ASSUME NEW f \in Frames, GoesOn(f), f.k # "accept", f.k \in Serving => Top.k \in Serving
      PROVE  Fits(n)
  <2>1. /\ L >= 1 /\ Len(stack') = L /\ stack'[L] = f /\ \A m \in 1..(L - 1) : stack'[m] = stack[m]
    BY <1>6 DEF GoesOn, Kept, L
  <2>2. Old(n) \/ (n = L /\ n \in DOMAIN stack)
    BY <1>0, <1>1, <2>1
  <2> QED BY <1>0, <1>2, <1>6, <2>1, <2>2
<1>7. ASSUME NEW g \in Frames, Calls(g), g.k # "accept", g.k \in Serving => stack = <<>>
      PROVE  Fits(n)
  <2>1. /\ Len(stack') = L + 1 /\ stack'[L + 1] = g /\ \A m \in 1..L : stack'[m] = stack[m]
    BY <1>7 DEF Calls, Kept, L
  <2>2. Old(n) \/ n = L + 1
    BY <1>0, <1>1, <2>1
  <2> QED BY <1>2, <1>7, <2>1, <2>2
<1>8. ASSUME NEW f \in Frames, NEW g \in Frames, GoesOnCalls(f, g), g.k \in {"user", "do", "hup"},
             (f = Top /\ g.k = "user") \/ (Top.k \in Serving /\ f.k \in Serving),
             f.k = "accept" => UNCHANGED op /\ (Top.k = "accept" \/ op[0].repeat)
      PROVE  Fits(n)
  <2>1. /\ L >= 1 /\ Len(stack') = L + 1 /\ stack'[L] = f /\ stack'[L + 1] = g
        /\ \A m \in 1..(L - 1) : stack'[m] = stack[m]
    BY <1>8 DEF GoesOnCalls, Kept, L
  <2>2. Old(n) \/ (n = L /\ n \in DOMAIN stack) \/ n = L + 1
    BY <1>0, <1>1, <2>1
  <2>3. CASE n = L /\ n \in DOMAIN stack
    BY <1>0, <1>8, <2>1, <2>3
  <2>4. CASE n = L + 1
    <3>1. stack'[n] = g /\ g.k # "accept" /\ stack # <<>>
      BY <1>0, <1>8, <2>1, <2>4
    <3> QED BY <1>3, <1>8, <2>4, <3>1 DEF Serving
  <2> QED BY <1>2, <2>2, <2>3, <2>4
<1>9. CASE SocketNest
  BY <1>4, <1>5, <1>6, <1>7, <1>8, <1>9 DEF SocketNest
<1>10. CASE OtherNest
  BY <1>4, <1>5, <1>6, <1>7, <1>10 DEF OtherNest, Serving
<1> QED BY <1>9, <1>10

LEMMA LoopNext ==
  ASSUME BaseInv, LoopInv, Orderly, stack' \in Seq(Frames), SocketNest \/ OtherNest, Move
  PROVE  LoopInv'
<1>0. stack \in Seq(Frames) /\ op \in [0..1 -> Slots]
  BY BaseFacts DEF Slots
<1>1. /\ Len(stack) \in Nat /\ DOMAIN stack = 1..Len(stack)
      /\ (stack = <<>> <=> Len(stack) = 0) /\ Top = stack[Len(stack)]
  BY <1>0, StackFacts DEF Top
<1>2. CASE /\ \A n \in DOMAIN stack' : stack'[n].k = "try" =>
                n \in DOMAIN stack /\ stack[n].k = "try"
           /\ \/ op'[0].operation = "accept" => op'[0] = op[0]
              \/ stack # <<>> /\ Top.k = "try"
  <2>1. ASSUME NEW m \in DOMAIN stack', stack'[m].k = "try"
        PROVE  /\ m \in 1..Len(stack) /\ stack[m].k = "try" /\ stack # <<>>
               /\ Top.k \notin Serving
    <3>1. m \in 1..Len(stack) /\ stack[m].k = "try" /\ stack # <<>>
      BY <1>1, <1>2, <2>1
    <3>2. Top.k \in Serving => Len(stack) < m
      BY <1>1, <3>1 DEF LoopInv
    <3> QED BY <1>1, <3>1, <3>2
  <2>2. \A m, n \in DOMAIN stack' : stack'[m].k = "try" /\ stack'[n].k \in Serving => n < m
    BY <2>1, ServingNext DEF LoopInv
  <2>3. \A m, n \in DOMAIN stack' : stack'[m].k = "try" => stack'[n].k # "accept"
    BY <1>1, <2>1, ServingNext DEF LoopInv
  <2>4. \A n \in DOMAIN stack' :
          stack'[n].k = "accept" /\ op'[0].operation = "accept" => op'[0].repeat
    <3> SUFFICES ASSUME NEW n \in DOMAIN stack', stack'[n].k = "accept", op'[0].operation = "accept"
                 PROVE  op'[0].repeat
      OBVIOUS
    <3>1. CASE n \in DOMAIN stack /\ stack[n].k = "accept"
      <4>1. ~(stack # <<>> /\ Top.k = "try")
        BY <1>1, <3>1 DEF LoopInv
      <4> QED BY <1>2, <3>1, <4>1 DEF LoopInv
    <3>2. CASE UNCHANGED op /\ op[0].repeat
      BY <3>2
    <3> QED BY <3>1, <3>2, ServingNext
  <2> QED BY <2>2, <2>3, <2>4 DEF LoopInv
<1>3. ASSUME NEW p, HoldersUpTo(p)
      PROVE  \A n \in DOMAIN stack' : stack'[n].k = "try" =>
               n \in DOMAIN stack /\ stack[n].k = "try"
  BY <1>3 DEF HoldersUpTo, SameAt, Holding
<1>4. CASE Works \/ LeavesSlot \/ LeavesCall \/ Parks \/ StartsInSlot \/ StartsAnswered
  <2>1. \E p : HoldersUpTo(p)
    BY <1>4 DEF Works, LeavesSlot, LeavesCall, Parks, StartsInSlot, StartsAnswered,
                SameHolders, LessTop
  <2>2. \/ op'[0].operation = "accept" => op'[0] = op[0]
        \/ stack # <<>> /\ Top.k = "try"
    <3>1. CASE Works \/ LeavesCall \/ StartsAnswered
      BY <3>1 DEF Works, LeavesCall, StartsAnswered
    <3>2. CASE LeavesSlot
      BY <1>0, <3>2 DEF LeavesSlot, Finished, NoOp
    <3>3. CASE Parks
      BY <1>0, <3>3 DEF Parks, LessTop, Stored
    <3>4. CASE StartsInSlot
      BY <1>0, <3>4 DEF StartsInSlot, Stored
    <3> QED BY <1>4, <3>1, <3>2, <3>3, <3>4
  <2> QED BY <1>2, <1>3, <2>1, <2>2
<1>5. CASE StartsInCall
  <2>1. PICK g \in Frames :
          /\ Calls(g)
          /\ \/ g.k = "try" /\ \A n \in DOMAIN stack : stack[n].k \notin {"try", "accept"}
             \/ g.k = "hosts"
    BY <1>5 DEF StartsInCall, Orderly
  <2>2. op' = op
    BY <1>5 DEF StartsInCall
  <2>3. /\ Len(stack') = Len(stack) + 1 /\ stack'[Len(stack) + 1] = g
        /\ \A n \in 1..Len(stack) : stack'[n] = stack[n]
    BY <2>1 DEF Calls, Kept
  <2>4. DOMAIN stack' = 1..(Len(stack) + 1)
    BY <2>3, SeqFacts
  <2>5. \A n \in DOMAIN stack' : \/ n \in DOMAIN stack /\ n < Len(stack) + 1 /\ stack'[n] = stack[n]
                                 \/ n = Len(stack) + 1 /\ stack'[n] = g
    BY <1>1, <2>3, <2>4
  <2>6. g.k \notin Serving /\ g.k # "accept"
    BY <2>1 DEF Serving
  <2>7. \A m, n \in DOMAIN stack' : stack'[m].k = "try" /\ stack'[n].k \in Serving => n < m
    BY <2>5, <2>6 DEF LoopInv
  <2>8. \A m, n \in DOMAIN stack' : stack'[m].k = "try" => stack'[n].k # "accept"
    BY <2>1, <2>5, <2>6 DEF LoopInv
  <2>9. \A n \in DOMAIN stack' :
          stack'[n].k = "accept" /\ op'[0].operation = "accept" => op'[0].repeat
    BY <2>2, <2>5, <2>6 DEF LoopInv
  <2> QED BY <2>7, <2>8, <2>9 DEF LoopInv
<1> QED BY <1>4, <1>5 DEF Move

LEMMA HolderInit == Init => HolderInv
<1> SUFFICES ASSUME Init PROVE HolderInv
  OBVIOUS
<1>1. stack = <<>> /\ hist = <<>> /\ \A slot \in 0..1 : op[slot].operation = "none"
  BY DEF Init, SocketInit, NoOp
<1> QED BY <1>1 DEF HolderInv, SlotsHold, CallsHold, Apart, OneAnswer, Busy

\* The holders of the next state, in terms of this one.
LEMMA HoldersNext ==
  ASSUME BaseInv, NEW p \in Nat, HoldersUpTo(p)
  PROVE  \A n \in DOMAIN stack' : stack'[n].k \in Holding =>
           /\ n \in DOMAIN stack /\ n <= p /\ Holds(n)
           /\ stack'[n].id = stack[n].id /\ HeldForm(n)' = HeldForm(n)
BY DEF HoldersUpTo, SameAt, Holds, HeldForm, Holding

\* If an operation that was held is no longer, and the entries of the others
\* are as before, the rest still holds.
LEMMA HolderLeaves ==
  ASSUME BaseInv, HolderInv, NEW id \in 1..Len(hist),
         Len(hist') = Len(hist), hist' \in Seq(Entries),
         \A n \in 1..Len(hist) : n # id => hist'[n] = hist[n],
         hist'[id].finals <= 1, hist'[id].o = hist[id].o,
         \A slot \in 0..1 : op'[slot] = op[slot] \/ op'[slot].operation = "none",
         \A slot \in 0..1 : Busy(slot)' => op[slot].id # id,
         NEW p \in Nat, HoldersUpTo(p),
         \A n \in DOMAIN stack : n <= p /\ Holds(n) => stack[n].id # id
  PROVE  HolderInv'
<1>0. Len(hist) \in Nat /\ DOMAIN hist = 1..Len(hist) /\ DOMAIN hist' = 1..Len(hist)
  BY BaseFacts, SeqFacts
<1>1. \A m \in 1..Len(hist) : m # id /\ Pending(m) => Pending(m)' /\ hist'[m].o = hist[m].o
  BY DEF Pending
<1>2. \A slot \in 0..1 : Busy(slot)' => Busy(slot) /\ op'[slot] = op[slot] /\ op[slot].id # id
  BY DEF Busy
<1>3. \A n \in DOMAIN stack' : Holds(n)' =>
           /\ n \in DOMAIN stack /\ Holds(n) /\ stack[n].id # id
           /\ stack'[n].id = stack[n].id /\ HeldForm(n)' = HeldForm(n)
  BY HoldersNext DEF Holds
<1>4. SlotsHold'
  <2>1. /\ op'[0].operation \in {"none", "accept", "read"}
        /\ op'[1].operation \in {"none", "connect"}
    BY DEF HolderInv, SlotsHold
  <2>2. \A slot \in 0..1 : Busy(slot)' =>
          Pending(op[slot].id)' /\ hist'[op'[slot].id].o = op'[slot].operation
    BY <1>1, <1>2 DEF HolderInv, SlotsHold, Pending
  <2> QED BY <2>1, <2>2 DEF SlotsHold
<1>5. CallsHold'
  <2>1. \A n \in DOMAIN stack' : Holds(n)' =>
          Pending(stack[n].id)' /\ hist'[stack'[n].id].o = HeldForm(n)'
    BY <1>1, <1>3 DEF HolderInv, CallsHold, Pending
  <2> QED BY <2>1 DEF CallsHold
<1>6. Apart'
  <2>1. Apart
    BY DEF HolderInv
  <2> QED BY <1>2, <1>3, <2>1 DEF Apart
<1>7. OneAnswer'
  BY <1>0 DEF HolderInv, OneAnswer
<1> QED BY <1>4, <1>5, <1>6, <1>7 DEF HolderInv

\* Nothing is ended: every pending operation stays so.
LEMMA HolderStays ==
  ASSUME BaseInv, BaseInv', HolderInv, SlotsHold', CallsHold', Apart',
         Len(hist') >= Len(hist),
         \A n \in 1..Len(hist) : hist'[n] = hist[n],
         \A n \in (Len(hist) + 1)..Len(hist') : hist'[n].finals <= 1
  PROVE  HolderInv'
<1>1. Len(hist) \in Nat /\ DOMAIN hist = 1..Len(hist)
  BY BaseFacts, SeqFacts
<1>2. hist' \in Seq(Entries)
  BY DEF BaseInv, TypeOK, SocketTypeOK, Entries
<1>3. Len(hist') \in Nat /\ DOMAIN hist' = 1..Len(hist')
  BY <1>2, SeqFacts
<1>4. OneAnswer'
  BY <1>1, <1>3 DEF HolderInv, OneAnswer
<1> QED BY <1>4 DEF HolderInv

\* The history after a pending operation was ended or given up.
LEMMA EndedOrGivenUp ==
  ASSUME BaseInv, NEW id \in 1..Len(hist), Pending(id), Ended(id) \/ GivenUp(id)
  PROVE  /\ Len(hist') = Len(hist) /\ hist' \in Seq(Entries)
         /\ \A n \in 1..Len(hist) : n # id => hist'[n] = hist[n]
         /\ hist'[id].finals <= 1 /\ hist'[id].o = hist[id].o
<1>1. hist[id].finals = 0
  BY DEF Pending
<1>2. hist \in Seq(Entries)
  BY BaseFacts
<1>3. CASE Ended(id)
  <2>1. /\ Len(hist') = Len(hist) /\ hist' \in Seq(Entries)
        /\ \A n \in 1..Len(hist) :
              /\ hist'[n].o = hist[n].o /\ hist'[n].over = hist[n].over
              /\ n # id => hist'[n] = hist[n]
              /\ n = id => hist'[n].finals = hist[n].finals + 1
    BY <1>2, <1>3, EndedFacts, Zenon
  <2> QED BY <1>1, <2>1
<1>4. CASE GivenUp(id)
  <2>1. /\ Len(hist') = Len(hist) /\ hist' \in Seq(Entries)
        /\ \A n \in 1..Len(hist) :
              /\ hist'[n].o = hist[n].o /\ hist'[n].finals = hist[n].finals
              /\ n # id => hist'[n] = hist[n]
              /\ n = id => hist'[n].over = TRUE
    BY <1>2, <1>4, GivenUpFacts, Zenon
  <2> QED BY <1>1, <2>1
<1> QED BY <1>3, <1>4

\* The history after operation new was started.
LEMMA StartedNew ==
  ASSUME BaseInv, NEW o \in {"accept", "read"} \cup Forms, NEW finals \in 0..1,
         Started(o, finals), NEW new, new = Len(hist) + 1
  PROVE  /\ \A n \in 1..Len(hist) : hist'[n] = hist[n]
         /\ \A n \in 1..Len(hist) : Pending(n) => Pending(n)' /\ n # new
         /\ finals = 0 => Pending(new)'
         /\ hist'[new].o = o
         /\ Len(hist') >= Len(hist)
         /\ \A n \in (Len(hist) + 1)..Len(hist') : hist'[n].finals <= 1
<1>0. hist \in Seq(Entries) /\ finals \in Nat
  BY BaseFacts
<1>1. Len(hist) \in Nat
  BY <1>0, SeqFacts
<1>2. /\ hist' \in Seq(Entries) /\ Len(hist') = Len(hist) + 1
      /\ \A n \in 1..Len(hist) : hist'[n] = hist[n]
      /\ hist'[Len(hist) + 1].o = o /\ hist'[Len(hist) + 1].finals = finals
      /\ hist'[Len(hist) + 1].over = FALSE
  BY <1>0, StartedFacts, Zenon
<1>3. /\ Len(hist') = new /\ new \in 1..Len(hist') /\ Len(hist') >= Len(hist)
      /\ \A n \in (Len(hist) + 1)..Len(hist') : n = new
      /\ \A n \in 1..Len(hist) : n \in 1..Len(hist') /\ n # new
  BY <1>1, <1>2
<1>4. hist'[new].o = o /\ hist'[new].finals = finals /\ hist'[new].over = FALSE
  BY <1>2
<1>5. \A n \in 1..Len(hist) : Pending(n) => Pending(n)'
  BY <1>2, <1>3 DEF Pending
<1>6. finals = 0 => Pending(new)'
  BY <1>3, <1>4 DEF Pending
<1>7. \A n \in (Len(hist) + 1)..Len(hist') : hist'[n].finals <= 1
  BY <1>3, <1>4
<1> QED BY <1>2, <1>3, <1>4, <1>5, <1>6, <1>7

LEMMA HolderMove ==
  ASSUME BaseInv, BaseInv', HolderInv, Move
  PROVE  HolderInv'
<1> USE SocketAssumption
<1>0. /\ hist \in Seq(Entries) /\ stack \in Seq(Frames)
      /\ op \in [0..1 -> Slots]
  BY BaseFacts DEF Slots
<1>1. /\ Len(hist) \in Nat /\ DOMAIN hist = 1..Len(hist)
      /\ Len(stack) \in Nat /\ DOMAIN stack = 1..Len(stack)
      /\ \A n \in 1..Len(hist) : hist[n].finals \in Nat
  <2>1. /\ Len(hist) \in Nat /\ DOMAIN hist = 1..Len(hist)
        /\ \A n \in 1..Len(hist) : hist[n] \in Entries
    BY <1>0, SeqFacts
  <2>2. Len(stack) \in Nat /\ DOMAIN stack = 1..Len(stack)
    BY <1>0, SeqFacts
  <2> QED BY <2>1, <2>2 DEF Entries
<1>2. SlotsHold /\ CallsHold /\ Apart /\ OneAnswer
  BY DEF HolderInv
<1>4. CASE Works
  <2>1. SameHolders /\ op' = op /\ hist' = hist
    BY <1>4 DEF Works
  <2>2. \A n \in DOMAIN stack' : stack'[n].k \in Holding =>
           /\ n \in DOMAIN stack /\ Holds(n)
           /\ stack'[n].id = stack[n].id /\ HeldForm(n)' = HeldForm(n)
    BY <1>1, <2>1, HoldersNext DEF SameHolders
  <2>3. SlotsHold'
    BY <1>2, <2>1 DEF SlotsHold, Busy, Pending
  <2>4. CallsHold'
    BY <1>2, <2>1, <2>2 DEF CallsHold, Pending, Holds
  <2>5. Apart'
    BY <1>2, <2>1, <2>2 DEF Apart, Busy, Holds
  <2> QED BY <1>1, <2>1, <2>3, <2>4, <2>5, HolderStays
<1>5. CASE LeavesSlot
  <2>1. PICK slot \in 0..1 : /\ Busy(slot) /\ Finished(slot)
                             /\ Ended(op[slot].id) \/ GivenUp(op[slot].id)
    BY <1>5 DEF LeavesSlot, Busy
  <2> DEFINE id == op[slot].id
  <2>2. id \in 1..Len(hist) /\ Pending(id)
    BY <1>2, <2>1 DEF SlotsHold, Pending
  <2>3. op' = [op EXCEPT ![slot] = NoOp]
    BY <2>1 DEF Finished
  <2>4. \A t \in 0..1 : op'[t] = op[t] \/ op'[t].operation = "none"
    BY <1>0, <2>3 DEF NoOp
  <2>5. \A t \in 0..1 : Busy(t)' => op[t].id # id
    BY <1>0, <1>2, <2>1, <2>3 DEF Busy, NoOp, Apart
  <2>6. HoldersUpTo(Len(stack))
    BY <1>5 DEF LeavesSlot, SameHolders
  <2>7. \A n \in DOMAIN stack : n <= Len(stack) /\ Holds(n) => stack[n].id # id
    BY <1>2, <2>1 DEF Apart
  <2>8. Ended(id) \/ GivenUp(id)
    BY <2>1
  <2> HIDE DEF id
  <2> QED BY <1>1, <2>2, <2>4, <2>5, <2>6, <2>7, <2>8, EndedOrGivenUp, HolderLeaves
<1>6. ASSUME LessTop
      PROVE  /\ Len(stack) - 1 \in Nat /\ Len(stack) \in DOMAIN stack
             /\ HoldersUpTo(Len(stack) - 1)
             /\ Pending(Top.id) /\ hist[Top.id].o = HeldForm(Len(stack))
             /\ HeldForm(Len(stack)) = IF Top.k = "try" THEN "accept" ELSE Top.form
             /\ \A slot \in 0..1 : Busy(slot) => op[slot].id # Top.id
             /\ \A n \in DOMAIN stack : n <= Len(stack) - 1 /\ Holds(n) => stack[n].id # Top.id
  <2>1. Len(stack) \in DOMAIN stack /\ Len(stack) - 1 \in Nat /\ Top = stack[Len(stack)]
        /\ Holds(Len(stack)) /\ HoldersUpTo(Len(stack) - 1)
    BY <1>0, <1>1, <1>6, StackFacts DEF LessTop, Top, Holds
  <2>2. Pending(Top.id) /\ hist[Top.id].o = HeldForm(Len(stack))
    BY <1>2, <2>1 DEF CallsHold
  <2>3. \A slot \in 0..1 : Busy(slot) => op[slot].id # Top.id
    BY <1>2, <2>1 DEF Apart
  <2>4. \A n \in DOMAIN stack : n <= Len(stack) - 1 => n # Len(stack)
    BY <1>1
  <2>5. \A n \in DOMAIN stack : n <= Len(stack) - 1 /\ Holds(n) => stack[n].id # Top.id
    BY <1>2, <2>1, <2>4 DEF Apart
  <2> QED BY <2>1, <2>2, <2>3, <2>5 DEF HeldForm
<1>7. CASE LeavesCall
  <2>1. LessTop /\ op' = op /\ (Ended(Top.id) \/ GivenUp(Top.id))
    BY <1>7 DEF LeavesCall
  <2>2. Top.id \in 1..Len(hist)
    BY <1>6, <2>1 DEF Pending
  <2>3. \A slot \in 0..1 : Busy(slot)' => op[slot].id # Top.id
    BY <1>6, <2>1 DEF Busy
  <2> DEFINE id == Top.id
             p == Len(stack) - 1
  <2>4. /\ id \in 1..Len(hist) /\ Pending(id) /\ (Ended(id) \/ GivenUp(id))
        /\ p \in Nat /\ HoldersUpTo(p)
        /\ \A slot \in 0..1 : Busy(slot)' => op[slot].id # id
        /\ \A n \in DOMAIN stack : n <= p /\ Holds(n) => stack[n].id # id
    BY <1>6, <2>1, <2>2, <2>3
  <2> HIDE DEF id, p
  <2> QED BY <2>1, <2>4, EndedOrGivenUp, HolderLeaves
<1>8. CASE Parks
  <2>1. LessTop /\ hist' = hist
    BY <1>8 DEF Parks
  <2>2. PICK slot \in 0..1, o \in {"accept", "connect"}, r \in BOOLEAN :
          /\ Stored(slot, o, r, Top.id)
          /\ o = HeldForm(Len(stack))
          /\ (slot = 0 /\ o = "accept") \/ (slot = 1 /\ o = "connect")
    <3>1. HeldForm(Len(stack)) = IF Top.k = "try" THEN "accept" ELSE Top.form
      BY <1>6, <2>1
    <3>2. CASE Top.k = "try" /\ Stored(0, "accept", Top.repeat, Top.id)
      <4>1. HeldForm(Len(stack)) = "accept" /\ 0 \in 0..1 /\ Top.repeat \in BOOLEAN
        BY <1>0, <2>1, <3>1, <3>2, TopFacts, FrameFacts DEF LessTop
      <4> QED BY <3>2, <4>1, Zenon
    <3>3. CASE Top.k = "hosts" /\ Top.form = "connect" /\ Stored(1, "connect", FALSE, Top.id)
      <4>1. HeldForm(Len(stack)) = "connect" /\ 1 \in 0..1 /\ FALSE \in BOOLEAN
        BY <3>1, <3>3
      <4> QED BY <3>3, <4>1, Zenon
    <3> QED BY <1>8, <3>2, <3>3 DEF Parks
  <2> DEFINE id == Top.id
             p == Len(stack) - 1
  <2>3. /\ p \in Nat /\ HoldersUpTo(p) /\ Pending(id) /\ hist[id].o = o
        /\ \A t \in 0..1 : Busy(t) => op[t].id # id
        /\ \A n \in DOMAIN stack : n <= p /\ Holds(n) => stack[n].id # id
        /\ op' = [op EXCEPT ![slot] = [operation |-> o, repeat |-> r, id |-> id]]
    BY <1>6, <2>1, <2>2 DEF Stored
  <2> HIDE DEF id, p
  <2>4. \A n \in DOMAIN stack' : Holds(n)' =>
           /\ n \in DOMAIN stack /\ n <= p /\ Holds(n)
           /\ stack'[n].id = stack[n].id /\ HeldForm(n)' = HeldForm(n)
    BY <2>3, HoldersNext DEF Holds
  <2>5. /\ op'[slot].operation = o /\ op'[slot].id = id
        /\ \A t \in 0..1 : t # slot => op'[t] = op[t]
    BY <1>0, <2>3
  <2>6. SlotsHold'
    BY <1>2, <2>1, <2>2, <2>3, <2>5 DEF SlotsHold, Busy, Pending
  <2>7. CallsHold'
    BY <1>2, <2>1, <2>4 DEF CallsHold, Pending
  <2>8. Apart'
    <3>1. Busy(0)' /\ Busy(1)' => op'[0].id # op'[1].id
      BY <1>2, <2>3, <2>5 DEF Apart, Busy
    <3>2. \A t \in 0..1, n \in DOMAIN stack' : Busy(t)' /\ Holds(n)' => op'[t].id # stack'[n].id
      BY <1>2, <2>3, <2>4, <2>5 DEF Apart, Busy
    <3>3. \A m, n \in DOMAIN stack' :
            Holds(m)' /\ Holds(n)' /\ m # n => stack'[m].id # stack'[n].id
      BY <1>2, <2>4 DEF Apart
    <3> QED BY <3>1, <3>2, <3>3 DEF Apart
  <2> QED BY <1>1, <2>1, <2>6, <2>7, <2>8, HolderStays
<1>9. PICK new \in Nat : new = Len(hist) + 1
  BY <1>1
<1>10. ASSUME SameHolders
       PROVE  \A n \in DOMAIN stack' : Holds(n)' =>
                /\ n \in DOMAIN stack /\ Holds(n)
                /\ stack'[n].id = stack[n].id /\ HeldForm(n)' = HeldForm(n)
  BY <1>1, <1>10, HoldersNext DEF SameHolders, Holds
<1>11. "connect" \in Forms
  BY DEF Forms
<1>12. CASE StartsInSlot
  <2>1. SameHolders
    BY <1>12 DEF StartsInSlot
  <2>2. PICK slot \in 0..1, o \in {"read", "connect"} :
          /\ Stored(slot, o, FALSE, new) /\ Started(o, 0)
          /\ (slot = 0 /\ o = "read") \/ (slot = 1 /\ o = "connect")
    <3>1. 0 \in 0..1 /\ 1 \in 0..1 /\ NewId = new
      BY <1>9 DEF NewId
    <3>2. CASE Stored(0, "read", FALSE, NewId) /\ Started("read", 0)
      BY <3>1, <3>2, Zenon
    <3>3. CASE Stored(1, "connect", FALSE, NewId) /\ Started("connect", 0)
      BY <3>1, <3>3, Zenon
    <3> QED BY <1>12, <3>2, <3>3 DEF StartsInSlot
  <2>3. /\ op'[slot].operation = o /\ op'[slot].id = new
        /\ \A t \in 0..1 : t # slot => op'[t] = op[t]
    BY <1>0, <2>2 DEF Stored
  <2>4. /\ \A n \in 1..Len(hist) : hist'[n] = hist[n]
        /\ \A n \in 1..Len(hist) : Pending(n) => Pending(n)' /\ n # new
        /\ Pending(new)' /\ hist'[new].o = o /\ Len(hist') >= Len(hist)
        /\ \A n \in (Len(hist) + 1)..Len(hist') : hist'[n].finals <= 1
    BY <1>9, <1>11, <2>2, StartedNew
  <2>5. \A m : Pending(m) => m \in 1..Len(hist)
    BY DEF Pending
  <2>6. SlotsHold'
    <3>1. /\ op'[0].operation \in {"none", "accept", "read"}
          /\ op'[1].operation \in {"none", "connect"}
      BY <1>2, <2>2, <2>3 DEF SlotsHold
    <3>2. Pending(op[slot].id)' /\ hist'[op'[slot].id].o = op'[slot].operation
      BY <2>3, <2>4 DEF Pending
    <3>3. ASSUME NEW t \in 0..1, t # slot, Busy(t)'
          PROVE  Pending(op[t].id)' /\ hist'[op'[t].id].o = op'[t].operation
      <4>1. op'[t] = op[t] /\ Busy(t)
        BY <2>3, <3>3 DEF Busy
      <4>2. Pending(op[t].id) /\ hist[op[t].id].o = op[t].operation
        BY <1>2, <4>1 DEF SlotsHold
      <4>3. PICK id \in 1..Len(hist) : id = op[t].id /\ id = op'[t].id
        BY <4>1, <4>2, <2>5
      <4>4. hist'[id] = hist[id] /\ Pending(id)'
        BY <2>4, <4>2, <4>3
      <4> QED BY <4>1, <4>2, <4>3, <4>4 DEF Pending
    <3> QED BY <3>1, <3>2, <3>3 DEF SlotsHold
  <2>7. CallsHold'
    <3>1. \A n \in DOMAIN stack' : Holds(n)' =>
            Pending(stack[n].id)' /\ hist'[stack'[n].id].o = HeldForm(n)'
      BY <1>2, <1>10, <2>1, <2>4 DEF CallsHold, Pending
    <3> QED BY <3>1 DEF CallsHold
  <2>8. Apart'
    <3>1. \A t \in 0..1 : t # slot /\ Busy(t)' => op'[t].id # new
      BY <1>2, <2>3, <2>4, <2>5 DEF SlotsHold, Busy
    <3>2. Busy(0)' /\ Busy(1)' => op'[0].id # op'[1].id
      BY <2>3, <3>1 DEF Busy
    <3>3. \A n \in DOMAIN stack' : Holds(n)' => stack'[n].id # new
      BY <1>2, <1>10, <2>1, <2>4, <2>5 DEF CallsHold
    <3>4. \A t \in 0..1, n \in DOMAIN stack' : Busy(t)' /\ Holds(n)' => op'[t].id # stack'[n].id
      BY <1>2, <1>10, <2>1, <2>3, <3>3 DEF Apart, Busy
    <3>5. \A m, n \in DOMAIN stack' :
            Holds(m)' /\ Holds(n)' /\ m # n => stack'[m].id # stack'[n].id
      BY <1>2, <1>10, <2>1 DEF Apart
    <3> QED BY <3>2, <3>4, <3>5 DEF Apart
  <2> QED BY <2>4, <2>6, <2>7, <2>8, HolderStays
<1>13. CASE StartsAnswered
  <2>1. SameHolders /\ op' = op /\ Started("connect", 1)
    BY <1>13 DEF StartsAnswered
  <2>2. /\ \A n \in 1..Len(hist) : hist'[n] = hist[n]
        /\ \A n \in 1..Len(hist) : Pending(n) => Pending(n)'
        /\ Len(hist') >= Len(hist)
        /\ \A n \in (Len(hist) + 1)..Len(hist') : hist'[n].finals <= 1
    BY <1>9, <1>11, <2>1, StartedNew
  <2>3. SlotsHold'
    BY <1>2, <2>1, <2>2 DEF SlotsHold, Busy, Pending
  <2>4. CallsHold'
    <3>1. \A n \in DOMAIN stack' : Holds(n)' =>
            Pending(stack[n].id)' /\ hist'[stack'[n].id].o = HeldForm(n)'
      BY <1>2, <1>10, <2>1, <2>2 DEF CallsHold, Pending
    <3> QED BY <3>1 DEF CallsHold
  <2>5. Apart'
    BY <1>2, <1>10, <2>1 DEF Apart, Busy
  <2> QED BY <2>2, <2>3, <2>4, <2>5, HolderStays
<1>14. CASE StartsInCall
  <2>1. PICK g \in Frames :
          /\ Calls(g) /\ g.id = new
          /\ \/ g.k = "try" /\ Started("accept", 0)
             \/ g.k = "hosts" /\ Started(g.form, 0)
    BY <1>9, <1>14 DEF StartsInCall, NewId
  <2>2. op' = op
    BY <1>14 DEF StartsInCall
  <2> DEFINE o == IF g.k = "try" THEN "accept" ELSE g.form
  <2>3. o \in {"accept", "read"} \cup Forms /\ Started(o, 0)
    BY <2>1, FrameFacts
  <2> HIDE DEF o
  <2>4. /\ \A n \in 1..Len(hist) : hist'[n] = hist[n]
        /\ \A n \in 1..Len(hist) : Pending(n) => Pending(n)' /\ n # new
        /\ Pending(new)' /\ hist'[new].o = o /\ Len(hist') >= Len(hist)
        /\ \A n \in (Len(hist) + 1)..Len(hist') : hist'[n].finals <= 1
    BY <1>9, <2>3, StartedNew
  <2>5. \A m : Pending(m) => m \in 1..Len(hist)
    BY DEF Pending
  <2>6. /\ DOMAIN stack' = 1..(Len(stack) + 1) /\ stack'[Len(stack) + 1] = g
        /\ \A n \in 1..Len(stack) : stack'[n] = stack[n]
    BY <2>1, SeqFacts DEF Calls, Kept
  <2>7. \A n \in DOMAIN stack' :
          \/ /\ n \in DOMAIN stack /\ stack'[n].id = stack[n].id
             /\ HeldForm(n)' = HeldForm(n) /\ (Holds(n)' <=> Holds(n))
          \/ n = Len(stack) + 1 /\ stack'[n].id = new /\ HeldForm(n)' = o
    BY <1>1, <2>1, <2>6 DEF HeldForm, Holds, o
  <2>8. SlotsHold'
    BY <1>2, <2>2, <2>4 DEF SlotsHold, Busy, Pending
  <2>9. CallsHold'
    <3>1. \A n \in DOMAIN stack' : Holds(n)' =>
            Pending(stack[n].id)' /\ hist'[stack'[n].id].o = HeldForm(n)'
      BY <1>2, <2>4, <2>7 DEF CallsHold, Pending
    <3> QED BY <3>1 DEF CallsHold
  <2>10. Apart'
    <3>1. \A t \in 0..1 : Busy(t) => op[t].id # new
      BY <1>2, <2>4, <2>5 DEF SlotsHold
    <3>2. \A n \in DOMAIN stack : Holds(n) => stack[n].id # new
      BY <1>2, <2>4, <2>5 DEF CallsHold
    <3>3. \A t \in 0..1, n \in DOMAIN stack' : Busy(t)' /\ Holds(n)' => op'[t].id # stack'[n].id
      BY <1>2, <2>2, <2>7, <3>1 DEF Apart, Busy
    <3>4. \A m, n \in DOMAIN stack' :
            Holds(m)' /\ Holds(n)' /\ m # n => stack'[m].id # stack'[n].id
      BY <1>2, <2>7, <3>2 DEF Apart
    <3> QED BY <1>2, <2>2, <3>3, <3>4 DEF Apart, Busy
  <2> QED BY <2>4, <2>8, <2>9, <2>10, HolderStays
<1> QED BY <1>4, <1>5, <1>7, <1>8, <1>12, <1>13, <1>14 DEF Move

\* The loops serve no operation that was cancelled or is not repeated.
LEMMA OrderlyMove ==
  ASSUME BaseInv, HolderInv, LoopInv, Orderly, AnyMove
  PROVE  Move
<1>1. ~BreaksOff
  BY DEF Orderly, BreaksOff
<1>2. ASSUME Overserves PROVE FALSE
  <2>1. stack \in Seq(Frames) /\ stack # <<>>
    BY <1>2, BaseFacts DEF Overserves
  <2>2. Len(stack) \in DOMAIN stack /\ Top = stack[Len(stack)]
    BY <2>1, StackFacts DEF Top
  <2>3. CASE Top.k = "try" /\ hist[Top.id].over
    <3>1. Pending(Top.id)
      BY <2>2, <2>3 DEF HolderInv, CallsHold, Holds, Holding
    <3> QED BY <2>3, <3>1 DEF Pending
  <2>4. CASE op[0].operation = "accept" /\ hist[op[0].id].over
    <3>1. Pending(op[0].id)
      BY <2>4 DEF HolderInv, SlotsHold, Busy
    <3> QED BY <2>4, <3>1 DEF Pending
  <2>5. CASE op[0].operation = "accept" /\ Top.k = "accept" /\ ~op[0].repeat
    BY <2>2, <2>5 DEF LoopInv
  <2> QED BY <1>2, <2>3, <2>4, <2>5 DEF Overserves
<1> QED BY <1>1, <1>2 DEF AnyMove

\* Every step moves the operations in one of these ways.
LEMMA NextMoves ==
  ASSUME Orderly
  PROVE  BaseInv /\ HolderInv /\ LoopInv /\ [Next]_vars => Move
<1> SUFFICES ASSUME BaseInv, HolderInv, LoopInv, [Next]_vars PROVE Move
  OBVIOUS
<1>1. CASE Next
  <2>1. CASE SocketNext
    BY <2>1, ControlSteps, OrderlyMove DEF Control
  <2>2. CASE Others
    BY <2>2, OtherControl DEF Move
  <2> QED BY <1>1, <2>1, <2>2, NextSplit
<1>2. CASE UNCHANGED vars
  <2>1. UNCHANGED <<stack, op, hist>>
    BY <1>2 DEF vars, socketVars
  <2>2. stack \in Seq(Frames)
    BY BaseFacts
  <2> QED BY <2>1, <2>2, KeptStack DEF Works, Move
<1> QED BY <1>1, <1>2

LEMMA HolderNext ==
  ASSUME Orderly
  PROVE  BaseInv /\ HolderInv /\ LoopInv /\ [Next]_vars => HolderInv' /\ LoopInv'
<1> SUFFICES ASSUME BaseInv, HolderInv, LoopInv, [Next]_vars PROVE HolderInv' /\ LoopInv'
  OBVIOUS
<1>1. BaseInv' /\ Move
  BY BaseNext, NextMoves
<1>2. HolderInv'
  BY <1>1, HolderMove
<1>3. CASE Next
  BY <1>1, <1>2, <1>3, NextSplit, ControlSteps, OtherControl, LoopNext DEF Control
<1>4. CASE UNCHANGED vars
  BY <1>2, <1>4 DEF vars, socketVars, LoopInv
<1> QED BY <1>3, <1>4

\* Every accept, read, connect and bind is ended by at most one callback,
\* whatever else the user does in the callbacks, if no accept is started from
\* the callback of a repeated one and none is cancelled from its callback
\* while accept() itself makes it (cpoll.C, Socket::accept and doOperation).
THEOREM AnsweredOnce ==
  ASSUME Habits \cap {"reenter", "breakoff"} = {}
  PROVE  Spec => []OneAnswer
<1>1. HolderInv => OneAnswer
  BY DEF HolderInv
<1>2. BaseInv /\ HolderInv /\ LoopInv /\ [Next]_vars => HolderInv' /\ LoopInv'
  BY HolderNext DEF Orderly
<1> QED BY <1>1, <1>2, BaseInit, BaseNext, HolderInit, LoopInit, PTL DEF Spec

\* Only an operation that is pending is answered.
LEMMA MoveAnswers ==
  ASSUME BaseInv, HolderInv, Move, NEW id \in DOMAIN hist, Answered(id)
  PROVE  Pending(id) /\ Ended(id)
<1>0. hist \in Seq(Entries) /\ stack \in Seq(Frames)
  BY BaseFacts
<1>1. /\ Len(hist) \in Nat /\ DOMAIN hist = 1..Len(hist) /\ id \in 1..Len(hist)
  BY <1>0, SeqFacts
<1>2. ASSUME NEW e, Pending(e), Ended(e) \/ GivenUp(e)
      PROVE  Pending(id) /\ Ended(id)
  <2>1. CASE Ended(e)
    <3>1. \A n \in 1..Len(hist) : n # e => hist'[n] = hist[n]
      BY <1>0, <2>1, EndedFacts, Zenon
    <3> QED BY <1>1, <1>2, <2>1, <3>1 DEF Answered
  <2>2. CASE GivenUp(e)
    <3>1. \A n \in 1..Len(hist) : hist'[n].finals = hist[n].finals
      BY <1>0, <2>2, GivenUpFacts, Zenon
    <3> QED BY <1>1, <3>1 DEF Answered
  <2> QED BY <1>2, <2>1, <2>2
<1>3. ASSUME NEW o \in {"accept", "read"} \cup Forms, NEW finals \in 0..1, Started(o, finals)
      PROVE  FALSE
  <2>1. \A n \in 1..Len(hist) : hist'[n] = hist[n]
    BY <1>3, StartedNew
  <2> QED BY <1>1, <2>1 DEF Answered
<1>4. "connect" \in Forms
  BY DEF Forms
<1>5. CASE Works \/ Parks
  BY <1>5 DEF Works, Parks, Answered
<1>6. CASE LeavesSlot
  <2>1. PICK slot \in 0..1 : Busy(slot) /\ (Ended(op[slot].id) \/ GivenUp(op[slot].id))
    BY <1>6 DEF LeavesSlot, Busy
  <2>2. Pending(op[slot].id)
    BY <2>1 DEF HolderInv, SlotsHold
  <2> QED BY <1>2, <2>1, <2>2, Zenon
<1>7. CASE LeavesCall
  <2>1. Pending(Top.id)
    BY <1>0, <1>7, StackFacts DEF LeavesCall, LessTop, HolderInv, CallsHold, Holds, Top
  <2>2. Ended(Top.id) \/ GivenUp(Top.id)
    BY <1>7 DEF LeavesCall
  <2> QED BY <1>2, <2>1, <2>2, Zenon
<1>8. CASE StartsInSlot \/ StartsAnswered
  <2>1. \/ Started("read", 0) \/ Started("connect", 0) \/ Started("connect", 1)
    BY <1>8 DEF StartsInSlot, StartsAnswered
  <2>2. 0 \in 0..1 /\ 1 \in 0..1
    OBVIOUS
  <2>3. "read" \in {"accept", "read"} \cup Forms /\ "connect" \in {"accept", "read"} \cup Forms
    BY <1>4
  <2> QED BY <1>3, <2>1, <2>2, <2>3, Zenon
<1>9. CASE StartsInCall
  <2>1. PICK g \in Frames : \/ g.k = "try" /\ Started("accept", 0)
                            \/ g.k = "hosts" /\ Started(g.form, 0)
    BY <1>9 DEF StartsInCall
  <2>2. 0 \in 0..1 /\ "accept" \in {"accept", "read"} \cup Forms
    OBVIOUS
  <2>3. g.k = "hosts" => g.form \in {"accept", "read"} \cup Forms
    BY FrameFacts
  <2> QED BY <1>3, <2>1, <2>2, <2>3, Zenon
<1> QED BY <1>5, <1>6, <1>7, <1>8, <1>9 DEF Move

\* An operation that was cancelled, or whose call threw, is never called back,
\* whichever events of it had been harvested before, for the users of
\* AnsweredOnce: a repeated accept that is cancelled while accept() calls it
\* back is called again.
THEOREM CancelledIsSilent ==
  ASSUME Habits \cap {"reenter", "breakoff"} = {}
  PROVE  Spec => NoAnswerAfterCancel
<1>1. BaseInv /\ HolderInv /\ LoopInv /\ [Next]_vars =>
        [\A id \in DOMAIN hist : hist[id].over => ~Answered(id)]_socketState
  BY NextMoves, MoveAnswers DEF Pending, Orderly
<1>2. BaseInv /\ HolderInv /\ LoopInv /\ [Next]_vars => HolderInv' /\ LoopInv'
  BY HolderNext DEF Orderly
<1> QED BY <1>1, <1>2, BaseInit, BaseNext, HolderInit, LoopInit, PTL
        DEF Spec, NoAnswerAfterCancel

-----------------------------------------------------------------------------
(***************************************************************************)
(* The usual user: one that leaves no operation and no event of an old use *)
(* behind (Tidy).  The rest of this module assumes Habits = {}.            *)
(***************************************************************************)
Among(S) == \E n \in DOMAIN stack : stack[n] \in S

Of(K) == {f \in Frames : f.k \in K}

\* The calls in progress, by what they are about.
Trying == Among(Of({"try"}))
Resolving == Among(Of({"hosts"}))
Dispatching == Among(Of({"in", "out"}))
ReadPhase == Among(Of({"in"}))
Looping == Among(Of({"accept"}))
Served(slot) == Among({f \in Frames : f.k \in {"do", "hup"} /\ f.slot = slot})

\* These calls run no user code, so they are innermost; and at most one
\* accept is being started.
Innermost == {"tick", "in", "do", "hup", "hosts"}

Nested ==
  /\ \A n \in DOMAIN stack : n < Len(stack) => stack[n].k \notin Innermost
  /\ \A m, n \in DOMAIN stack : stack[m].k = "try" /\ stack[n].k = "try" => m = n

\* The states of the descriptor an operation can wait in.
StatesFit ==
  /\ op[0].operation = "read" => st \in {"connected", "none"}
  /\ op[0].operation = "accept" => st \in {"listen", "fresh", "none"}
  /\ op[1].operation = "connect" => st \in {"connecting", "connected", "failed", "none"}

\* An accept that is being started, and a loop over addresses, find their
\* slots free; the loop also finds no old events.
CallsFit ==
  /\ op[0].operation = "accept" => ~Trying
  /\ Resolving =>
       /\ st = "none" /\ op[0].operation = "none" /\ op[1].operation = "none"
       /\ batch[socket] = {} /\ ~Dispatching

\* The error of a failed connection waits for its connect, and no event is on
\* its way before the connection is decided.
ErrorWaits ==
  op[1].operation = "connect" =>
    /\ st = "failed" => soerr
    /\ st = "connecting" => batch[socket] = {} /\ ~Dispatching /\ ~Served(1)

\* The event of a decided connection is on its way to the connect.
ConnectWakes ==
  op[1].operation = "connect" /\ st \in {"connected", "failed"} /\ socket \in registered =>
    \/ socket \in ready
    \/ "OUT" \in batch[socket]
    \/ target = socket /\ "OUT" \in events /\ Dispatching
    \/ Served(1)

\* The events a pending accept is served by.
AcceptEvents == {"IN", "HUP", "ERR"}

AcceptWakes ==
  op[0].operation = "accept" /\ ~WouldBlock /\ socket \in registered =>
    \/ socket \in ready
    \/ batch[socket] \cap AcceptEvents # {}
    \/ target = socket /\ events \cap AcceptEvents # {} /\ ReadPhase
    \/ Served(0) \/ Looping

SlotInv == StatesFit /\ CallsFit /\ ErrorWaits /\ ConnectWakes /\ AcceptWakes

UsualInv == Nested /\ SlotInv /\ NoneForgotten

\* What a stack step does to the frames of a set S.
LEMMA AmongSteps ==
  ASSUME stack \in Seq(Frames), NEW S
  PROVE  /\ stack = <<>> => ~Among(S)
         /\ stack # <<>> /\ Top \in S => Among(S)
         /\ stack' = stack => (Among(S)' <=> Among(S))
         /\ Returned => /\ Among(S)' => Among(S)
                        /\ Top \notin S => (Among(S) => Among(S)')
         /\ \A f : GoesOn(f) => /\ f \in S => Among(S)'
                                /\ f \notin S => (Among(S)' => Among(S))
                                /\ Top \notin S => (Among(S) => Among(S)')
         /\ \A g : Calls(g) => (Among(S)' <=> Among(S) \/ g \in S)
         /\ \A f, g : GoesOnCalls(f, g) =>
              /\ f \in S \/ g \in S => Among(S)'
              /\ f \notin S /\ g \notin S => (Among(S)' => Among(S))
              /\ Top \notin S => (Among(S) => Among(S)')
<1> DEFINE L == Len(stack)
<1>0. L \in Nat /\ DOMAIN stack = 1..L /\ (stack = <<>> <=> L = 0) /\ Top = stack[L]
  BY StackFacts DEF Top
<1>1. stack = <<>> => ~Among(S)
  BY <1>0 DEF Among
<1>2. stack # <<>> /\ Top \in S => Among(S)
  BY <1>0 DEF Among
<1>3. stack' = stack => (Among(S)' <=> Among(S))
  BY DEF Among
<1>4. ASSUME NEW p \in Nat, Kept(p)
      PROVE  /\ p <= L /\ Len(stack') \in Nat /\ DOMAIN stack' = 1..Len(stack')
             /\ p <= Len(stack')
             /\ \A n \in 1..p : n \in 1..L /\ n \in 1..Len(stack') /\ stack'[n] = stack[n]
  <2>1. Len(stack') \in Nat /\ DOMAIN stack' = 1..Len(stack')
    BY <1>4, SeqFacts DEF Kept
  <2>2. p <= L /\ p <= Len(stack') /\ \A n \in 1..p : stack'[n] = stack[n]
    BY <1>0, <1>4 DEF Kept
  <2> QED BY <1>0, <2>1, <2>2
<1> HIDE DEF L
<1>5. ASSUME L >= 1, Kept(L - 1)
      PROVE  /\ Len(stack') \in Nat /\ DOMAIN stack' = 1..Len(stack') /\ L - 1 <= Len(stack')
             /\ \A n \in 1..(L - 1) : /\ n \in DOMAIN stack /\ n \in DOMAIN stack'
                                      /\ stack'[n] = stack[n]
             /\ \A n \in DOMAIN stack : n = L \/ n \in 1..(L - 1)
             /\ \A n \in DOMAIN stack' : n \in 1..(L - 1) \/ n \in L..Len(stack')
             /\ Top \notin S => (Among(S) => Among(S)')
  <2>1. L - 1 \in Nat
    BY <1>0, <1>5
  <2>2. /\ Len(stack') \in Nat /\ DOMAIN stack' = 1..Len(stack') /\ L - 1 <= Len(stack')
        /\ \A n \in 1..(L - 1) : /\ n \in DOMAIN stack /\ n \in DOMAIN stack'
                                 /\ stack'[n] = stack[n]
    BY <1>0, <1>4, <1>5, <2>1
  <2>3. /\ \A n \in DOMAIN stack : n = L \/ n \in 1..(L - 1)
        /\ \A n \in DOMAIN stack' : n \in 1..(L - 1) \/ n \in L..Len(stack')
    BY <1>0, <1>5, <2>2
  <2>4. Top \notin S => (Among(S) => Among(S)')
    BY <1>0, <2>2, <2>3 DEF Among
  <2> QED BY <2>2, <2>3, <2>4
<1>6. Returned => /\ Among(S)' => Among(S)
                  /\ Top \notin S => (Among(S) => Among(S)')
  <2> SUFFICES ASSUME Returned PROVE /\ Among(S)' => Among(S)
                                     /\ Top \notin S => (Among(S) => Among(S)')
    OBVIOUS
  <2>1. L >= 1 /\ Kept(L - 1) /\ Len(stack') = L - 1
    BY DEF Returned, L
  <2>2. Among(S)' => Among(S)
    BY <1>0, <1>5, <2>1 DEF Among
  <2> QED BY <1>5, <2>1, <2>2
<1>7. ASSUME NEW f, GoesOn(f)
      PROVE  /\ f \in S => Among(S)'
             /\ f \notin S => (Among(S)' => Among(S))
             /\ Top \notin S => (Among(S) => Among(S)')
  <2>1. L >= 1 /\ Kept(L - 1) /\ Len(stack') = L /\ stack'[L] = f
    BY <1>7 DEF GoesOn, L
  <2>2. L \in DOMAIN stack' /\ \A n \in DOMAIN stack' : n \in 1..(L - 1) \/ n = L
    BY <1>0, <1>5, <2>1
  <2>3. f \in S => Among(S)'
    BY <2>1, <2>2 DEF Among
  <2>4. f \notin S => (Among(S)' => Among(S))
    BY <1>5, <2>1, <2>2 DEF Among
  <2> QED BY <1>5, <2>1, <2>3, <2>4
<1>8. ASSUME NEW g, Calls(g)
      PROVE  Among(S)' <=> Among(S) \/ g \in S
  <2>1. Kept(L) /\ Len(stack') = L + 1 /\ stack'[L + 1] = g
    BY <1>8 DEF Calls, L
  <2>2. /\ \A n \in DOMAIN stack : n \in DOMAIN stack' /\ stack'[n] = stack[n]
        /\ L + 1 \in DOMAIN stack'
        /\ \A n \in DOMAIN stack' : n \in DOMAIN stack \/ n = L + 1
    BY <1>0, <1>4, <2>1
  <2> QED BY <2>1, <2>2 DEF Among
<1>9. ASSUME NEW f, NEW g, GoesOnCalls(f, g)
      PROVE  /\ f \in S \/ g \in S => Among(S)'
             /\ f \notin S /\ g \notin S => (Among(S)' => Among(S))
             /\ Top \notin S => (Among(S) => Among(S)')
  <2>1. L >= 1 /\ Kept(L - 1) /\ Len(stack') = L + 1 /\ stack'[L] = f /\ stack'[L + 1] = g
    BY <1>9 DEF GoesOnCalls, L
  <2>2. /\ L \in DOMAIN stack' /\ L + 1 \in DOMAIN stack'
        /\ \A n \in DOMAIN stack' : n \in 1..(L - 1) \/ n = L \/ n = L + 1
    BY <1>0, <1>5, <2>1
  <2>3. f \in S \/ g \in S => Among(S)'
    BY <2>1, <2>2 DEF Among
  <2>4. f \notin S /\ g \notin S => (Among(S)' => Among(S))
    BY <1>5, <2>1, <2>2 DEF Among
  <2> QED BY <1>5, <2>1, <2>3, <2>4
<1> QED BY <1>1, <1>2, <1>3, <1>6, <1>7, <1>8, <1>9

\* A call that runs no user code is the innermost one.
LEMMA OnTop ==
  ASSUME stack \in Seq(Frames), Nested, NEW S, S \subseteq Of(Innermost), Among(S)
  PROVE  stack # <<>> /\ Top \in S
<1>1. PICK n \in DOMAIN stack : stack[n] \in S
  BY DEF Among
<1>2. Len(stack) \in Nat /\ n \in 1..Len(stack) /\ (stack = <<>> <=> Len(stack) = 0)
  BY StackFacts
<1>3. stack[n].k \in Innermost
  BY <1>1 DEF Of
<1>4. n = Len(stack)
  BY <1>2, <1>3 DEF Nested
<1> QED BY <1>1, <1>2, <1>4 DEF Top

LEMMA NestedNext ==
  ASSUME BaseInv, Nested, Orderly, stack' \in Seq(Frames), SocketNest \/ OtherNest, Move
  PROVE  Nested'
<1> DEFINE L == Len(stack)
<1>0. stack \in Seq(Frames)
  BY BaseFacts
<1>1. L \in Nat /\ DOMAIN stack = 1..L /\ (stack = <<>> <=> L = 0) /\ Top = stack[L]
  BY <1>0, StackFacts DEF Top
<1>2. Len(stack') \in Nat /\ DOMAIN stack' = 1..Len(stack')
  BY SeqFacts
<1>3. \A n \in 1..(L - 1) : stack[n].k \notin Innermost
  BY <1>1 DEF Nested
<1> HIDE DEF L
<1>4. \A n \in DOMAIN stack' : n < Len(stack') => stack'[n].k \notin Innermost
  <2>1. CASE stack' = stack
    BY <1>1, <1>3, <2>1 DEF L
  <2>2. CASE Returned
    <3>1. L >= 1 /\ Len(stack') = L - 1 /\ \A n \in 1..(L - 1) : stack'[n] = stack[n]
      BY <2>2 DEF Returned, Kept, L
    <3> QED BY <1>1, <1>2, <1>3, <3>1
  <2>3. ASSUME NEW f \in Frames, GoesOn(f)
        PROVE  \A n \in DOMAIN stack' : n < Len(stack') => stack'[n].k \notin Innermost
    <3>1. L >= 1 /\ Len(stack') = L /\ \A n \in 1..(L - 1) : stack'[n] = stack[n]
      BY <2>3 DEF GoesOn, Kept, L
    <3> QED BY <1>1, <1>2, <1>3, <3>1
  <2>4. ASSUME NEW g \in Frames, Calls(g), UserTop
        PROVE  \A n \in DOMAIN stack' : n < Len(stack') => stack'[n].k \notin Innermost
    <3>1. Len(stack') = L + 1 /\ \A n \in 1..L : stack'[n] = stack[n]
      BY <2>4 DEF Calls, Kept, L
    <3>2. L # 0 => stack[L].k \notin Innermost
      BY <1>1, <2>4 DEF UserTop, Innermost
    <3>3. \A n \in DOMAIN stack' : n < Len(stack') => n \in 1..(L - 1) \/ (n = L /\ L # 0)
      BY <1>1, <1>2, <3>1
    <3>4. \A n \in 1..(L - 1) : n \in 1..L
      BY <1>1
    <3> QED BY <1>1, <1>3, <3>1, <3>2, <3>3, <3>4
  <2>5. ASSUME NEW f \in Frames, NEW g \in Frames, f.k \in {"out", "accept", "try"},
               GoesOnCalls(f, g)
        PROVE  \A n \in DOMAIN stack' : n < Len(stack') => stack'[n].k \notin Innermost
    <3>1. /\ L >= 1 /\ Len(stack') = L + 1 /\ stack'[L] = f
          /\ \A n \in 1..(L - 1) : stack'[n] = stack[n]
      BY <2>5 DEF GoesOnCalls, Kept, L
    <3>2. f.k \notin Innermost
      BY <2>5 DEF Innermost
    <3> QED BY <1>1, <1>2, <1>3, <3>1, <3>2
  <2>6. CASE SocketNest
    BY <2>1, <2>2, <2>3, <2>4, <2>5, <2>6 DEF SocketNest
  <2>7. CASE OtherNest
    <3>1. stack = <<>> => UserTop
      BY DEF UserTop
    <3> QED BY <2>1, <2>2, <2>3, <2>4, <2>7, <3>1 DEF OtherNest
  <2> QED BY <2>6, <2>7
<1>5. \A m, n \in DOMAIN stack' : stack'[m].k = "try" /\ stack'[n].k = "try" => m = n
  <2>1. ASSUME NEW p, HoldersUpTo(p)
        PROVE  \A m, n \in DOMAIN stack' : stack'[m].k = "try" /\ stack'[n].k = "try" => m = n
    <3>1. \A n \in DOMAIN stack' : stack'[n].k = "try" => n \in DOMAIN stack /\ stack[n].k = "try"
      BY <2>1 DEF HoldersUpTo, SameAt, Holding
    <3> QED BY <3>1 DEF Nested
  <2>2. CASE StartsInCall
    <3>1. PICK g \in Frames : /\ Calls(g)
                              /\ \/ \A n \in DOMAIN stack : stack[n].k # "try"
                                 \/ g.k = "hosts"
      BY <2>2 DEF StartsInCall, Orderly
    <3>2. /\ Len(stack') = L + 1 /\ stack'[L + 1] = g
          /\ \A n \in 1..L : stack'[n] = stack[n]
      BY <3>1 DEF Calls, Kept, L
    <3>3. \A n \in DOMAIN stack' : n \in DOMAIN stack \/ n = L + 1
      BY <1>1, <1>2, <3>2
    <3>4. \A m, n \in DOMAIN stack : stack[m].k = "try" /\ stack[n].k = "try" => m = n
      BY DEF Nested
    <3> QED BY <1>1, <3>1, <3>2, <3>3, <3>4
  <2>3. (\E p : HoldersUpTo(p)) \/ StartsInCall
    BY DEF Move, Works, LeavesSlot, LeavesCall, Parks, StartsInSlot, StartsAnswered,
           SameHolders, LessTop
  <2> QED BY <2>1, <2>2, <2>3
<1> QED BY <1>4, <1>5 DEF Nested

\* The places where operation id is held.
InSlot(id) == \E slot \in 0..1 : Busy(slot) /\ op[slot].id = id
InCall(id) == \E n \in DOMAIN stack : Holds(n) /\ stack[n].id = id

LEMMA ForgottenForm ==
  ASSUME BaseInv
  PROVE  NoneForgotten <=> \A id \in 1..Len(hist) : Pending(id) => InSlot(id) \/ InCall(id)
<1>1. hist \in Seq(Entries)
  BY BaseFacts
<1>2. DOMAIN hist = 1..Len(hist) /\ \A id \in 1..Len(hist) : hist[id] \in Entries
  BY <1>1, SeqFacts
<1>3. \A id \in 1..Len(hist) : (~hist[id].over) <=> hist[id].over = FALSE
  BY <1>2 DEF Entries
<1> QED BY <1>2, <1>3 DEF NoneForgotten, Pending, InSlot, InCall, Busy, Holds, Holding

\* No move forgets an operation, if the slot it parks one in is free.
LEMMA ForgottenMove ==
  ASSUME BaseInv, BaseInv', HolderInv, NoneForgotten, Move,
         Parks => ~Busy(IF Top.k = "try" THEN 0 ELSE 1)
  PROVE  NoneForgotten'
<1>0. hist \in Seq(Entries) /\ stack \in Seq(Frames) /\ op \in [0..1 -> Slots]
  BY BaseFacts DEF Slots
<1>1. Len(hist) \in Nat /\ Len(stack) \in Nat /\ DOMAIN stack = 1..Len(stack)
  BY <1>0, SeqFacts
<1>2. \A id \in 1..Len(hist) : Pending(id) => InSlot(id) \/ InCall(id)
  BY ForgottenForm
<1>3. SUFFICES ASSUME NEW id \in 1..Len(hist'), Pending(id)'
               PROVE  InSlot(id)' \/ InCall(id)'
  <2>1. hist' \in Seq(Entries)
    BY DEF BaseInv, TypeOK, SocketTypeOK, Entries
  <2>2. DOMAIN hist' = 1..Len(hist')
    BY <2>1, SeqFacts
  <2>3. \A i \in 1..Len(hist') : hist'[i].finals = 0 /\ ~hist'[i].over => Pending(i)'
    <3>1. \A i \in 1..Len(hist') : hist'[i] \in Entries
      BY <2>1, SeqFacts
    <3> QED BY <3>1 DEF Pending, Entries
  <2> QED BY <1>3, <2>2, <2>3 DEF NoneForgotten, InSlot, InCall, Busy, Holds, Holding
<1>4. ASSUME SameHolders PROVE InCall(id) => InCall(id)'
  BY <1>1, <1>4 DEF SameHolders, HoldersUpTo, SameAt, InCall, Holds
<1>5. ASSUME LessTop
      PROVE  InCall(id) => InCall(id)' \/ id = Top.id
  <2>1. \A n \in DOMAIN stack : n <= Len(stack) - 1 \/ n = Len(stack)
    BY <1>1
  <2>2. \A n \in DOMAIN stack : n <= Len(stack) - 1 /\ stack[n].k \in Holding =>
          n \in DOMAIN stack' /\ stack'[n].k = stack[n].k /\ stack'[n].id = stack[n].id
    BY <1>5 DEF LessTop, HoldersUpTo, SameAt
  <2> QED BY <2>1, <2>2 DEF InCall, Holds, Top
<1>6. ASSUME NEW e, Pending(e), Ended(e) \/ GivenUp(e)
      PROVE  id # e /\ id \in 1..Len(hist) /\ Pending(id)
  <2>1. e \in 1..Len(hist) /\ hist[e].finals = 0
    BY <1>6 DEF Pending
  <2>2. /\ Len(hist') = Len(hist)
        /\ \A n \in 1..Len(hist) : n # e => hist'[n] = hist[n]
    BY <1>6, <2>1, EndedOrGivenUp
  <2>3. CASE Ended(e)
    <3>1. \A n \in 1..Len(hist) : n = e => hist'[n].finals = hist[n].finals + 1
      BY <1>0, <2>3, EndedFacts, Zenon
    <3>2. hist'[e].finals = 1
      BY <2>1, <3>1
    <3> QED BY <1>3, <2>1, <2>2, <3>2 DEF Pending
  <2>4. CASE GivenUp(e)
    <3>1. \A n \in 1..Len(hist) : n = e => hist'[n].over = TRUE
      BY <1>0, <2>4, GivenUpFacts, Zenon
    <3> QED BY <1>3, <2>1, <2>2, <3>1 DEF Pending
  <2> QED BY <1>6, <2>3, <2>4
<1>7. CASE Works
  <2>1. SameHolders /\ op' = op /\ hist' = hist
    BY <1>7 DEF Works
  <2>2. Pending(id) /\ id \in 1..Len(hist)
    BY <1>3, <2>1 DEF Pending
  <2> QED BY <1>2, <1>4, <2>1, <2>2 DEF InSlot, Busy
<1>8. CASE LeavesSlot
  <2>1. PICK slot \in 0..1 : /\ Busy(slot) /\ Finished(slot) /\ SameHolders
                             /\ Ended(op[slot].id) \/ GivenUp(op[slot].id)
    BY <1>8 DEF LeavesSlot, Busy
  <2>2. Pending(op[slot].id)
    BY <2>1 DEF HolderInv, SlotsHold
  <2>3. id # op[slot].id /\ id \in 1..Len(hist) /\ Pending(id)
    BY <1>6, <2>1, <2>2, Zenon
  <2>4. \A t \in 0..1 : t # slot => op'[t] = op[t]
    BY <1>0, <2>1 DEF Finished
  <2> QED BY <1>2, <1>4, <2>1, <2>3, <2>4 DEF InSlot, Busy
<1>9. CASE LeavesCall
  <2>1. LessTop /\ op' = op /\ (Ended(Top.id) \/ GivenUp(Top.id))
    BY <1>9 DEF LeavesCall
  <2>2. Pending(Top.id)
    BY <1>0, <2>1, StackFacts DEF LessTop, HolderInv, CallsHold, Holds, Top
  <2>3. id # Top.id /\ id \in 1..Len(hist) /\ Pending(id)
    BY <1>6, <2>1, <2>2, Zenon
  <2> QED BY <1>2, <1>5, <2>1, <2>3 DEF InSlot, Busy
<1>10. CASE Parks
  <2>1. PICK slot \in 0..1 : ~Busy(slot) /\ op'[slot].operation # "none" /\ op'[slot].id = Top.id
                             /\ \A t \in 0..1 : t # slot => op'[t] = op[t]
    <3>1. CASE Top.k = "try" /\ Stored(0, "accept", Top.repeat, Top.id)
      <4>1. ~Busy(0) /\ op'[0].operation # "none" /\ op'[0].id = Top.id
            /\ op'[1] = op[1]
        BY <1>0, <1>10, <3>1 DEF Stored
      <4> QED BY <4>1
    <3>2. CASE Top.k = "hosts" /\ Stored(1, "connect", FALSE, Top.id)
      <4>1. ~Busy(1) /\ op'[1].operation # "none" /\ op'[1].id = Top.id
            /\ op'[0] = op[0]
        BY <1>0, <1>10, <3>2 DEF Stored
      <4> QED BY <4>1
    <3> QED BY <1>10, <3>1, <3>2 DEF Parks
  <2>2. LessTop /\ hist' = hist
    BY <1>10 DEF Parks
  <2>3. Pending(id) /\ id \in 1..Len(hist)
    BY <1>3, <2>2 DEF Pending
  <2> QED BY <1>2, <1>5, <2>1, <2>2, <2>3 DEF InSlot, Busy
<1>11. PICK new \in Nat : new = Len(hist) + 1
  BY <1>1
<1>12. ASSUME NEW o \in {"accept", "read"} \cup Forms, NEW finals \in 0..1, Started(o, finals)
       PROVE  \/ id = new /\ finals = 0
              \/ id \in 1..Len(hist) /\ Pending(id)
  <2>1. finals \in Nat
    BY <1>12
  <2>2. /\ Len(hist') = Len(hist) + 1
        /\ \A n \in 1..Len(hist) : hist'[n] = hist[n]
        /\ hist'[Len(hist) + 1].finals = finals
    BY <1>0, <1>12, <2>1, StartedFacts, Zenon
  <2>3. id = new \/ id \in 1..Len(hist)
    BY <1>1, <1>11, <2>2
  <2> QED BY <1>3, <1>11, <2>2, <2>3 DEF Pending
<1>13. /\ 0 \in 0..1 /\ 1 \in 0..1 /\ NewId = new
       /\ {"accept", "read", "connect"} \subseteq {"accept", "read"} \cup Forms
  BY <1>11 DEF NewId, Forms
<1>14. CASE StartsInSlot
  <2>1. PICK slot \in 0..1, o \in {"read", "connect"} :
          /\ ~Busy(slot) /\ Stored(slot, o, FALSE, new) /\ Started(o, 0)
    <3>1. CASE op[0].operation = "none" /\ Stored(0, "read", FALSE, NewId) /\ Started("read", 0)
      BY <1>13, <3>1 DEF Busy
    <3>2. CASE op[1].operation = "none" /\ Stored(1, "connect", FALSE, NewId) /\ Started("connect", 0)
      BY <1>13, <3>2 DEF Busy
    <3> QED BY <1>14, <3>1, <3>2 DEF StartsInSlot
  <2>2. SameHolders
    BY <1>14 DEF StartsInSlot
  <2>3. /\ op'[slot].operation # "none" /\ op'[slot].id = new
        /\ \A t \in 0..1 : t # slot => op'[t] = op[t]
    BY <1>0, <2>1 DEF Stored
  <2>4. id = new \/ (id \in 1..Len(hist) /\ Pending(id))
    BY <1>12, <1>13, <2>1
  <2> QED BY <1>2, <1>4, <2>1, <2>2, <2>3, <2>4 DEF InSlot, Busy
<1>15. CASE StartsAnswered
  <2>1. SameHolders /\ op' = op /\ Started("connect", 1)
    BY <1>15 DEF StartsAnswered
  <2>2. id \in 1..Len(hist) /\ Pending(id)
    BY <1>12, <1>13, <2>1
  <2> QED BY <1>2, <1>4, <2>1, <2>2 DEF InSlot, Busy
<1>16. CASE StartsInCall
  <2>1. PICK g \in Frames : /\ Calls(g) /\ g.id = new /\ g.k \in Holding
                            /\ \/ g.k = "try" /\ Started("accept", 0)
                               \/ g.k = "hosts" /\ Started(g.form, 0)
    BY <1>13, <1>16 DEF StartsInCall, Holding
  <2>2. op' = op
    BY <1>16 DEF StartsInCall
  <2>3. g.k = "hosts" => g.form \in {"accept", "read"} \cup Forms
    BY FrameFacts
  <2>4. id = new \/ (id \in 1..Len(hist) /\ Pending(id))
    BY <1>12, <1>13, <2>1, <2>3
  <2>5. stack' \in Seq(Frames) /\ Len(stack') = Len(stack) + 1
    BY <2>1 DEF Calls, Kept
  <2>6. DOMAIN stack' = 1..Len(stack')
    BY <2>5, SeqFacts
  <2>7. /\ stack'[Len(stack) + 1] = g /\ Len(stack) + 1 \in DOMAIN stack'
        /\ \A n \in DOMAIN stack : n \in DOMAIN stack' /\ stack'[n] = stack[n]
    BY <1>1, <2>1, <2>5, <2>6 DEF Calls, Kept
  <2>8. (InCall(id) => InCall(id)') /\ (id = new => InCall(id)')
    BY <2>1, <2>7 DEF InCall, Holds
  <2> QED BY <1>2, <2>2, <2>4, <2>8 DEF InSlot, Busy
<1> QED BY <1>7, <1>8, <1>9, <1>10, <1>14, <1>15, <1>16 DEF Move

\* The calls about the socket are the same after the step.
SameFrames ==
  /\ Trying' <=> Trying
  /\ Resolving' <=> Resolving
  /\ Dispatching' <=> Dispatching
  /\ ReadPhase' <=> ReadPhase
  /\ Looping' <=> Looping
  /\ Served(0)' <=> Served(0)
  /\ Served(1)' <=> Served(1)

LEMMA NeutralSteps ==
  ASSUME stack \in Seq(Frames),
         \/ stack' = stack
         \/ Returned /\ Top.k \in {"user", "tick"}
         \/ \E f \in Frames : GoesOn(f) /\ f.k \in {"user", "tick"} /\ Top.k \in {"user", "tick"}
         \/ \E g \in Frames : Calls(g) /\ g.k \in {"user", "tick"}
  PROVE  SameFrames
<1>1. ASSUME NEW S, \A f \in S : f.k \notin {"user", "tick"}
      PROVE  Among(S)' <=> Among(S)
  <2>1. \A f : f.k \in {"user", "tick"} => f \notin S
    BY <1>1
  <2>2. CASE stack' = stack
    BY <2>2, AmongSteps
  <2>3. CASE Returned /\ Top.k \in {"user", "tick"}
    BY <2>1, <2>3, AmongSteps
  <2>4. ASSUME NEW f \in Frames, GoesOn(f), f.k \in {"user", "tick"}, Top.k \in {"user", "tick"}
        PROVE  Among(S)' <=> Among(S)
    BY <2>1, <2>4, AmongSteps
  <2>5. ASSUME NEW g \in Frames, Calls(g), g.k \in {"user", "tick"}
        PROVE  Among(S)' <=> Among(S)
    BY <2>1, <2>5, AmongSteps
  <2> QED BY <2>2, <2>3, <2>4, <2>5
<1>2. /\ \A K : {"user", "tick"} \cap K = {} => \A f \in Of(K) : f.k \notin {"user", "tick"}
      /\ \A s : \A f \in {h \in Frames : h.k \in {"do", "hup"} /\ h.slot = s} :
           f.k \notin {"user", "tick"}
  BY DEF Of
<1>3. /\ Trying' <=> Trying
      /\ Resolving' <=> Resolving
      /\ Dispatching' <=> Dispatching
      /\ ReadPhase' <=> ReadPhase
      /\ Looping' <=> Looping
  BY <1>1, <1>2 DEF Trying, Resolving, Dispatching, ReadPhase, Looping
<1>4. (Served(0)' <=> Served(0)) /\ (Served(1)' <=> Served(1))
  BY <1>1, <1>2 DEF Served
<1> QED BY <1>3, <1>4 DEF SameFrames

\* The innermost call returned, or calls back and has nothing more to do.
Dropped ==
  /\ Trying' => Trying
  /\ Resolving' => Resolving
  /\ Dispatching' => Dispatching
  /\ Served(1)' => Served(1)
  /\ Top.k \notin {"in", "out"} => (Dispatching => Dispatching')
  /\ Top.k # "in" => (ReadPhase => ReadPhase')
  /\ Top.k # "accept" => (Looping => Looping')
  /\ Top.k \notin {"do", "hup"} \/ Top.slot # 0 => (Served(0) => Served(0)')
  /\ Top.k \notin {"do", "hup"} \/ Top.slot # 1 => (Served(1) => Served(1)')

LEMMA DropSteps ==
  ASSUME stack \in Seq(Frames),
         Returned \/ \E f \in Frames : f.k = "user" /\ GoesOn(f)
  PROVE  Dropped
<1>1. ASSUME NEW S, \A f \in S : f.k # "user"
      PROVE  /\ Among(S)' => Among(S)
             /\ Top \notin S => (Among(S) => Among(S)')
  <2>1. CASE Returned
    BY <2>1, AmongSteps
  <2>2. ASSUME NEW f \in Frames, f.k = "user", GoesOn(f)
        PROVE  /\ Among(S)' => Among(S)
               /\ Top \notin S => (Among(S) => Among(S)')
    <3>1. f \notin S
      BY <1>1, <2>2
    <3> QED BY <2>2, <3>1, AmongSteps
  <2> QED BY <2>1, <2>2
<1>2. /\ \A K : "user" \notin K => \A f \in Of(K) : f.k # "user"
      /\ \A s : \A f \in {h \in Frames : h.k \in {"do", "hup"} /\ h.slot = s} : f.k # "user"
      /\ \A K : Top.k \notin K => Top \notin Of(K)
      /\ \A s : Top.k \notin {"do", "hup"} \/ Top.slot # s =>
           Top \notin {h \in Frames : h.k \in {"do", "hup"} /\ h.slot = s}
  BY DEF Of
<1>3. /\ Trying' => Trying
      /\ Resolving' => Resolving
      /\ Dispatching' => Dispatching
  BY <1>1, <1>2 DEF Trying, Resolving, Dispatching
<1>4. /\ Top.k \notin {"in", "out"} => (Dispatching => Dispatching')
      /\ Top.k # "in" => (ReadPhase => ReadPhase')
      /\ Top.k # "accept" => (Looping => Looping')
  BY <1>1, <1>2 DEF Dispatching, ReadPhase, Looping
<1>5. /\ Served(1)' => Served(1)
      /\ Top.k \notin {"do", "hup"} \/ Top.slot # 0 => (Served(0) => Served(0)')
      /\ Top.k \notin {"do", "hup"} \/ Top.slot # 1 => (Served(1) => Served(1)')
  BY <1>1, <1>2 DEF Served
<1> QED BY <1>3, <1>4, <1>5 DEF Dropped

\* Where user code runs, no dispatch() is in its read phase, and so on.
LEMMA UserFrames ==
  ASSUME stack \in Seq(Frames), Nested, UserTop
  PROVE  ~ReadPhase /\ ~Resolving /\ ~Served(0) /\ ~Served(1)
<1>1. ASSUME NEW S, S \subseteq Of(Innermost)
      PROVE  ~Among(S)
  <2>1. Among(S) => stack # <<>> /\ Top \in S
    BY <1>1, OnTop
  <2>2. Top \in S => Top.k \in Innermost
    BY <1>1 DEF Of
  <2> QED BY <2>1, <2>2 DEF UserTop, Innermost
<1>2. /\ Of({"in"}) \subseteq Of(Innermost) /\ Of({"hosts"}) \subseteq Of(Innermost)
      /\ \A s : {h \in Frames : h.k \in {"do", "hup"} /\ h.slot = s} \subseteq Of(Innermost)
  BY DEF Of, Innermost
<1> QED BY <1>1, <1>2 DEF ReadPhase, Resolving, Served

-----------------------------------------------------------------------------
\* The masks behind ConnectWakes and AcceptWakes.
LEMMA MaskValues ==
  ASSUME NEW s, NEW err, NEW n \in Nat
  PROVE  /\ s \in {"connected", "failed"} => "OUT" \in MaskOf(s, err, n)
         /\ s = "fresh" \/ (s = "listen" /\ n # 0) => MaskOf(s, err, n) \cap AcceptEvents # {}
         /\ s \in {"none", "connecting"} => MaskOf(s, err, n) = {}
<1>1. s = "connected" => MaskOf(s, err, n) = {"OUT"}
  BY DEF MaskOf
<1>2. s = "failed" => "OUT" \in MaskOf(s, err, n)
  BY DEF MaskOf
<1>3. s = "fresh" => MaskOf(s, err, n) = {"OUT", "HUP"}
  BY DEF MaskOf
<1>4. s = "listen" /\ n # 0 => MaskOf(s, err, n) = {"IN"}
  BY DEF MaskOf
<1> QED BY <1>1, <1>2, <1>3, <1>4, MaskFacts DEF AcceptEvents

LEMMA SocketMask ==
  ASSUME BaseInv
  PROVE  /\ st \in {"connected", "failed"} => "OUT" \in mask[socket]
         /\ st \in {"fresh", "listen"} /\ ~WouldBlock => mask[socket] \cap AcceptEvents # {}
         /\ st \in {"none", "connecting"} => mask[socket] = {} /\ socket \notin ready
         /\ socket \in registered => st # "none"
<1>1. mask[socket] = MaskOf(st, soerr, backlog) /\ backlog \in Nat
      /\ (socket \in open <=> st # "none") /\ (socket \in ready => mask[socket] # {})
  BY BaseFacts, SocketAssumption DEF KernelInv
<1>2. socket \in registered => socket \in open
  BY BaseFacts DEF DeliveryTypeOK
<1> QED BY <1>1, <1>2, MaskValues DEF WouldBlock

\* The steps that leave the state of the descriptor as it is, and at most
\* finish operations.
Lets(slot) == op'[slot].operation \in {op[slot].operation, "none"}

LEMMA SlotsKept ==
  ASSUME SlotInv, st' = st, Lets(0), Lets(1), batch'[socket] = batch[socket],
         Trying' => Trying, Resolving' => Resolving, Dispatching' => Dispatching,
         Served(1)' => Served(1),
         soerr' = soerr \/ op'[1].operation = "none" \/ st # "failed",
         ConnectWakes', AcceptWakes'
  PROVE  SlotInv'
<1>1. StatesFit'
  BY DEF SlotInv, StatesFit, Lets
<1>2. CallsFit'
  BY DEF SlotInv, CallsFit, Lets
<1>3. ErrorWaits'
  BY DEF SlotInv, ErrorWaits, Lets
<1> QED BY <1>1, <1>2, <1>3 DEF SlotInv

\* What epoll has of the socket: readiness is lost only with the last event.
SameEvents ==
  /\ socket \in registered' <=> socket \in registered
  /\ socket \in ready => socket \in ready' \/ mask'[socket] = {}
  /\ batch'[socket] = batch[socket]
  /\ target' = target /\ events' = events

LEMMA WakesKept ==
  ASSUME BaseInv, BaseInv', SlotInv, st' = st, Lets(0), Lets(1), SameEvents,
         op'[1].operation = "connect" =>
           (Dispatching => Dispatching') /\ (Served(1) => Served(1)'),
         op'[0].operation = "accept" /\ ~WouldBlock' =>
           /\ backlog' = backlog
           /\ ReadPhase => ReadPhase'
           /\ Served(0) \/ Looping => Served(0)' \/ Looping'
  PROVE  ConnectWakes' /\ AcceptWakes'
<1>1. /\ mask'[socket] = MaskOf(st', soerr', backlog')
      /\ backlog' \in Nat
  BY SocketAssumption DEF BaseInv, TypeOK, SocketTypeOK, KernelInv
<1>2. /\ st' \in {"connected", "failed"} => mask'[socket] # {}
      /\ st' \in {"fresh", "listen"} /\ ~WouldBlock' => mask'[socket] # {}
  BY <1>1, MaskValues DEF WouldBlock
<1>3. backlog' = backlog => (WouldBlock' <=> WouldBlock)
  BY DEF WouldBlock
<1>4. ConnectWakes'
  BY <1>2 DEF SlotInv, ConnectWakes, SameEvents, Lets
<1>5. AcceptWakes'
  <2>1. op[0].operation = "accept" /\ socket \in registered => st \in {"fresh", "listen"}
    BY SocketMask DEF SlotInv, StatesFit
  <2> QED BY <1>2, <1>3, <2>1 DEF SlotInv, AcceptWakes, SameEvents, Lets
<1> QED BY <1>4, <1>5

\* The call for a slot goes on in a callback that ends its operation, or
\* returns because nothing is to be done.
LEMMA FinishStep ==
  ASSUME BaseInv, BaseInv', SlotInv, Dropped, NEW s \in 0..1,
         Top.k \in {"do", "hup", "accept"},
         Top.k = "accept" => s = 0, Top.k # "accept" => Top.slot = s,
         \/ op' = [op EXCEPT ![s] = NoOp]
         \/ op' = op /\ op[s].operation \in {"none", "read"}
         \/ op' = op /\ s = 0 /\ WouldBlock',
         st' = st, SameEvents,
         backlog' = backlog \/ (s = 0 /\ op' = [op EXCEPT ![s] = NoOp]),
         soerr' = soerr \/ (s = 1 /\ op' = [op EXCEPT ![s] = NoOp])
  PROVE  SlotInv'
<1>1. op \in [0..1 -> Slots]
  BY BaseFacts DEF Slots
<1>2. op' = [op EXCEPT ![s] = NoOp] =>
        op'[s].operation = "none" /\ \A t \in 0..1 : t # s => op'[t] = op[t]
  BY <1>1 DEF NoOp
<1>3. Lets(0) /\ Lets(1)
  BY <1>2 DEF Lets
<1>4. op'[1].operation = "connect" => (Dispatching => Dispatching') /\ (Served(1) => Served(1)')
  BY <1>2 DEF Dropped
<1>5. op'[0].operation = "accept" /\ ~WouldBlock' =>
        /\ backlog' = backlog
        /\ ReadPhase => ReadPhase'
        /\ Served(0) \/ Looping => Served(0)' \/ Looping'
  BY <1>2 DEF Dropped
<1>6. ConnectWakes' /\ AcceptWakes'
  BY <1>3, <1>4, <1>5, WakesKept
<1>7. /\ Trying' => Trying
      /\ Resolving' => Resolving
      /\ Dispatching' => Dispatching
      /\ Served(1)' => Served(1)
  BY DEF Dropped
<1>8. soerr' = soerr \/ op'[1].operation = "none"
  BY <1>2
<1>9. batch'[socket] = batch[socket]
  BY DEF SameEvents
<1> QED BY <1>3, <1>6, <1>7, <1>8, <1>9, SlotsKept DEF Dropped

\* Nothing happens in the kernel, or no more than a new mask.
LEMMA QuietKernel ==
  ASSUME BaseInv
  PROVE  /\ UNCHANGED deliveryVars => SameEvents
         /\ \A s, err, n : Becomes(s, err, n, FALSE) => SameEvents
<1>1. UNCHANGED deliveryVars => SameEvents
  BY DEF deliveryVars, SameEvents
<1>2. ASSUME NEW s, NEW err, NEW n, Becomes(s, err, n, FALSE)
      PROVE  SameEvents
  <2>1. mask'[socket] = MaskOf(s, err, n)
    BY <1>2, BaseFacts, SocketAssumption DEF Becomes, Poll, DeliveryTypeOK
  <2> QED BY <1>2, <2>1 DEF Becomes, Poll, SameEvents
<1> QED BY <1>1, <1>2

LEMMA ServeSteps ==
  ASSUME BaseInv, BaseInv', HolderInv, Nested, SlotInv,
         ConnectDone \/ HupAccept \/ DoRead \/ HupRead \/ DoNone
  PROVE  SlotInv'
<1>0. stack \in Seq(Frames) /\ op \in [0..1 -> Slots]
  BY BaseFacts DEF Slots
<1>1. stack # <<>> /\ Top.k \in {"do", "hup", "accept"}
  BY DEF ConnectDone, HupAccept, DoRead, HupRead, DoNone, TopIs
<1>2. Top \in Frames /\ (Top.k # "accept" => Top.slot \in 0..1)
  BY <1>0, <1>1, TopFacts, FrameFacts
<1>3. /\ op[0].operation \in {"none", "accept", "read"}
      /\ op[1].operation \in {"none", "connect"}
  BY DEF HolderInv, SlotsHold
<1>4. ASSUME NEW id \in Nat, NEW r \in Int, Answer(id, r)
      PROVE  Dropped
  <2>1. UserFrame(id, r) \in Frames /\ UserFrame(id, r).k = "user"
    BY MadeFrames
  <2>2. GoesOn(UserFrame(id, r))
    BY <1>0, <1>1, <1>4, <2>1, StackSteps DEF Answer
  <2> QED BY <1>0, <2>1, <2>2, DropSteps
<1>5. ASSUME Return PROVE Dropped
  BY <1>0, <1>1, <1>5, StackSteps, DropSteps DEF Return
<1>6. \A s \in 0..1 : op[s].id \in Nat
  BY <1>0, SocketAssumption DEF Slots
<1>7. CASE ConnectDone
  <2>1. Top.k # "accept" /\ Top.slot = 1 /\ op[Top.slot].operation = "connect"
    BY <1>2, <1>3, <1>7 DEF ConnectDone, TopIs
  <2>2. Answer(op[1].id, ConnectResult) /\ op' = [op EXCEPT ![1] = NoOp]
    BY <1>7, <2>1 DEF ConnectDone, Finished
  <2>3. Dropped
    BY <1>4, <1>6, <2>2 DEF ConnectResult
  <2>4. st' = st /\ backlog' = backlog /\ SameEvents
    BY <1>7, QuietKernel DEF ConnectDone, Becomes, kernelVars
  <2> QED BY <1>1, <2>1, <2>2, <2>3, <2>4, FinishStep
<1>8. CASE HupAccept \/ HupRead
  <2>1. Top.k = "hup" /\ Top.slot = 0 /\ op[Top.slot].operation \in {"accept", "read"}
    BY <1>2, <1>3, <1>8 DEF HupAccept, HupRead, TopIs
  <2>2. /\ Answer(op[0].id, -1) \/ Answer(op[0].id, 0)
        /\ op' = [op EXCEPT ![0] = NoOp] /\ UNCHANGED <<kernelVars, deliveryVars>>
    BY <1>8, <2>1 DEF HupAccept, HupRead, Finished
  <2>3. Dropped
    BY <1>4, <1>6, <2>2
  <2>4. st' = st /\ backlog' = backlog /\ soerr' = soerr /\ SameEvents
    BY <2>2, QuietKernel DEF kernelVars
  <2> QED BY <1>1, <2>1, <2>2, <2>3, <2>4, FinishStep
<1>9. CASE DoRead
  <2>1. Top.k = "do" /\ Top.slot = 0 /\ op[0].operation = "read"
    BY <1>2, <1>3, <1>9 DEF DoRead, TopIs
  <2>2. st # "failed"
    BY <2>1 DEF SlotInv, StatesFit
  <2>3. UNCHANGED <<kernelVars, deliveryVars>>
    BY <1>9, <2>2 DEF DoRead
  <2>4. st' = st /\ backlog' = backlog /\ soerr' = soerr /\ SameEvents
    BY <2>3, QuietKernel DEF kernelVars
  <2>5. CASE Return /\ op' = op
    BY <1>1, <1>5, <2>1, <2>4, <2>5, FinishStep
  <2>6. CASE Answer(op[0].id, -1) /\ op' = [op EXCEPT ![0] = NoOp]
    <3>1. Dropped
      BY <1>4, <1>6, <2>6
    <3> QED BY <1>1, <2>1, <2>4, <2>6, <3>1, FinishStep
  <2> QED BY <1>9, <2>1, <2>2, <2>5, <2>6 DEF DoRead, Finished
<1>10. CASE DoNone
  <2> DEFINE s == IF Top.k = "accept" THEN 0 ELSE Top.slot
  <2>1. /\ s \in 0..1 /\ op[s].operation \in {"none", "read"}
        /\ (Top.k = "accept" => s = 0) /\ (Top.k # "accept" => Top.slot = s)
    BY <1>2, <1>3, <1>10 DEF DoNone, TopIs, LoopsAgain
  <2> HIDE DEF s
  <2>2. Return /\ op' = op /\ UNCHANGED <<kernelVars, deliveryVars>>
    BY <1>10 DEF DoNone, socketVars
  <2>3. st' = st /\ backlog' = backlog /\ soerr' = soerr /\ SameEvents
    BY <2>2, QuietKernel DEF kernelVars
  <2> QED BY <1>1, <1>5, <2>1, <2>2, <2>3, FinishStep
<1> QED BY <1>7, <1>8, <1>9, <1>10

\* On a listening socket only an accept can be pending.
LEMMA ListenStep ==
  ASSUME SlotInv, st = "listen", st' = "listen", op'[1] = op[1],
         op'[0].operation # "read", op'[0].operation = "accept" => ~Trying',
         Resolving' => Resolving, AcceptWakes'
  PROVE  SlotInv'
<1>1. op[1].operation # "connect" /\ ~Resolving
  BY DEF SlotInv, StatesFit, CallsFit
<1> QED BY <1>1 DEF SlotInv, StatesFit, CallsFit, ErrorWaits, ConnectWakes

LEMMA AcceptSteps ==
  ASSUME BaseInv, BaseInv', Nested, SlotInv, TryAccept \/ DoAccept
  PROVE  SlotInv'
<1>0. stack \in Seq(Frames) /\ op \in [0..1 -> Slots]
  BY BaseFacts DEF Slots
<1>1. stack # <<>> /\ Top.k \in {"try", "do", "accept"}
  BY DEF TryAccept, DoAccept, TopIs
<1>2. Top \in Frames
  BY <1>0, <1>1, TopFacts
<1>3. ASSUME NEW id \in Nat, NEW r \in Int, Answer(id, r)
      PROVE  Dropped
  <2>1. UserFrame(id, r) \in Frames /\ UserFrame(id, r).k = "user"
    BY MadeFrames
  <2>2. GoesOn(UserFrame(id, r))
    BY <1>0, <1>1, <1>3, <2>1, StackSteps DEF Answer
  <2> QED BY <1>0, <2>1, <2>2, DropSteps
<1>4. ASSUME Return PROVE Returned /\ Dropped
  BY <1>0, <1>1, <1>4, StackSteps, DropSteps DEF Return
<1>5. ASSUME NEW f \in Frames, f.k \in {"accept", "try"}, NEW id \in Nat, NEW repeat,
             PassOn(f, id, repeat)
      PROVE  /\ Resolving' => Resolving
             /\ f.k = "accept" => Looping' /\ (Trying' => Trying)
  <2>1. UserFrame(id, 1) \in Frames /\ UserFrame(id, 1).k = "user"
    BY MadeFrames
  <2>2. GoesOnCalls(f, UserFrame(id, 1))
    BY <1>0, <1>1, <1>5, <2>1, StackSteps DEF PassOn
  <2>3. Resolving' => Resolving
    <3>1. f \notin Of({"hosts"}) /\ UserFrame(id, 1) \notin Of({"hosts"})
      BY <1>5, <2>1 DEF Of
    <3> QED BY <1>0, <2>2, <3>1, AmongSteps DEF Resolving
  <2>4. CASE f.k = "accept"
    <3>1. f \in Of({"accept"}) /\ f \notin Of({"try"}) /\ UserFrame(id, 1) \notin Of({"try"})
      BY <1>5, <2>1, <2>4 DEF Of
    <3>2. Looping'
      BY <1>0, <2>2, <3>1, AmongSteps DEF Looping
    <3>3. Trying' => Trying
      BY <1>0, <2>2, <3>1, AmongSteps DEF Trying
    <3> QED BY <2>3, <3>2, <3>3
  <2> QED BY <2>3, <2>4
<1>6. ASSUME Taken PROVE st = "listen" /\ st' = "listen" /\ soerr' = soerr /\ SameEvents
  BY <1>6, QuietKernel DEF Taken, Becomes
<1>7. ASSUME UNCHANGED <<kernelVars, deliveryVars>>
      PROVE  /\ st' = st /\ backlog' = backlog /\ soerr' = soerr /\ SameEvents
             /\ WouldBlock' <=> WouldBlock
  BY <1>7, QuietKernel DEF kernelVars, WouldBlock
<1>8. op[0].id \in Nat
  BY <1>0, SocketAssumption DEF Slots
<1>9. CASE DoAccept
  <2>1. /\ op[0].operation = "accept" /\ Top.k \in {"do", "accept"}
        /\ Top.k = "do" => Top.slot = 0
    BY <1>9 DEF DoAccept, TopIs, LoopsAgain
  <2>2. 0 \in 0..1 /\ -1 \in Int /\ 1 \in Int
    OBVIOUS
  <2>3. CASE WouldBlock /\ Return /\ UNCHANGED <<kernelVars, deliveryVars, op, hist>>
    BY <1>4, <1>7, <2>1, <2>2, <2>3, FinishStep
  <2>4. CASE /\ UNCHANGED <<kernelVars, deliveryVars>>
             /\ op' = [op EXCEPT ![0] = NoOp] /\ Answer(op[0].id, -1)
    <3>1. Dropped
      BY <1>3, <1>8, <2>2, <2>4
    <3> QED BY <1>7, <2>1, <2>2, <2>4, <3>1, FinishStep
  <2>5. CASE Taken /\ op' = [op EXCEPT ![0] = NoOp] /\ Answer(op[0].id, 1)
    <3>1. Dropped
      BY <1>3, <1>8, <2>2, <2>5
    <3> QED BY <1>6, <2>1, <2>2, <2>5, <3>1, FinishStep
  <2>6. CASE Taken /\ PassOn([k |-> "accept"], op[0].id, op[0].repeat) /\ op' = op
    <3>1. [k |-> "accept"] \in Frames /\ [k |-> "accept"].k = "accept"
      BY MadeFrames
    <3>2. (Resolving' => Resolving) /\ Looping' /\ (Trying' => Trying)
      BY <1>5, <1>8, <2>6, <3>1
    <3>3. ~Trying
      BY <2>1 DEF SlotInv, CallsFit
    <3>4. AcceptWakes'
      BY <3>2 DEF AcceptWakes
    <3> QED BY <1>6, <2>1, <2>6, <3>2, <3>3, <3>4, ListenStep
  <2> QED BY <1>9, <2>3, <2>4, <2>5, <2>6 DEF DoAccept, Refused, Finished
<1>10. CASE TryAccept
  <2>1. Top.k = "try"
    BY <1>10 DEF TryAccept, TopIs
  <2>2. Top.id \in Nat
    BY <1>2, <2>1, FrameFacts, SocketAssumption
  <2>3. Trying
    BY <1>0, <1>1, <1>2, <2>1, AmongSteps DEF Trying, Of
  <2>4. op[0].operation # "accept"
    BY <2>3 DEF SlotInv, CallsFit
  <2>5. CASE /\ WouldBlock /\ Return /\ UNCHANGED <<kernelVars, deliveryVars>>
             /\ Stored(0, "accept", Top.repeat, Top.id)
    <3>1. op'[0].operation = "accept" /\ op'[1] = op[1]
      BY <1>0, <2>5 DEF Stored
    <3>2. ~Trying'
      <4>1. Len(stack) \in Nat /\ Len(stack) \in DOMAIN stack /\ DOMAIN stack = 1..Len(stack)
        BY <1>0, <1>1, StackFacts
      <4>2. /\ Len(stack') = Len(stack) - 1 /\ stack' \in Seq(Frames)
            /\ \A n \in 1..(Len(stack) - 1) : stack'[n] = stack[n]
        BY <1>4, <2>5 DEF Returned, Kept
      <4>3. DOMAIN stack' = 1..(Len(stack) - 1)
        BY <4>2, SeqFacts
      <4>4. \A n \in DOMAIN stack' : n \in DOMAIN stack /\ n # Len(stack) /\ stack'[n] = stack[n]
        BY <4>1, <4>2, <4>3
      <4>5. stack[Len(stack)].k = "try"
        BY <2>1 DEF Top
      <4>6. \A n \in DOMAIN stack' : stack'[n].k # "try"
        BY <4>1, <4>4, <4>5 DEF Nested
      <4> QED BY <4>6 DEF Trying, Among, Of
    <3>3. Resolving' => Resolving
      BY <1>4, <2>5 DEF Dropped
    <3>4. WouldBlock' /\ st = "listen" /\ st' = "listen"
      BY <1>7, <2>5 DEF WouldBlock
    <3> QED BY <3>1, <3>2, <3>3, <3>4, ListenStep DEF AcceptWakes
  <2>6. CASE Answer(Top.id, -1) /\ op' = op /\ UNCHANGED <<kernelVars, deliveryVars>>
    <3>1. Dropped
      BY <1>3, <2>2, <2>6
    <3>2. /\ Trying' => Trying
          /\ Resolving' => Resolving
          /\ Dispatching' => Dispatching
          /\ Served(1)' => Served(1)
          /\ (Dispatching => Dispatching') /\ (Served(1) => Served(1)')
      BY <2>1, <3>1 DEF Dropped
    <3>3. Lets(0) /\ Lets(1)
      BY <2>6 DEF Lets
    <3>4. ConnectWakes' /\ AcceptWakes'
      BY <1>7, <2>4, <2>6, <3>2, <3>3, WakesKept
    <3>5. batch'[socket] = batch[socket]
      BY <1>7, <2>6 DEF SameEvents
    <3> QED BY <1>7, <2>6, <3>2, <3>3, <3>4, <3>5, SlotsKept
  <2>7. CASE Taken /\ op' = op /\ (PassOn(Top, Top.id, TRUE) \/ Answer(Top.id, 1))
    <3>1. Resolving' => Resolving
      <4>1. CASE PassOn(Top, Top.id, TRUE)
        BY <1>2, <1>5, <2>1, <2>2, <4>1
      <4>2. CASE Answer(Top.id, 1)
        BY <1>3, <2>2, <4>2 DEF Dropped
      <4> QED BY <2>7, <4>1, <4>2
    <3>2. op'[0].operation \notin {"accept", "read"}
      BY <1>6, <2>4, <2>7 DEF SlotInv, StatesFit
    <3>3. AcceptWakes'
      BY <3>2 DEF AcceptWakes
    <3> QED BY <1>6, <2>7, <3>1, <3>2, <3>3, ListenStep
  <2> QED BY <1>10, <2>5, <2>6, <2>7 DEF TryAccept, Refused
<1> QED BY <1>9, <1>10

\* dispatch() and the kernel.
LEMMA DispatchStart ==
  ASSUME BaseInv, SlotInv, SocketDispatch
  PROVE  SlotInv'
<1> DEFINE g == [k |-> "in"]
<1>0. stack \in Seq(Frames) /\ batch \in [FDs -> SUBSET Events] /\ socket \in FDs
  BY BaseFacts, SocketAssumption DEF DeliveryTypeOK
<1>1. stack = <<>> /\ stack' = <<g>> /\ Deliver(socket) /\ UNCHANGED <<kernelVars, op>>
  BY DEF SocketDispatch, Dispatch, socketVars
<1>2. g \in Frames /\ g.k = "in" /\ stack' = Append(stack, g)
  BY <1>1, MadeFrames
<1> HIDE DEF g
<1>3. Calls(g)
  BY <1>0, <1>2, StackSteps
<1>4. \A S : ~Among(S) /\ (Among(S)' <=> g \in S)
  BY <1>0, <1>1, <1>3, AmongSteps
<1>5. /\ ~Dispatching /\ ~ReadPhase /\ ~Looping /\ ~Served(0) /\ ~Served(1)
      /\ Dispatching' /\ ReadPhase' /\ ~Trying' /\ ~Resolving'
  BY <1>2, <1>4 DEF Dispatching, ReadPhase, Looping, Served, Trying, Resolving, Of
<1>6. /\ batch[socket] # {} /\ target' = socket /\ events' = batch[socket]
      /\ registered' = registered /\ ready' = ready
  BY <1>1 DEF Deliver
<1>7. UNCHANGED <<st, soerr, backlog, op>>
  BY <1>1 DEF kernelVars
<1>8. StatesFit'
  BY <1>7 DEF SlotInv, StatesFit
<1>9. CallsFit'
  BY <1>5 DEF CallsFit
<1>10. ErrorWaits'
  BY <1>6, <1>7 DEF SlotInv, ErrorWaits
<1>11. ConnectWakes'
  BY <1>5, <1>6, <1>7 DEF SlotInv, ConnectWakes
<1>12. AcceptWakes'
  BY <1>5, <1>6, <1>7 DEF SlotInv, AcceptWakes, WouldBlock
<1> QED BY <1>8, <1>9, <1>10, <1>11, <1>12 DEF SlotInv

LEMMA DispatchPhases ==
  ASSUME BaseInv, SlotInv, InPhase \/ OutPhase
  PROVE  SlotInv'
<1>0. stack \in Seq(Frames) /\ stack # <<>> /\ Top \in Frames /\ Top.k \in {"in", "out"}
  BY BaseFacts, TopFacts DEF InPhase, OutPhase, TopIs
<1>1. UNCHANGED <<st, soerr, backlog, op, registered, ready, batch, target, events>>
  BY DEF InPhase, OutPhase, socketVars, kernelVars, deliveryVars
<1>2. Dispatching
  BY <1>0, AmongSteps DEF Dispatching, Of
<1>3. ~Resolving /\ ~(op[1].operation = "connect" /\ st = "connecting")
  BY <1>2 DEF SlotInv, CallsFit, ErrorWaits
<1>4. \A slot \in 0..1 : /\ Serve(slot) \in Frames /\ Serve(slot).k = "do" /\ Serve(slot).slot = slot
                         /\ HangUp(slot) \in Frames /\ HangUp(slot).k = "hup"
                         /\ HangUp(slot).slot = slot
  BY MadeFrames
<1>5. /\ Trying' => Trying
      /\ Resolving' => Resolving
      /\ Served(0) => Served(0)'
      /\ Served(1) => Served(1)'
      /\ Looping => Looping'
      /\ "OUT" \in events => Dispatching' \/ Served(1)'
      /\ ReadPhase /\ events \cap AcceptEvents # {} => ReadPhase' \/ Served(0)'
  <2>1. CASE InPhase
    <3> DEFINE f == [k |-> "out"]
    <3>1. Top.k = "in"
      BY <2>1 DEF InPhase, TopIs
    <3>2. f \in Frames /\ f.k = "out"
      BY MadeFrames
    <3> HIDE DEF f
    <3>3. \A g \in Frames : Replaced(f) \o <<g>> = Append(Replaced(f), g)
      BY <1>0, <3>2, ReplacedIsSeq, AppendIsConcat
    <3>4. \/ stack' = Replaced(f) /\ events \cap AcceptEvents = {}
          \/ \E g \in {Serve(0), HangUp(0)} : stack' = Append(Replaced(f), g)
      BY <1>4, <2>1, <3>3 DEF InPhase, f, AcceptEvents
    <3>5. CASE stack' = Replaced(f) /\ events \cap AcceptEvents = {}
      <4>1. GoesOn(f)
        BY <1>0, <3>2, <3>5, StackSteps
      <4>2. /\ Trying' => Trying
            /\ Resolving' => Resolving
            /\ Dispatching'
            /\ Looping => Looping'
        BY <1>0, <3>1, <3>2, <4>1, AmongSteps DEF Trying, Resolving, Dispatching, Looping, Of
      <4>3. (Served(0) => Served(0)') /\ (Served(1) => Served(1)')
        BY <1>0, <3>1, <4>1, AmongSteps DEF Served
      <4> QED BY <3>5, <4>2, <4>3
    <3>6. ASSUME NEW g \in {Serve(0), HangUp(0)}, stack' = Append(Replaced(f), g)
          PROVE  /\ Trying' => Trying
                 /\ Resolving' => Resolving
                 /\ Dispatching'
                 /\ Looping => Looping'
                 /\ Served(0)' /\ (Served(1) => Served(1)')
      <4>1. g \in Frames /\ g.k \in {"do", "hup"} /\ g.slot = 0
        BY <1>4, <3>6
      <4>2. GoesOnCalls(f, g)
        BY <1>0, <3>2, <3>6, <4>1, StackSteps
      <4>3. /\ Trying' => Trying
            /\ Resolving' => Resolving
            /\ Dispatching'
            /\ Looping => Looping'
        BY <1>0, <3>1, <3>2, <4>1, <4>2, AmongSteps
           DEF Trying, Resolving, Dispatching, Looping, Of
      <4>4. Served(0)' /\ (Served(1) => Served(1)')
        BY <1>0, <3>1, <4>1, <4>2, AmongSteps DEF Served
      <4> QED BY <4>3, <4>4
    <3> QED BY <3>4, <3>5, <3>6
  <2>2. CASE OutPhase
    <3>1. Top.k = "out"
      BY <2>2 DEF OutPhase, TopIs
    <3>2. \/ stack' = Replaced(Serve(1)) \/ stack' = Replaced(HangUp(1))
          \/ stack' = Popped /\ "OUT" \notin events
      BY <2>2 DEF OutPhase, OutFrame
    <3>3. ASSUME NEW f \in {Serve(1), HangUp(1)}, stack' = Replaced(f)
          PROVE  /\ Trying' => Trying
                 /\ Resolving' => Resolving
                 /\ ReadPhase => ReadPhase'
                 /\ Looping => Looping'
                 /\ Served(1)' /\ (Served(0) => Served(0)')
      <4>1. f \in Frames /\ f.k \in {"do", "hup"} /\ f.slot = 1
        BY <1>4, <3>3
      <4>2. GoesOn(f)
        BY <1>0, <3>3, <4>1, StackSteps
      <4>3. /\ Trying' => Trying
            /\ Resolving' => Resolving
            /\ ReadPhase => ReadPhase'
            /\ Looping => Looping'
        BY <1>0, <3>1, <4>1, <4>2, AmongSteps DEF Trying, Resolving, ReadPhase, Looping, Of
      <4>4. Served(1)' /\ (Served(0) => Served(0)')
        BY <1>0, <3>1, <4>1, <4>2, AmongSteps DEF Served
      <4> QED BY <4>3, <4>4
    <3>4. CASE stack' = Popped /\ "OUT" \notin events
      <4>1. Dropped
        BY <1>0, <3>4, StackSteps, DropSteps
      <4> QED BY <3>1, <3>4, <4>1 DEF Dropped
    <3> QED BY <3>2, <3>3, <3>4
  <2> QED BY <2>1, <2>2
<1>6. StatesFit'
  BY <1>1 DEF SlotInv, StatesFit
<1>7. CallsFit'
  BY <1>1, <1>3, <1>5 DEF SlotInv, CallsFit
<1>8. ErrorWaits'
  BY <1>1, <1>3 DEF SlotInv, ErrorWaits
<1>9. ConnectWakes'
  BY <1>1, <1>5 DEF SlotInv, ConnectWakes
<1>10. AcceptWakes'
  BY <1>1, <1>5 DEF SlotInv, AcceptWakes, WouldBlock
<1> QED BY <1>6, <1>7, <1>8, <1>9, <1>10 DEF SlotInv

\* A connection in progress is decided.
LEMMA DecidedStep ==
  ASSUME BaseInv, SlotInv, st = "connecting", op' = op, SameFrames,
         Becomes("connected", FALSE, 0, TRUE) \/ Becomes("failed", TRUE, 0, TRUE)
  PROVE  SlotInv'
<1>1. op[0].operation \notin {"read", "accept"} /\ ~Resolving
  BY DEF SlotInv, StatesFit, CallsFit
<1>2. st' \in {"connected", "failed"} /\ (st' = "failed" => soerr' = TRUE)
  BY DEF Becomes
<1>3. socket \in registered' => socket \in ready'
  <2>1. MaskOf("connected", FALSE, 0) # {} /\ MaskOf("failed", TRUE, 0) # {}
    BY MaskValues
  <2> QED BY <2>1 DEF Becomes, Poll
<1> QED BY <1>1, <1>2, <1>3
        DEF SlotInv, StatesFit, CallsFit, ErrorWaits, ConnectWakes, AcceptWakes, SameFrames

LEMMA KernelMoves ==
  ASSUME BaseInv, SlotInv, PeerConnects \/ ConnectEnds
  PROVE  SlotInv'
<1>0. stack \in Seq(Frames) /\ backlog \in Nat
  BY BaseFacts, SocketAssumption
<1>1. SameFrames /\ op' = op
  BY <1>0, NeutralSteps DEF PeerConnects, ConnectEnds
<1>2. CASE PeerConnects
  <2>1. st = "listen" /\ st' = st /\ socket \in registered' => socket \in ready'
    BY <1>2 DEF PeerConnects, Poll
  <2>2. op[0].operation # "read" /\ (op[0].operation = "accept" => ~Trying)
    BY <1>2 DEF PeerConnects, SlotInv, StatesFit, CallsFit
  <2>3. AcceptWakes'
    BY <1>2, <2>1 DEF PeerConnects, AcceptWakes
  <2> QED BY <1>1, <1>2, <2>2, <2>3, ListenStep DEF PeerConnects, SameFrames
<1>3. CASE ConnectEnds
  BY <1>1, <1>3, DecidedStep DEF ConnectEnds
<1> QED BY <1>2, <1>3

\* The calls of the usual user.
LEMMA UsualUser ==
  ASSUME BaseInv, BaseInv', HolderInv, Nested, SlotInv, Habits = {}, SocketUser
  PROVE  SlotInv'
<1>0. stack \in Seq(Frames) /\ op \in [0..1 -> Slots] /\ Len(hist) <= MaxOps
  BY BaseFacts DEF Slots
<1>1. UserTop
  BY DEF SocketUser, SocketOpen, SocketClose, Listen, Shutdown, Connect, ConnectNow, Read,
         Cancel, MayCancel, ByHost, Accept, MayStart, UserCode, AtRest, TopIs, UserTop
<1>2. ~ReadPhase /\ ~Resolving /\ ~Served(0) /\ ~Served(1)
  BY <1>0, <1>1, UserFrames
<1>3. /\ op[0].operation \in {"none", "accept", "read"}
      /\ op[1].operation \in {"none", "connect"}
  BY DEF HolderInv, SlotsHold
<1>4. ASSUME Tidy
      PROVE  /\ batch[socket] = {} /\ ~Dispatching /\ op[0].operation # "accept"
             /\ st = "none" => op[0].operation = "none" /\ op[1].operation = "none"
  BY <1>4 DEF Tidy, StaleEvents, Dispatching, Among, Of
<1>5. ASSUME stack' = stack PROVE SameFrames
  BY <1>0, <1>5, NeutralSteps
<1>6. st = "none" <=> socket \notin open
  BY BaseFacts DEF KernelInv
<1>7. CASE SocketOpen
  <2>1. Tidy /\ op' = op /\ SameFrames /\ \E s : Created(s)
    BY <1>5, <1>7 DEF SocketOpen
  <2>2. st = "none"
    BY <1>6, <2>1 DEF Created, Open
  <2>3. op[0].operation = "none" /\ op[1].operation = "none"
    BY <1>4, <2>1, <2>2
  <2> QED BY <1>2, <2>1, <2>3 DEF SlotInv, StatesFit, CallsFit, ErrorWaits, ConnectWakes,
                                  AcceptWakes, SameFrames
<1>8. CASE SocketClose
  <2>1. op' = op /\ SameFrames /\ st' = "none" /\ socket \notin registered'
    BY <1>5, <1>8 DEF SocketClose, Shut
  <2> QED BY <1>2, <2>1 DEF SlotInv, StatesFit, CallsFit, ErrorWaits, ConnectWakes,
                            AcceptWakes, SameFrames
<1>shut. CASE Shutdown /\ st = "connecting"
  <2>1. op' = op /\ SameFrames /\ Becomes("failed", TRUE, 0, TRUE)
    BY <1>5, <1>shut DEF Shutdown
  <2> QED BY <1>shut, <2>1, DecidedStep
<1>9. CASE Listen \/ (Shutdown /\ st # "connecting")
  <2>1. op' = op /\ SameFrames /\ st \in {"fresh", "listen"} /\ st' \in {"fresh", "listen"}
    BY <1>5, <1>9 DEF Listen, Shutdown, Becomes
  <2>2. op[0].operation # "read" /\ op[1].operation # "connect"
    BY <2>1 DEF SlotInv, StatesFit
  <2>3. AcceptWakes'
    <3>1. CASE Listen
      BY <3>1 DEF Listen, Becomes, AcceptWakes, WouldBlock
    <3>2. CASE Shutdown
      <4>1. MaskOf("fresh", FALSE, 0) # {}
        BY MaskValues
      <4> QED BY <1>9, <2>1, <3>2, <4>1 DEF Shutdown, Becomes, Poll, AcceptWakes
    <3> QED BY <1>9, <3>1, <3>2
  <2> QED BY <1>2, <2>1, <2>2, <2>3 DEF SlotInv, StatesFit, CallsFit, ErrorWaits,
                                        ConnectWakes, SameFrames
<1>10. ASSUME Tidy, op[1].operation = "none", NEW res \in Attempts, Attempted(res)
       PROVE  /\ op[0].operation = "read" => st' = "connected"
              /\ res[2] = "EINPROGRESS" => st' = "connecting" /\ op[0].operation = "none"
              /\ batch'[socket] = {}
  <2>1. op[0].operation = "read" => st = "connected"
    BY <1>4, <1>10 DEF SlotInv, StatesFit
  <2>2. st' = res[1] /\ batch' = batch
    BY <1>10 DEF Attempted, Created, Becomes, Open, Poll
  <2>3. st = "connected" => res[1] = "connected" /\ res[2] # "EINPROGRESS"
    BY <1>10 DEF Attempts, ConnectResults
  <2>4. res[2] = "EINPROGRESS" => res[1] = "connecting"
    BY <1>10 DEF Attempts, ConnectResults
  <2> QED BY <1>3, <1>4, <1>10, <2>1, <2>2, <2>3, <2>4
<1>11. ASSUME Tidy, op[1].operation = "none", op' = op, SameFrames,
              op[0].operation = "read" => st' = "connected"
       PROVE  SlotInv'
  <2>1. op[0].operation # "accept"
    BY <1>4, <1>11
  <2> QED BY <1>2, <1>11, <2>1 DEF SlotInv, StatesFit, CallsFit, ErrorWaits, ConnectWakes,
                                   AcceptWakes, SameFrames
<1>12. CASE ConnectNow
  <2>1. PICK res \in Attempts : Attempted(res)
    BY <1>12 DEF ConnectNow
  <2>2. Tidy /\ op[1].operation = "none" /\ op' = op /\ SameFrames
    BY <1>5, <1>12 DEF ConnectNow
  <2> QED BY <1>10, <1>11, <2>1, <2>2
<1>13. CASE Connect
  <2>1. Tidy /\ op[1].operation = "none" /\ Len(hist) < MaxOps
    BY <1>13 DEF Connect, MayStart
  <2>2. PICK res \in Attempts :
          /\ Attempted(res)
          /\ IF res[2] = "EINPROGRESS"
               THEN Stored(1, "connect", FALSE, NewId) /\ stack' = stack
               ELSE /\ stack' = Append(stack, UserFrame(NewId, IF res[2] = "0" THEN 0 ELSE -1))
                    /\ op' = op
    BY <1>13 DEF Connect
  <2>3. CASE res[2] = "EINPROGRESS"
    <3>1. op'[1].operation = "connect" /\ op'[0] = op[0] /\ SameFrames
      BY <1>0, <1>5, <2>2, <2>3 DEF Stored
    <3>2. st' = "connecting" /\ op[0].operation = "none" /\ batch'[socket] = {} /\ ~Dispatching
      BY <1>4, <1>10, <2>1, <2>2, <2>3
    <3> QED BY <1>2, <3>1, <3>2 DEF SlotInv, StatesFit, CallsFit, ErrorWaits, ConnectWakes,
                                    AcceptWakes, SameFrames
  <2>4. CASE res[2] # "EINPROGRESS"
    <3> DEFINE g == UserFrame(NewId, IF res[2] = "0" THEN 0 ELSE -1)
    <3>1. NewId \in Nat
      <4>1. hist \in Seq(Entries)
        BY BaseFacts
      <4>2. Len(hist) \in Nat
        BY <4>1, SeqFacts
      <4> QED BY <4>2 DEF NewId
    <3>2. g \in Frames /\ g.k = "user" /\ stack' = Append(stack, g) /\ op' = op
      BY <2>2, <2>4, <3>1, MadeFrames
    <3> HIDE DEF g
    <3>3. SameFrames
      BY <1>0, <3>2, StackSteps, NeutralSteps
    <3> QED BY <1>10, <1>11, <2>1, <2>2, <3>2, <3>3
  <2> QED BY <2>3, <2>4
<1>14. CASE Read
  <2>1. /\ st = "connected" /\ op[0].operation = "none" /\ stack' = stack
        /\ Stored(0, "read", FALSE, NewId) /\ UNCHANGED <<kernelVars, deliveryVars>>
    BY <1>14 DEF Read
  <2>2. op'[0].operation = "read" /\ op'[1] = op[1] /\ SameFrames
    BY <1>0, <1>5, <2>1 DEF Stored
  <2>3. UNCHANGED <<st, soerr, registered, ready, batch, target, events>>
    BY <2>1 DEF kernelVars, deliveryVars
  <2> QED BY <1>2, <2>1, <2>2, <2>3 DEF SlotInv, StatesFit, CallsFit, ErrorWaits, ConnectWakes,
                                        AcceptWakes, SameFrames
<1>15. ASSUME NEW slot \in 0..1, Cancel(slot) PROVE SlotInv'
  <2>1. /\ op' = [op EXCEPT ![slot] = NoOp] /\ stack' = stack
        /\ UNCHANGED <<kernelVars, deliveryVars>>
    BY <1>15 DEF Cancel, Finished
  <2>2. Lets(0) /\ Lets(1)
    BY <1>0, <2>1 DEF Lets, NoOp
  <2>3. st' = st /\ backlog' = backlog /\ soerr' = soerr /\ SameEvents
    BY <2>1, QuietKernel DEF kernelVars
  <2>4. SameFrames
    BY <1>5, <2>1
  <2>5. ConnectWakes' /\ AcceptWakes'
    BY <2>2, <2>3, <2>4, WakesKept DEF SameFrames
  <2>6. batch'[socket] = batch[socket]
    BY <2>3 DEF SameEvents
  <2> QED BY <2>2, <2>3, <2>4, <2>5, <2>6, SlotsKept DEF SameFrames
<1>16. ASSUME NEW g \in Frames, g.k \in Holding, stack' = Append(stack, g)
       PROVE  /\ Dispatching' <=> Dispatching
              /\ Looping' <=> Looping
              /\ Trying' <=> Trying \/ g.k = "try"
              /\ Resolving' <=> Resolving \/ g.k = "hosts"
              /\ (Served(0)' <=> Served(0)) /\ (Served(1)' <=> Served(1))
  <2>1. Calls(g)
    BY <1>0, <1>16, StackSteps
  <2>2. /\ Dispatching' <=> Dispatching
        /\ Looping' <=> Looping
        /\ Trying' <=> Trying \/ g.k = "try"
        /\ Resolving' <=> Resolving \/ g.k = "hosts"
    BY <1>0, <1>16, <2>1, AmongSteps DEF Dispatching, Looping, Trying, Resolving, Of, Holding
  <2>3. (Served(0)' <=> Served(0)) /\ (Served(1)' <=> Served(1))
    BY <1>0, <1>16, <2>1, AmongSteps DEF Served, Holding
  <2> QED BY <2>2, <2>3
<1>17. Len(hist) < MaxOps => NewId \in 1..MaxOps
  <2>1. hist \in Seq(Entries)
    BY BaseFacts
  <2>2. Len(hist) \in Nat
    BY <2>1, SeqFacts
  <2> QED BY <2>2, SocketAssumption DEF NewId
<1>18. ASSUME NEW form \in Forms, ByHost(form) PROVE SlotInv'
  <2>1. /\ Tidy /\ st = "none" /\ UNCHANGED <<op, kernelVars, deliveryVars>> /\ Len(hist) < MaxOps
    BY <1>18 DEF ByHost, MayStart
  <2>2. PICK n \in 1..MaxHosts :
          stack' = Append(stack, [k |-> "hosts", form |-> form, left |-> n, id |-> NewId])
    BY <1>18 DEF ByHost
  <2> DEFINE g == [k |-> "hosts", form |-> form, left |-> n, id |-> NewId]
  <2>3. g \in Frames /\ g.k = "hosts" /\ stack' = Append(stack, g)
    <3>1. n \in 0..MaxHosts /\ NewId \in 1..MaxOps
      BY <1>17, <2>1, SocketAssumption
    <3>2. g \in Frames
      BY <3>1, MadeFrames
    <3> QED BY <2>2, <3>2
  <2> HIDE DEF g
  <2>4. Dispatching' <=> Dispatching
    BY <1>16, <2>3 DEF Holding
  <2>5. /\ st' = "none" /\ op'[0].operation = "none" /\ op'[1].operation = "none"
        /\ batch'[socket] = {} /\ ~Dispatching'
    BY <1>4, <2>1, <2>4 DEF kernelVars, deliveryVars
  <2> QED BY <2>5 DEF SlotInv, StatesFit, CallsFit, ErrorWaits, ConnectWakes, AcceptWakes
<1>19. ASSUME NEW repeat \in BOOLEAN, Accept(repeat) PROVE SlotInv'
  <2> DEFINE g == [k |-> "try", repeat |-> repeat, id |-> NewId]
  <2>1. /\ Len(hist) < MaxOps /\ op[0].operation = "none"
        /\ UNCHANGED <<op, kernelVars, deliveryVars>> /\ stack' = Append(stack, g)
    BY <1>19 DEF Accept, MayStart
  <2>2. g \in Frames /\ g.k = "try"
    BY <1>17, <2>1, MadeFrames
  <2> HIDE DEF g
  <2>3. /\ Dispatching' <=> Dispatching
        /\ Resolving' <=> Resolving
        /\ Served(1)' <=> Served(1)
    BY <1>16, <2>1, <2>2 DEF Holding
  <2>4. UNCHANGED <<st, soerr, op, registered, ready, batch, target, events>>
    BY <2>1 DEF kernelVars, deliveryVars
  <2> QED BY <2>1, <2>3, <2>4 DEF SlotInv, StatesFit, CallsFit, ErrorWaits, ConnectWakes,
                                  AcceptWakes
<1> QED BY <1>7, <1>8, <1>9, <1>shut, <1>12, <1>13, <1>14, <1>15, <1>18, <1>19 DEF SocketUser

\* The loop over the addresses of a host.
LEMMA HostMoves ==
  ASSUME BaseInv, Nested, SlotInv, HostStep
  PROVE  SlotInv'
<1>0. /\ stack \in Seq(Frames) /\ op \in [0..1 -> Slots]
      /\ stack # <<>> /\ Top.k = "hosts"
  BY BaseFacts DEF Slots, HostStep, TopIs
<1>1. Top \in Frames /\ Top.id \in Nat
  BY <1>0, TopFacts, FrameFacts, SocketAssumption
<1>2. Resolving
  BY <1>0, <1>1, AmongSteps DEF Resolving, Of
<1>3. /\ st = "none" /\ op[0].operation = "none" /\ op[1].operation = "none"
      /\ batch[socket] = {} /\ ~Dispatching
  BY <1>2 DEF SlotInv, CallsFit
<1>4. ~Served(1)
  <2>1. {h \in Frames : h.k \in {"do", "hup"} /\ h.slot = 1} \subseteq Of(Innermost)
    BY DEF Of, Innermost
  <2>2. Served(1) => Top \in {h \in Frames : h.k \in {"do", "hup"} /\ h.slot = 1}
    BY <1>0, <2>1, OnTop DEF Served
  <2> QED BY <1>0, <2>2
<1>5. ASSUME Returned \/ \E f \in Frames : f.k = "user" /\ GoesOn(f)
      PROVE  ~Resolving' /\ ~Dispatching' /\ ~Served(1)'
  <2>1. ~Dispatching' /\ ~Served(1)'
    BY <1>0, <1>3, <1>4, <1>5, DropSteps DEF Dropped
  <2>2. Len(stack) \in Nat /\ DOMAIN stack = 1..Len(stack)
    BY <1>0, StackFacts
  <2>3. stack' \in Seq(Frames)
    BY <1>5 DEF Returned, GoesOn, Kept
  <2>4. Len(stack') \in Nat /\ DOMAIN stack' = 1..Len(stack')
    BY <2>3, SeqFacts
  <2>5. \A n \in DOMAIN stack' :
          \/ n \in DOMAIN stack /\ n < Len(stack) /\ stack'[n] = stack[n]
          \/ stack'[n].k = "user"
    <3>1. CASE Returned
      <4>1. Len(stack') = Len(stack) - 1 /\ \A n \in 1..(Len(stack) - 1) : stack'[n] = stack[n]
        BY <3>1 DEF Returned, Kept
      <4> QED BY <2>2, <2>4, <4>1
    <3>2. ASSUME NEW f \in Frames, f.k = "user", GoesOn(f)
          PROVE  \A n \in DOMAIN stack' :
                   \/ n \in DOMAIN stack /\ n < Len(stack) /\ stack'[n] = stack[n]
                   \/ stack'[n].k = "user"
      <4>1. /\ Len(stack') = Len(stack) /\ stack'[Len(stack)] = f
            /\ \A n \in 1..(Len(stack) - 1) : stack'[n] = stack[n]
        BY <3>2 DEF GoesOn, Kept
      <4>2. \A n \in DOMAIN stack' : n = Len(stack) \/ (n \in 1..(Len(stack) - 1) /\ n < Len(stack))
        BY <2>2, <2>4, <4>1
      <4> QED BY <2>2, <3>2, <4>1, <4>2
    <3> QED BY <1>5, <3>1, <3>2
  <2>6. \A n \in DOMAIN stack' : stack'[n].k # "hosts"
    BY <2>5 DEF Nested, Innermost
  <2> QED BY <2>1, <2>6 DEF Resolving, Among, Of
<1>6. Return => Returned
  BY <1>0, StackSteps DEF Return
<1>7. CASE /\ Top.left > 0 /\ stack' = Replaced([Top EXCEPT !.left = @ - 1])
           /\ UNCHANGED <<kernelVars, op, deliveryVars>>
  <2> DEFINE f == [Top EXCEPT !.left = @ - 1]
  <2>1. Top \in [k : {"hosts"}, form : Forms, left : 0..MaxHosts, id : 1..MaxOps]
    BY <1>0, <1>1 DEF Frames
  <2>2. /\ f \in [k : {"hosts"}, form : Forms, left : 0..MaxHosts, id : 1..MaxOps]
        /\ f.k = "hosts"
    BY <1>7, <2>1, SocketAssumption
  <2>3. f \in Frames
    BY <2>2 DEF Frames
  <2> HIDE DEF f
  <2>4. GoesOn(f)
    BY <1>0, <1>7, <2>3, StackSteps DEF f
  <2>5. ~Dispatching'
    BY <1>0, <1>3, <2>2, <2>4, AmongSteps DEF Dispatching, Of
  <2>6. /\ st' = "none" /\ op'[0].operation = "none" /\ op'[1].operation = "none"
        /\ batch'[socket] = {}
    BY <1>3, <1>7 DEF kernelVars, deliveryVars
  <2> QED BY <2>5, <2>6 DEF SlotInv, StatesFit, CallsFit, ErrorWaits, ConnectWakes, AcceptWakes
<1>8. ASSUME op' = op, ~Resolving'
      PROVE  SlotInv'
  BY <1>3, <1>8 DEF SlotInv, StatesFit, CallsFit, ErrorWaits, ConnectWakes, AcceptWakes
<1>9. CASE HostBinds
  BY <1>5, <1>6, <1>8, <1>9 DEF HostBinds
<1>10. CASE HostConnects
  <2>1. CASE Answer(Top.id, 0)
    <3>1. UserFrame(Top.id, 0) \in Frames /\ UserFrame(Top.id, 0).k = "user"
      BY <1>1, MadeFrames
    <3>2. GoesOn(UserFrame(Top.id, 0))
      BY <1>0, <2>1, <3>1, StackSteps DEF Answer
    <3> QED BY <1>5, <1>8, <1>10, <3>1, <3>2 DEF HostConnects
  <2> QED BY <1>5, <1>6, <1>8, <1>10, <2>1 DEF HostConnects
<1>11. CASE ConnectHost
  <2>1. ~Resolving' /\ ~Dispatching' /\ ~Served(1)'
    BY <1>5, <1>6, <1>11 DEF ConnectHost
  <2>2. op'[1].operation = "connect" /\ op'[0].operation = "none"
    BY <1>0, <1>3, <1>11 DEF ConnectHost, Stored
  <2>3. st' = "connecting" /\ batch'[socket] = {}
    BY <1>3, <1>11 DEF ConnectHost, Created, Open
  <2> QED BY <2>1, <2>2, <2>3 DEF SlotInv, StatesFit, CallsFit, ErrorWaits, ConnectWakes,
                                  AcceptWakes
<1>12. CASE Return /\ op' = op
  BY <1>5, <1>6, <1>8, <1>12
<1> QED BY <1>7, <1>9, <1>10, <1>11, <1>12 DEF HostStep

LEMMA UsualSocket ==
  ASSUME BaseInv, BaseInv', HolderInv, Nested, SlotInv, Habits = {}, SocketNext
  PROVE  SlotInv'
BY ServeSteps, AcceptSteps, DispatchStart, DispatchPhases, KernelMoves, UsualUser, HostMoves
   DEF SocketNext, SocketLibrary

\* The timer, the loop and the registration, as the socket sees them.
LEMMA UsualOthers ==
  ASSUME BaseInv, BaseInv', SlotInv, Others
  PROVE  SlotInv'
<1> USE ReactorAssumption, TimerAssumption, SocketAssumption
<1>0. /\ stack \in Seq(Frames) /\ batch \in [FDs -> SUBSET Events]
      /\ mask \in [FDs -> SUBSET Events] /\ ready \subseteq registered
  BY BaseFacts DEF DeliveryTypeOK
<1>1. UNCHANGED <<st, soerr, backlog, op>>
  BY DEF Others, socketVars, kernelVars
<1>2. SameFrames
  BY <1>0, OtherControl, NeutralSteps DEF OtherNest
<1>3. (WouldBlock' <=> WouldBlock) /\ StatesFit'
  BY <1>1 DEF WouldBlock, SlotInv, StatesFit
<1>4. ASSUME batch'[socket] = {} \/ batch'[socket] = batch[socket]
      PROVE  CallsFit' /\ ErrorWaits'
  BY <1>1, <1>2, <1>4 DEF SlotInv, CallsFit, ErrorWaits, SameFrames
<1>5. ASSUME SameEvents PROVE SlotInv'
  <2>1. Lets(0) /\ Lets(1)
    BY <1>1 DEF Lets
  <2>2. ConnectWakes' /\ AcceptWakes'
    BY <1>1, <1>2, <1>5, <2>1, WakesKept DEF SameFrames
  <2>3. batch'[socket] = batch[socket]
    BY <1>5 DEF SameEvents
  <2> QED BY <1>3, <1>4, <2>2, <2>3 DEF SlotInv
<1>6. ASSUME NEW fd \in FDs, fd # socket,
             \/ \E E, edge : Poll(fd, E, edge) \/ Open(fd, E)
             \/ Shut(fd) \/ Attach(fd)
             \/ Detach(fd) /\ target # fd
      PROVE  SameEvents
  BY <1>0, <1>6 DEF Poll, Open, Shut, Attach, Detach, SameEvents
<1>7. ASSUME stack = <<>>, socket \in registered' <=> socket \in registered,
             socket \in ready => socket \in ready', batch'[socket] = batch[socket]
      PROVE  SlotInv'
  <2>1. ~Dispatching /\ ~ReadPhase /\ ~Served(0) /\ ~Served(1) /\ ~Looping
    BY <1>0, <1>7, AmongSteps DEF Dispatching, ReadPhase, Served, Looping
  <2>2. ConnectWakes' /\ AcceptWakes'
    BY <1>1, <1>3, <1>7, <2>1 DEF SlotInv, ConnectWakes, AcceptWakes
  <2> QED BY <1>3, <1>4, <1>7, <2>2 DEF SlotInv
<1>8. CASE Expire \/ SetInterval \/ TimerClose \/ TimerOpen \/ SetCallback \/ Tick \/ Returns
  <2>1. \/ \E E, edge : Poll(timer, E, edge) \/ Open(timer, E)
        \/ Shut(timer) \/ UNCHANGED deliveryVars
    BY <1>8 DEF Expire, SetInterval, setInterval, TimerClose, TimerOpen, SetCallback, Tick,
                Returns, CallbackReturn
  <2> QED BY <1>5, <1>6, <2>1, QuietKernel
<1>9. CASE TimerDispatch
  <2>1. stack = <<>> /\ Deliver(timer)
    BY <1>9 DEF TimerDispatch, Dispatch
  <2> QED BY <1>0, <1>7, <2>1 DEF Deliver
<1>10. CASE LoopSteps
  <2>1. CASE DispatchReturns
    BY <1>7, <2>1 DEF DispatchReturns, Finish
  <2>2. ASSUME NEW fd \in FDs, WaitFor(fd) PROVE SlotInv'
    <3>1. PICK S \in SUBSET FDs : Harvest(S)
      BY <2>2 DEF WaitFor
    <3>2. stack = <<>> /\ batch[socket] = {} /\ registered' = registered
      BY <2>2, <3>1 DEF WaitFor, Harvest
    <3>3. CASE socket \notin S
      BY <1>7, <3>1, <3>2, <3>3 DEF Harvest
    <3>4. CASE socket \in S
      <4>1. socket \in ready /\ batch'[socket] = mask[socket]
        BY <3>1, <3>4 DEF Harvest
      <4>2. st \notin {"none", "connecting"}
        BY <4>1, SocketMask
      <4>3. CallsFit' /\ ErrorWaits'
        BY <1>1, <1>2, <4>2 DEF SlotInv, CallsFit, ErrorWaits, SameFrames
      <4>4. ConnectWakes'
        BY <1>1, <4>1, SocketMask DEF ConnectWakes
      <4>5. AcceptWakes'
        BY <1>1, <1>3, <4>1, <4>2, SocketMask DEF SlotInv, StatesFit, AcceptWakes
      <4> QED BY <1>3, <4>3, <4>4, <4>5 DEF SlotInv
    <3> QED BY <3>3, <3>4
  <2> QED BY <1>10, <2>1, <2>2 DEF LoopSteps
<1>11. CASE Registration
  <2>1. PICK fd \in FDs : UserCode /\ (Attach(fd) \/ Detach(fd))
    BY <1>11 DEF Registration, Add, Remove
  <2>2. CASE fd = socket /\ Attach(fd)
    <3>1. batch' = batch /\ (mask[socket] # {} => socket \in ready')
      BY <2>2 DEF Attach
    <3>2. ConnectWakes'
      BY <1>1, <3>1, SocketMask DEF ConnectWakes
    <3>3. AcceptWakes'
      <4>1. socket \in open
        BY <2>2 DEF Attach
      <4>2. st # "none"
        BY <4>1, BaseFacts DEF KernelInv
      <4> QED BY <1>1, <1>3, <3>1, <4>2, SocketMask DEF SlotInv, StatesFit, AcceptWakes
    <3> QED BY <1>3, <1>4, <3>1, <3>2, <3>3 DEF SlotInv
  <2>3. CASE fd = socket /\ Detach(fd)
    <3>1. batch'[socket] = {} /\ socket \notin registered'
      BY <1>0, <2>3 DEF Detach
    <3>2. ConnectWakes' /\ AcceptWakes'
      BY <3>1 DEF ConnectWakes, AcceptWakes
    <3> QED BY <1>3, <1>4, <3>1, <3>2 DEF SlotInv
  <2>4. CASE fd # socket /\ (Attach(fd) \/ (Detach(fd) /\ target # fd))
    BY <1>5, <1>6, <2>4
  <2>5. CASE fd # socket /\ Detach(fd) /\ target = fd
    <3>1. /\ target' = target /\ target # socket /\ batch'[socket] = batch[socket]
          /\ socket \in registered' <=> socket \in registered
          /\ socket \in ready' <=> socket \in ready
      BY <1>0, <2>5 DEF Detach
    <3>2. ConnectWakes' /\ AcceptWakes'
      BY <1>1, <1>2, <1>3, <3>1 DEF SlotInv, ConnectWakes, AcceptWakes, SameFrames
    <3> QED BY <1>3, <1>4, <3>1, <3>2 DEF SlotInv
  <2> QED BY <2>1, <2>2, <2>3, <2>4, <2>5
<1> QED BY <1>8, <1>9, <1>10, <1>11 DEF Others, TimerNext, TimerLibrary

LEMMA UsualInit == BaseInv /\ Init => UsualInv
<1> SUFFICES ASSUME BaseInv, Init PROVE UsualInv
  OBVIOUS
<1>1. stack = <<>> /\ hist = <<>> /\ op[0].operation = "none" /\ op[1].operation = "none"
  BY DEF Init, SocketInit, NoOp
<1>2. Nested /\ NoneForgotten
  BY <1>1 DEF Nested, NoneForgotten
<1>3. ~Resolving
  BY <1>1 DEF Resolving, Among
<1> QED BY <1>1, <1>2, <1>3 DEF UsualInv, SlotInv, StatesFit, CallsFit, ErrorWaits,
                                ConnectWakes, AcceptWakes

LEMMA UsualNext ==
  ASSUME Habits = {}
  PROVE  BaseInv /\ HolderInv /\ LoopInv /\ UsualInv /\ [Next]_vars => UsualInv'
<1> SUFFICES ASSUME BaseInv, HolderInv, LoopInv, UsualInv, [Next]_vars PROVE UsualInv'
  OBVIOUS
<1>0. Orderly
  BY DEF Orderly
<1>1. BaseInv' /\ Move /\ Nested /\ SlotInv /\ NoneForgotten
  BY <1>0, BaseNext, NextMoves DEF UsualInv
<1>2. CASE Next
  <2>1. Nested'
    BY <1>0, <1>1, <1>2, NextSplit, ControlSteps, OtherControl, NestedNext DEF Control
  <2>2. SlotInv'
    BY <1>1, <1>2, NextSplit, UsualSocket, UsualOthers
  <2>3. Parks => ~Busy(IF Top.k = "try" THEN 0 ELSE 1)
    <3>1. ASSUME Parks PROVE ~Busy(IF Top.k = "try" THEN 0 ELSE 1)
      <4>1. stack \in Seq(Frames) /\ stack # <<>>
        BY <3>1, BaseFacts DEF Parks, LessTop
      <4>2. Top \in Frames
        BY <4>1, TopFacts
      <4>3. CASE Top.k = "try" /\ WouldBlock
        <5>1. Trying
          BY <4>1, <4>2, <4>3, AmongSteps DEF Trying, Of
        <5>2. op[0].operation \notin {"accept", "read"}
          BY <1>1, <4>3, <5>1 DEF SlotInv, CallsFit, StatesFit, WouldBlock
        <5> QED BY <4>3, <5>2 DEF HolderInv, SlotsHold, Busy
      <4>4. CASE Top.k = "hosts"
        <5>1. Resolving
          BY <4>1, <4>2, <4>4, AmongSteps DEF Resolving, Of
        <5> QED BY <1>1, <4>4, <5>1 DEF SlotInv, CallsFit, Busy
      <4> QED BY <3>1, <4>3, <4>4 DEF Parks
    <3> QED BY <3>1
  <2>4. NoneForgotten'
    BY <1>1, <2>3, ForgottenMove
  <2> QED BY <2>1, <2>2, <2>4 DEF UsualInv
<1>3. CASE UNCHANGED vars
  <2>1. UNCHANGED <<st, soerr, backlog, op, hist, stack, registered, ready, batch, target, events>>
    BY <1>3 DEF vars, socketVars, kernelVars, deliveryVars
  <2>2. Nested' /\ NoneForgotten'
    BY <1>1, <2>1 DEF Nested, NoneForgotten
  <2>3. SameFrames
    BY <2>1, BaseFacts, NeutralSteps
  <2>4. SlotInv'
    BY <1>1, <2>1, <2>3 DEF SlotInv, StatesFit, CallsFit, ErrorWaits, ConnectWakes, AcceptWakes,
                            WouldBlock, SameFrames
  <2> QED BY <2>2, <2>4 DEF UsualInv
<1> QED BY <1>2, <1>3

\* Until it is ended or given up, an operation of the usual user stays in its
\* slot or in a call in progress: no later call takes its slot.
THEOREM NothingForgotten ==
  ASSUME Habits = {}
  PROVE  Spec => []NoneForgotten
<1>1. UsualInv => NoneForgotten
  BY DEF UsualInv
<1>2. BaseInv /\ HolderInv /\ LoopInv /\ UsualInv /\ [Next]_vars => UsualInv'
  BY UsualNext
<1>3. BaseInv /\ HolderInv /\ LoopInv /\ [Next]_vars => HolderInv' /\ LoopInv'
  BY HolderNext DEF Orderly
<1> QED BY <1>1, <1>2, <1>3, BaseInit, BaseNext, HolderInit, LoopInit, UsualInit, PTL DEF Spec

\* When the loop is about to sleep, no connect of the usual user waits for a
\* connection that is decided, and no accept for one that has arrived.
THEOREM NobodySleeps ==
  ASSUME Habits = {}
  PROVE  Spec => []NoSleeper
<1>1. BaseInv /\ UsualInv => NoSleeper
  <2> SUFFICES ASSUME BaseInv, UsualInv, Quiet(socket), socket \in registered
               PROVE  /\ op[1].operation = "connect" => st = "connecting"
                      /\ op[0].operation = "accept" => WouldBlock
    BY DEF NoSleeper
  <2>1. stack = <<>> /\ socket \notin ready /\ batch[socket] = {}
    BY DEF Quiet, AtRest
  <2>2. ~Dispatching /\ ~ReadPhase /\ ~Looping /\ ~Served(0) /\ ~Served(1)
    BY <2>1, BaseFacts, AmongSteps DEF Dispatching, ReadPhase, Looping, Served
  <2>3. st # "none"
    BY SocketMask
  <2> QED BY <2>1, <2>2, <2>3 DEF UsualInv, SlotInv, StatesFit, ConnectWakes, AcceptWakes
<1>2. BaseInv /\ HolderInv /\ LoopInv /\ UsualInv /\ [Next]_vars => UsualInv'
  BY UsualNext
<1>3. BaseInv /\ HolderInv /\ LoopInv /\ [Next]_vars => HolderInv' /\ LoopInv'
  BY HolderNext DEF Orderly
<1> QED BY <1>1, <1>2, <1>3, BaseInit, BaseNext, HolderInit, LoopInit, UsualInit, PTL DEF Spec

\* What the callback of a connect is told, in the two places that call it.
LEMMA TruthStep ==
  ASSUME BaseInv, HolderInv, UsualInv, Next,
         NEW id \in DOMAIN hist, hist[id].o = "connect", Answered(id)
  PROVE  (stack'[Len(stack')].r = 0) = (st' = "connected")
<1>0. stack \in Seq(Frames) /\ hist \in Seq(Entries) /\ op \in [0..1 -> Slots]
  BY BaseFacts DEF Slots
<1>1. id \in 1..Len(hist)
  BY <1>0, SeqFacts
<1>2. hist' # hist
  BY DEF Answered
<1>3. ASSUME NEW e, Ended(e) PROVE e = id
  <2>1. \A n \in 1..Len(hist) : n # e => hist'[n] = hist[n]
    BY <1>0, <1>3, EndedFacts, Zenon
  <2> QED BY <1>1, <2>1 DEF Answered
<1>4. ASSUME NEW e, GivenUp(e) PROVE FALSE
  <2>1. \A n \in 1..Len(hist) : hist'[n].finals = hist[n].finals
    BY <1>0, <1>4, GivenUpFacts, Zenon
  <2> QED BY <1>1, <2>1 DEF Answered
<1>5. ASSUME NEW o \in {"accept", "read"} \cup Forms, NEW finals \in 0..1, Started(o, finals)
      PROVE  FALSE
  <2>1. \A n \in 1..Len(hist) : hist'[n] = hist[n]
    BY <1>5, StartedNew
  <2> QED BY <1>1, <2>1 DEF Answered
<1>6. ASSUME NEW slot \in 0..1, op[slot].operation \in {"accept", "read"}, Ended(op[slot].id)
      PROVE  FALSE
  <2>1. op[slot].id = id
    BY <1>3, <1>6
  <2> QED BY <1>6, <2>1 DEF HolderInv, SlotsHold, Busy
<1>7. ASSUME stack # <<>>, Top.k \in Holding
      PROVE  hist[Top.id].o = IF Top.k = "try" THEN "accept" ELSE Top.form
  BY <1>0, <1>7, StackFacts DEF HolderInv, CallsHold, Holds, HeldForm, Top
<1>8. ASSUME stack # <<>>, Top.k \in {"do", "hup"} PROVE Top \in Frames /\ Top.slot \in 0..1
  BY <1>0, <1>8, TopFacts, FrameFacts
<1>9. ASSUME stack # <<>>, NEW r \in Int, NEW e \in Nat, Answer(e, r)
      PROVE  stack'[Len(stack')].r = r
  <2>1. /\ UserFrame(e, r) \in Frames /\ UserFrame(e, r).r = r
    BY MadeFrames
  <2>2. GoesOn(UserFrame(e, r))
    BY <1>0, <1>9, <2>1, StackSteps DEF Answer
  <2> QED BY <2>1, <2>2 DEF GoesOn
<1>10. ~Others
  BY <1>2 DEF Others, socketVars
<1>11. ~(PeerConnects \/ ConnectEnds \/ SocketDispatch \/ InPhase \/ OutPhase \/ DoNone)
  BY <1>2 DEF PeerConnects, ConnectEnds, SocketDispatch, InPhase, OutPhase, DoNone, socketVars
<1>12. ~SocketUser
  <2>1. ~(SocketOpen \/ SocketClose \/ Listen \/ Shutdown \/ ConnectNow)
    BY <1>2 DEF SocketOpen, SocketClose, Listen, Shutdown, ConnectNow
  <2>2. \A slot \in 0..1 : ~Cancel(slot)
    <3>1. ASSUME NEW slot \in 0..1, Cancel(slot) PROVE FALSE
      <4>1. PICK ids : GiveUp(ids)
        BY <3>1 DEF Cancel
      <4>2. id \in DOMAIN hist /\ hist[id] \in Entries
        BY <1>0, <1>1, SeqFacts
      <4>3. hist'[id].finals = hist[id].finals
        BY <4>1, <4>2 DEF GiveUp, Entries
      <4> QED BY <4>3 DEF Answered
    <3> QED BY <3>1
  <2>3. /\ 0 \in 0..1 /\ 1 \in 0..1
        /\ \A o \in Forms : o \in {"accept", "read"} \cup Forms
        /\ {"accept", "read", "connect"} \subseteq {"accept", "read"} \cup Forms
    BY DEF Forms
  <2>4. /\ ~Started("connect", 0) /\ ~Started("connect", 1) /\ ~Started("read", 0)
        /\ ~Started("accept", 0) /\ \A form \in Forms : ~Started(form, 0)
    BY <1>5, <2>3
  <2>5. ~Connect /\ ~Read
    BY <2>4 DEF Connect, Read
  <2>6. (\A form \in Forms : ~ByHost(form)) /\ (\A repeat \in BOOLEAN : ~Accept(repeat))
    BY <2>4 DEF ByHost, Accept
  <2> QED BY <2>1, <2>2, <2>5, <2>6 DEF SocketUser
<1>13. ~TryAccept
  <2>1. ASSUME TryAccept PROVE FALSE
    <3>1. stack # <<>> /\ Top.k = "try"
      BY <2>1 DEF TryAccept, TopIs
    <3>2. Ended(Top.id)
      BY <1>2, <2>1 DEF TryAccept, PassOn, Answer, Ended
    <3>3. Top.id = id
      BY <1>3, <3>2
    <3> QED BY <1>7, <3>1, <3>3 DEF Holding
  <2> QED BY <2>1
<1>14. ~DoAccept
  <2>1. ASSUME DoAccept PROVE FALSE
    <3>1. op[0].operation = "accept" /\ 0 \in 0..1
      BY <2>1 DEF DoAccept, TopIs, LoopsAgain
    <3>2. Ended(op[0].id)
      BY <1>2, <2>1 DEF DoAccept, PassOn, Answer, Ended
    <3> QED BY <1>6, <3>1, <3>2
  <2> QED BY <2>1
<1>15. ~HupAccept /\ ~DoRead /\ ~HupRead
  <2>1. ASSUME HupAccept \/ DoRead \/ HupRead PROVE FALSE
    <3>1. Top.slot \in 0..1 /\ op[Top.slot].operation \in {"accept", "read"}
      BY <1>8, <2>1 DEF HupAccept, DoRead, HupRead, TopIs
    <3>2. Ended(op[Top.slot].id)
      BY <1>2, <2>1 DEF HupAccept, DoRead, HupRead, Answer, Ended
    <3> QED BY <1>6, <3>1, <3>2
  <2> QED BY <2>1
<1>16. CASE ConnectDone
  <2>1. /\ stack # <<>> /\ Top.k \in {"do", "hup"} /\ op[Top.slot].operation = "connect"
        /\ Answer(op[Top.slot].id, ConnectResult) /\ st' = st
    BY <1>16 DEF ConnectDone, TopIs, Becomes, kernelVars
  <2>2. Top \in Frames /\ Top.slot = 1
    BY <1>8, <2>1 DEF HolderInv, SlotsHold
  <2>3. Served(1)
    BY <1>0, <2>1, <2>2, AmongSteps DEF Served
  <2>4. st \in {"connected", "failed", "none"} /\ (st = "failed" => soerr)
    BY <2>1, <2>2, <2>3 DEF UsualInv, SlotInv, StatesFit, ErrorWaits
  <2>5. soerr => st = "failed"
    BY BaseFacts DEF KernelInv
  <2>6. ConnectResult \in Int /\ (ConnectResult = 0 <=> st = "connected")
    BY <2>4, <2>5 DEF ConnectResult
  <2>7. op[1].id \in Nat
    BY <1>0, SocketAssumption DEF Slots
  <2>8. stack'[Len(stack')].r = ConnectResult
    BY <1>9, <2>1, <2>2, <2>6, <2>7
  <2> QED BY <2>1, <2>6, <2>8
<1>17. CASE HostStep
  <2>1. stack # <<>> /\ Top.k = "hosts"
    BY <1>17 DEF HostStep, TopIs
  <2>2. hist[Top.id].o = Top.form
    BY <1>7, <2>1 DEF Holding
  <2>3. Top.id \in Nat
    BY <1>0, <2>1, TopFacts, FrameFacts, SocketAssumption
  <2>4. ~HostBinds
    <3>1. ASSUME HostBinds PROVE FALSE
      <4>1. Ended(Top.id) /\ Top.form = "bind"
        BY <3>1 DEF HostBinds, Ended
      <4>2. Top.id = id
        BY <1>3, <4>1
      <4> QED BY <2>2, <4>1, <4>2
    <3> QED BY <3>1
  <2>5. ~(Top.left = 0 /\ Return /\ hist' = [hist EXCEPT ![Top.id].over = TRUE])
    BY <1>4, Zenon DEF GivenUp
  <2>6. HostConnects
    BY <1>2, <1>17, <2>4, <2>5 DEF HostStep, ConnectHost
  <2>7. Ended(Top.id) /\ st' = "connected"
    BY <2>6 DEF HostConnects, Answer, Ended, Created
  <2>8. Top.form = "connect"
    BY <1>3, <2>2, <2>7
  <2>9. Answer(Top.id, 0)
    BY <2>6, <2>8 DEF HostConnects
  <2>10. stack'[Len(stack')].r = 0
    BY <1>9, <2>1, <2>3, <2>9
  <2> QED BY <2>7, <2>10
<1> QED BY <1>10, <1>11, <1>12, <1>13, <1>14, <1>15, <1>16, <1>17, NextSplit
        DEF SocketNext, SocketLibrary

\* What the callback of a pending connect is told is the truth: 0 exactly if
\* the connection stands.
THEOREM ConnectsTold ==
  ASSUME Habits = {}
  PROVE  Spec => ConnectTruthful
<1>1. BaseInv /\ HolderInv /\ LoopInv /\ UsualInv /\ [Next]_vars =>
        [\A id \in DOMAIN hist : hist[id].o = "connect" /\ Answered(id)
           => (stack'[Len(stack')].r = 0) = (st' = "connected")]_socketState
  <2> SUFFICES ASSUME BaseInv, HolderInv, LoopInv, UsualInv, [Next]_vars
               PROVE  [\A id \in DOMAIN hist : hist[id].o = "connect" /\ Answered(id)
                         => (stack'[Len(stack')].r = 0) = (st' = "connected")]_socketState
    OBVIOUS
  <2>1. CASE Next
    BY <2>1, TruthStep
  <2>2. CASE UNCHANGED vars
    BY <2>2 DEF vars, socketState
  <2> QED BY <2>1, <2>2
<1>2. BaseInv /\ HolderInv /\ LoopInv /\ UsualInv /\ [Next]_vars => UsualInv'
  BY UsualNext
<1>3. BaseInv /\ HolderInv /\ LoopInv /\ [Next]_vars => HolderInv' /\ LoopInv'
  BY HolderNext DEF Orderly
<1> QED BY <1>1, <1>2, <1>3, BaseInit, BaseNext, HolderInit, LoopInit, UsualInit, PTL
        DEF Spec, ConnectTruthful
=============================================================================
