--------------------------- MODULE ReactorProofs ---------------------------
(***************************************************************************)
(* Proofs about a Socket and a Timer under one EPoll, for any bounds on    *)
(* the operations, peers and addresses and any depth of nested callbacks.  *)
(***************************************************************************)
EXTENDS Reactor, SequenceTheorems, TLAPS

-----------------------------------------------------------------------------
(***************************************************************************)
(* The stack of calls.                                                     *)
(***************************************************************************)
Frames ==
  [k : {"user"}, id : Nat, r : Int]
    \cup [k : {"tick", "in", "out", "accept"}]
    \cup [k : {"do", "hup"}, slot : 0..1]
    \cup [k : {"try"}, repeat : BOOLEAN, id : 1..MaxOps]
    \cup [k : {"hosts"}, form : Forms, left : 0..MaxHosts, id : 1..MaxOps]

Kinds == {"user", "tick", "in", "out", "do", "hup", "accept", "try", "hosts"}

\* What a frame holds, by its kind.
LEMMA FrameFacts ==
  ASSUME NEW f \in Frames
  PROVE  /\ f.k \in Kinds
         /\ f.k \in {"do", "hup"} => f.slot \in 0..1
         /\ f.k = "try" => f.repeat \in BOOLEAN
         /\ f.k \in {"try", "hosts"} => f.id \in 1..MaxOps
         /\ f.k = "hosts" => f.form \in Forms /\ f.left \in 0..MaxHosts
BY DEF Frames, Kinds

\* The frames the actions push.
LEMMA MadeFrames ==
  /\ \A id \in Nat, r \in Int :
       UserFrame(id, r) \in Frames /\ UserFrame(id, r).k = "user" /\ UserFrame(id, r).r = r
  /\ \A c \in {"tick", "in", "out", "accept"} : [k |-> c] \in Frames
  /\ \A slot \in 0..1 : /\ Serve(slot) \in Frames /\ Serve(slot).k = "do" /\ Serve(slot).slot = slot
                        /\ HangUp(slot) \in Frames /\ HangUp(slot).k = "hup" /\ HangUp(slot).slot = slot
  /\ \A repeat \in BOOLEAN, id \in 1..MaxOps :
       [k |-> "try", repeat |-> repeat, id |-> id] \in Frames
  /\ \A form \in Forms, left \in 0..MaxHosts, id \in 1..MaxOps :
       [k |-> "hosts", form |-> form, left |-> left, id |-> id] \in Frames
BY DEF Frames, UserFrame, Serve, HangUp

LEMMA SeqFacts ==
  ASSUME NEW S, NEW s \in Seq(S)
  PROVE  /\ Len(s) \in Nat
         /\ DOMAIN s = 1..Len(s)
         /\ \A n \in 1..Len(s) : s[n] \in S
         /\ (s = <<>>) <=> (Len(s) = 0)
<1>1. Len(s) \in Nat /\ DOMAIN s = 1..Len(s) /\ \A n \in 1..Len(s) : s[n] \in S
  BY LenProperties
<1>2. (s = <<>>) <=> (Len(s) = 0)
  BY EmptySeq
<1> QED BY <1>1, <1>2

LEMMA PopFacts ==
  ASSUME NEW S, NEW s \in Seq(S), s # <<>>, NEW t, t = SubSeq(s, 1, Len(s) - 1)
  PROVE  /\ t \in Seq(S)
         /\ Len(s) >= 1
         /\ Len(t) = Len(s) - 1
         /\ \A n \in 1..(Len(s) - 1) : t[n] = s[n]
<1>1. Len(s) \in Nat /\ Len(s) >= 1 /\ \A n \in 1..Len(s) : s[n] \in S
  BY SeqFacts
<1>2. \A n \in 1..(Len(s) - 1) : s[n] \in S
  BY <1>1
<1>3. /\ t \in Seq(S)
      /\ Len(t) = IF 1 <= Len(s) - 1 THEN Len(s) - 1 - 1 + 1 ELSE 0
      /\ \A n \in 1 .. Len(s) - 1 - 1 + 1 : t[n] = s[1 + n - 1]
  BY <1>1, <1>2, SubSeqProperties
<1>4. \A n \in 1..(Len(s) - 1) : 1 + n - 1 = n
  OBVIOUS
<1>5. 1 .. Len(s) - 1 - 1 + 1 = 1..(Len(s) - 1)
  BY <1>1
<1>6. \A l \in Nat : l >= 1 =>
        (IF 1 <= l - 1 THEN l - 1 - 1 + 1 ELSE 0) = l - 1
  OBVIOUS
<1>7. Len(t) = Len(s) - 1
  BY <1>1, <1>3, <1>6
<1> QED BY <1>1, <1>3, <1>4, <1>5, <1>7

LEMMA PushFacts ==
  ASSUME NEW S, NEW s \in Seq(S), NEW f \in S, NEW t, t = Append(s, f)
  PROVE  /\ t \in Seq(S)
         /\ Len(t) = Len(s) + 1
         /\ \A n \in 1..Len(s) : t[n] = s[n]
         /\ t[Len(s) + 1] = f
BY AppendProperties

\* The stack of the next state: the first p frames are those of stack.
Kept(p) ==
  /\ stack' \in Seq(Frames)
  /\ p \in 0..Len(stack) /\ p <= Len(stack')
  /\ \A n \in 1..p : stack'[n] = stack[n]

\* The innermost call returns; goes on as frame f; calls g; goes on as f and
\* calls g.
Returned == Len(stack) >= 1 /\ Kept(Len(stack) - 1) /\ Len(stack') = Len(stack) - 1
GoesOn(f) ==
  /\ Len(stack) >= 1 /\ Kept(Len(stack) - 1) /\ Len(stack') = Len(stack)
  /\ stack'[Len(stack)] = f
Calls(g) ==
  /\ Kept(Len(stack)) /\ Len(stack') = Len(stack) + 1
  /\ stack'[Len(stack) + 1] = g
GoesOnCalls(f, g) ==
  /\ Len(stack) >= 1 /\ Kept(Len(stack) - 1) /\ Len(stack') = Len(stack) + 1
  /\ stack'[Len(stack)] = f /\ stack'[Len(stack) + 1] = g

LEMMA StackFacts ==
  ASSUME stack \in Seq(Frames)
  PROVE  /\ Len(stack) \in Nat /\ DOMAIN stack = 1..Len(stack)
         /\ \A n \in 1..Len(stack) : stack[n] \in Frames
         /\ stack = <<>> <=> Len(stack) = 0
         /\ stack # <<>> => Len(stack) \in 1..Len(stack) /\ Top \in Frames
BY SeqFacts DEF Top

LEMMA StackSteps ==
  ASSUME stack \in Seq(Frames)
  PROVE  /\ stack # <<>> /\ stack' = Popped => Returned
         /\ \A f \in Frames : stack # <<>> /\ stack' = Replaced(f) => GoesOn(f)
         /\ \A g \in Frames : stack' = Append(stack, g) => Calls(g)
         /\ \A f, g \in Frames :
              stack # <<>> /\ stack' = Append(Replaced(f), g) => GoesOnCalls(f, g)
<1>0. Len(stack) \in Nat /\ (stack # <<>> => Len(stack) >= 1)
  BY StackFacts
<1>1. stack # <<>> => /\ Popped \in Seq(Frames) /\ Len(Popped) = Len(stack) - 1
                      /\ \A n \in 1..(Len(stack) - 1) : Popped[n] = stack[n]
  BY PopFacts DEF Popped
<1>2. stack # <<>> /\ stack' = Popped => Returned
  BY <1>0, <1>1 DEF Returned, Kept
<1>3. ASSUME NEW f \in Frames, stack # <<>>
      PROVE  /\ Replaced(f) \in Seq(Frames) /\ Len(Replaced(f)) = Len(stack)
             /\ \A n \in 1..(Len(stack) - 1) : Replaced(f)[n] = stack[n]
             /\ Replaced(f)[Len(stack)] = f
  <2>1. /\ Replaced(f) \in Seq(Frames) /\ Len(Replaced(f)) = Len(Popped) + 1
        /\ \A n \in 1..Len(Popped) : Replaced(f)[n] = Popped[n]
        /\ Replaced(f)[Len(Popped) + 1] = f
    BY <1>1, <1>3, PushFacts DEF Replaced
  <2> QED BY <1>0, <1>1, <1>3, <2>1
<1>4. ASSUME NEW f \in Frames, stack # <<>>, stack' = Replaced(f)
      PROVE  GoesOn(f)
  BY <1>0, <1>3, <1>4 DEF GoesOn, Kept
<1>5. ASSUME NEW g \in Frames, stack' = Append(stack, g)
      PROVE  Calls(g)
  <2>1. /\ stack' \in Seq(Frames) /\ Len(stack') = Len(stack) + 1
        /\ \A n \in 1..Len(stack) : stack'[n] = stack[n]
        /\ stack'[Len(stack) + 1] = g
    BY <1>5, PushFacts
  <2> QED BY <1>0, <2>1 DEF Calls, Kept
<1>6. ASSUME NEW f \in Frames, NEW g \in Frames, stack # <<>>,
             stack' = Append(Replaced(f), g)
      PROVE  GoesOnCalls(f, g)
  <2>1. /\ Replaced(f) \in Seq(Frames) /\ Len(Replaced(f)) = Len(stack)
        /\ \A n \in 1..(Len(stack) - 1) : Replaced(f)[n] = stack[n]
        /\ Replaced(f)[Len(stack)] = f
    BY <1>3, <1>6
  <2>2. /\ stack' \in Seq(Frames) /\ Len(stack') = Len(Replaced(f)) + 1
        /\ \A n \in 1..Len(Replaced(f)) : stack'[n] = Replaced(f)[n]
        /\ stack'[Len(Replaced(f)) + 1] = g
    BY <1>6, <2>1, PushFacts
  <2> QED BY <1>0, <1>6, <2>1, <2>2 DEF GoesOnCalls, Kept
<1> QED BY <1>2, <1>4, <1>5, <1>6

-----------------------------------------------------------------------------
(***************************************************************************)
(* The calls that hold an operation: a synchronous accept and the loop     *)
(* over the addresses of a host.                                           *)
(***************************************************************************)
Holding == {"try", "hosts"}

\* Frame n holds the same operation after the step as before.
SameAt(n) ==
  /\ stack'[n].k = stack[n].k
  /\ stack'[n].id = stack[n].id
  /\ stack[n].k = "hosts" => stack'[n].form = stack[n].form

\* The holders among the first p frames, and no others, stay.
HoldersUpTo(p) ==
  /\ stack' \in Seq(Frames)
  /\ \A n \in DOMAIN stack : n <= p /\ stack[n].k \in Holding =>
       n \in DOMAIN stack' /\ SameAt(n)
  /\ \A n \in DOMAIN stack' : stack'[n].k \in Holding =>
       n \in DOMAIN stack /\ n <= p /\ SameAt(n)

SameHolders == HoldersUpTo(Len(stack))
LessTop == stack # <<>> /\ Top.k \in Holding /\ HoldersUpTo(Len(stack) - 1)

LEMMA HolderSteps ==
  ASSUME stack \in Seq(Frames)
  PROVE  /\ stack' = stack => SameHolders
         /\ Returned /\ Top.k \notin Holding => SameHolders
         /\ Returned /\ Top.k \in Holding => LessTop
         /\ \A f : GoesOn(f) /\ Top.k \notin Holding /\ f.k \notin Holding => SameHolders
         /\ \A f : GoesOn(f) /\ Top.k \in Holding /\ f.k \notin Holding => LessTop
         /\ \A f : /\ GoesOn(f) /\ Top.k = "hosts" /\ f.k = "hosts"
                   /\ f.id = Top.id /\ f.form = Top.form
              => SameHolders
         /\ \A g : Calls(g) /\ g.k \notin Holding => SameHolders
         /\ \A f, g : /\ GoesOnCalls(f, g) /\ g.k \notin Holding
                      /\ f = Top \/ (Top.k \notin Holding /\ f.k \notin Holding)
              => SameHolders
<1>0. Len(stack) \in Nat /\ DOMAIN stack = 1..Len(stack) /\ (stack = <<>> <=> Len(stack) = 0)
  BY StackFacts
<1>1. ASSUME NEW p \in Nat, Kept(p)
      PROVE  /\ Len(stack') \in Nat /\ DOMAIN stack' = 1..Len(stack')
             /\ stack' \in Seq(Frames) /\ p <= Len(stack) /\ p <= Len(stack')
             /\ \A n \in 1..p : n \in DOMAIN stack /\ n \in DOMAIN stack' /\ SameAt(n)
  <2>1. stack' \in Seq(Frames) /\ p <= Len(stack) /\ p <= Len(stack')
        /\ \A n \in 1..p : stack'[n] = stack[n]
    BY <1>0, <1>1 DEF Kept
  <2>2. Len(stack') \in Nat /\ DOMAIN stack' = 1..Len(stack')
    BY <2>1, SeqFacts
  <2> QED BY <1>0, <2>1, <2>2 DEF SameAt
<1>2. stack' = stack => SameHolders
  BY <1>0 DEF SameHolders, HoldersUpTo, SameAt
<1>3. CASE Len(stack) = 0
  <2>1. ASSUME NEW g, Calls(g), g.k \notin Holding PROVE SameHolders
    <3>1. Kept(0) /\ Len(stack') = 1 /\ stack'[1] = g
      BY <1>3, <2>1 DEF Calls
    <3> QED BY <1>0, <1>1, <1>3, <2>1, <3>1 DEF SameHolders, HoldersUpTo
  <2> QED BY <1>2, <1>3, <2>1 DEF Returned, GoesOn, GoesOnCalls
<1>4. CASE Len(stack) >= 1
  <2> DEFINE L == Len(stack)
  <2>0. L \in Nat /\ L - 1 \in Nat /\ DOMAIN stack = 1..L /\ Top = stack[L] /\ stack # <<>>
    BY <1>0, <1>4 DEF Top
  <2> HIDE DEF L
  <2>1. Returned => /\ (Top.k \notin Holding => SameHolders)
                    /\ (Top.k \in Holding => LessTop)
    <3> SUFFICES ASSUME Kept(L - 1), Len(stack') = L - 1
                 PROVE  /\ (Top.k \notin Holding => HoldersUpTo(L))
                        /\ (Top.k \in Holding => HoldersUpTo(L - 1))
      BY <2>0 DEF Returned, SameHolders, LessTop, L
    <3> QED BY <1>1, <2>0 DEF HoldersUpTo
  <2>2. ASSUME NEW f, GoesOn(f)
        PROVE  /\ Top.k \notin Holding /\ f.k \notin Holding => SameHolders
               /\ Top.k \in Holding /\ f.k \notin Holding => LessTop
               /\ Top.k = "hosts" /\ f.k = "hosts" /\ f.id = Top.id /\ f.form = Top.form
                    => SameHolders
    <3>1. Kept(L - 1) /\ Len(stack') = L /\ stack'[L] = f
      BY <2>2 DEF GoesOn, L
    <3>2. Top.k \notin Holding /\ f.k \notin Holding => HoldersUpTo(L)
      BY <1>1, <2>0, <3>1 DEF HoldersUpTo
    <3>3. Top.k \in Holding /\ f.k \notin Holding => HoldersUpTo(L - 1)
      BY <1>1, <2>0, <3>1 DEF HoldersUpTo
    <3>4. Top.k = "hosts" /\ f.k = "hosts" /\ f.id = Top.id /\ f.form = Top.form => SameAt(L)
      BY <2>0, <3>1 DEF SameAt
    <3>5. SameAt(L) => HoldersUpTo(L)
      BY <1>1, <2>0, <3>1 DEF HoldersUpTo
    <3> QED BY <2>0, <3>2, <3>3, <3>4, <3>5 DEF SameHolders, LessTop, L
  <2>3. ASSUME NEW g, Calls(g), g.k \notin Holding PROVE SameHolders
    <3>1. Kept(L) /\ Len(stack') = L + 1 /\ stack'[L + 1] = g
      BY <2>3 DEF Calls, L
    <3>2. HoldersUpTo(L)
      BY <1>1, <2>0, <2>3, <3>1 DEF HoldersUpTo
    <3> QED BY <3>2 DEF SameHolders, L
  <2>4. ASSUME NEW f, NEW g, GoesOnCalls(f, g), g.k \notin Holding,
               f = Top \/ (Top.k \notin Holding /\ f.k \notin Holding)
        PROVE  SameHolders
    <3>1. Kept(L - 1) /\ Len(stack') = L + 1 /\ stack'[L] = f /\ stack'[L + 1] = g
      BY <2>4 DEF GoesOnCalls, L
    <3>2. f = Top => SameAt(L)
      BY <2>0, <3>1 DEF SameAt
    <3>3. HoldersUpTo(L)
      BY <1>1, <2>0, <2>4, <3>1, <3>2 DEF HoldersUpTo
    <3> QED BY <3>3 DEF SameHolders, L
  <2> QED BY <1>2, <2>1, <2>2, <2>3, <2>4
<1> QED BY <1>0, <1>3, <1>4

-----------------------------------------------------------------------------
(***************************************************************************)
(* Types, with what the kernel keeps: the mask of the socket follows from  *)
(* its state, a closed descriptor has none, and a ready FD has one.        *)
(***************************************************************************)
States == {"none", "fresh", "listen", "connecting", "connected", "failed"}
Entries == [o : {"accept", "read"} \cup Forms, finals : Nat, over : BOOLEAN]

KernelInv ==
  /\ socket \in open <=> st # "none"
  /\ mask[socket] = MaskOf(st, soerr, backlog)
  /\ soerr => st = "failed"
  /\ \A fd \in FDs : fd \notin open => mask[fd] = {}
  /\ \A fd \in ready : mask[fd] # {}

BaseInv ==
  /\ TypeOK
  /\ stack \in Seq(Frames)
  /\ Len(hist) <= MaxOps
  /\ backlog + peers <= MaxPeers
  /\ KernelInv

LEMMA BaseFacts ==
  ASSUME BaseInv
  PROVE  /\ DeliveryTypeOK /\ TimerTypeOK
         /\ st \in States /\ soerr \in BOOLEAN
         /\ backlog \in 0..MaxPeers /\ peers \in 0..MaxPeers
         /\ op \in [0..1 -> [operation : {"none", "accept", "connect", "read"},
                             repeat : BOOLEAN, id : 0..MaxOps]]
         /\ hist \in Seq(Entries)
         /\ stack \in Seq(Frames)
         /\ Len(hist) <= MaxOps
         /\ backlog + peers <= MaxPeers
         /\ KernelInv
BY DEF BaseInv, TypeOK, SocketTypeOK, States, Entries

LEMMA BaseFromParts ==
  ASSUME DeliveryTypeOK', TimerTypeOK',
         st' \in States, soerr' \in BOOLEAN,
         backlog' \in 0..MaxPeers, peers' \in 0..MaxPeers,
         op' \in [0..1 -> [operation : {"none", "accept", "connect", "read"},
                           repeat : BOOLEAN, id : 0..MaxOps]],
         hist' \in Seq(Entries),
         stack' \in Seq(Frames),
         Len(hist') <= MaxOps,
         backlog' + peers' <= MaxPeers,
         KernelInv'
  PROVE  BaseInv'
<1>1. DOMAIN stack' = 1..Len(stack') /\ \A n \in 1..Len(stack') : stack'[n] \in Frames
  BY SeqFacts
<1>2. \A n \in DOMAIN stack' : stack'[n].k \in Kinds
  BY <1>1, FrameFacts
<1>3. SocketTypeOK'
  BY Zenon DEF SocketTypeOK, States, Entries
<1>4. TypeOK'
  BY <1>2, <1>3 DEF TypeOK, Kinds
<1> QED BY <1>4, Zenon DEF BaseInv

\* The kernel's side of a socket action.
KernelStep ==
  \/ UNCHANGED <<kernelVars, deliveryVars>>
  \/ \E s \in States \ {"none"}, err \in BOOLEAN, n \in 0..backlog, edge \in BOOLEAN :
       (err => s = "failed") /\ Becomes(s, err, n, edge)
  \/ \E s \in States \ {"none"} : Created(s)
  \/ /\ st = "listen" /\ peers > 0
     /\ backlog' = backlog + 1 /\ peers' = peers - 1
     /\ Poll(socket, {"IN"}, TRUE)
     /\ UNCHANGED <<st, soerr>>
  \/ /\ st' = "none" /\ soerr' = FALSE /\ backlog' = 0 /\ UNCHANGED peers
     /\ Shut(socket)
  \/ stack = <<>> /\ Deliver(socket) /\ UNCHANGED kernelVars

LEMMA MaskFacts ==
  ASSUME NEW s, NEW err, NEW n
  PROVE  /\ MaskOf(s, err, n) \in SUBSET Events
         /\ s \in {"none", "connecting"} => MaskOf(s, err, n) = {}
BY ReactorAssumption DEF MaskOf

LEMMA AttemptSteps ==
  ASSUME BaseInv, NEW res \in Attempts, Attempted(res)
  PROVE  KernelStep
<1>1. /\ st \in States /\ backlog \in 0..MaxPeers /\ MaxPeers \in Nat
  BY BaseFacts, SocketAssumption
<1>2. res[1] \in States \ {"none"}
  BY <1>1 DEF Attempts, ConnectResults, States
<1>3. CASE st = "none"
  BY <1>2, <1>3 DEF Attempted, KernelStep
<1>4. CASE st # "none"
  <2>1. Becomes(res[1], FALSE, backlog, FALSE)
    BY <1>4 DEF Attempted
  <2>2. backlog \in 0..backlog
    BY <1>1
  <2> QED BY <1>2, <2>1, <2>2 DEF KernelStep
<1> QED BY <1>3, <1>4

LEMMA KernelSteps ==
  ASSUME BaseInv, SocketNext
  PROVE  KernelStep
<1>0. /\ st \in States /\ soerr \in BOOLEAN
      /\ backlog \in 0..MaxPeers /\ MaxPeers \in Nat /\ (soerr => st = "failed")
  BY BaseFacts, SocketAssumption DEF KernelInv
<1>1. ASSUME NEW s \in States \ {"none"}, NEW edge \in BOOLEAN, NEW n \in 0..backlog,
             NEW err \in BOOLEAN, err => s = "failed", Becomes(s, err, n, edge)
      PROVE  KernelStep
  BY <1>1 DEF KernelStep
<1>2. ASSUME NEW s \in States \ {"none"}, Created(s)
      PROVE  KernelStep
  BY <1>2 DEF KernelStep
<1>3. 0 \in 0..backlog /\ backlog \in 0..backlog /\ (backlog > 0 => backlog - 1 \in 0..backlog)
  BY <1>0
<1>4. {"fresh", "listen", "connecting", "connected", "failed"} \subseteq States \ {"none"}
  BY DEF States
<1>5. CASE PeerConnects
  BY <1>5 DEF PeerConnects, KernelStep
<1>6. CASE ConnectEnds
  BY <1>1, <1>3, <1>4, <1>6 DEF ConnectEnds
<1>7. CASE SocketOpen
  BY <1>2, <1>4, <1>7 DEF SocketOpen
<1>8. CASE SocketClose
  BY <1>8 DEF SocketClose, KernelStep
<1>9. CASE Listen \/ Shutdown
  BY <1>1, <1>3, <1>4, <1>9 DEF Listen, Shutdown
<1>10. CASE Connect \/ ConnectNow
  BY <1>10, AttemptSteps DEF Connect, ConnectNow
<1>11. CASE Read \/ (\E slot \in 0..1 : Cancel(slot)) \/ (\E form \in Forms : ByHost(form))
            \/ (\E repeat \in BOOLEAN : Accept(repeat))
  BY <1>11 DEF Read, Cancel, ByHost, Accept, KernelStep
<1>12. CASE SocketDispatch
  BY <1>12 DEF SocketDispatch, Dispatch, socketVars, KernelStep
<1>13. CASE InPhase \/ OutPhase \/ HupAccept \/ HupRead \/ DoNone
  BY <1>13 DEF InPhase, OutPhase, HupAccept, HupRead, DoNone, socketVars, KernelStep
<1>14. CASE HostStep
  <2>1. CASE HostBinds \/ HostConnects \/ ConnectHost
    BY <1>2, <1>4, <2>1 DEF HostBinds, HostConnects, ConnectHost
  <2> QED BY <1>14, <2>1 DEF HostStep, KernelStep
<1>15. CASE ConnectDone
  <2>1. CASE st = "none"
    BY <1>15, <2>1 DEF ConnectDone, KernelStep
  <2>2. CASE st # "none"
    BY <1>0, <1>1, <1>3, <1>15, <2>2 DEF ConnectDone
  <2> QED BY <2>1, <2>2
<1>16. ASSUME Taken PROVE KernelStep
  BY <1>0, <1>1, <1>3, <1>4, <1>16 DEF Taken
<1>17. CASE TryAccept
  BY <1>16, <1>17 DEF TryAccept, Refused, KernelStep
<1>18. CASE DoAccept
  BY <1>16, <1>18 DEF DoAccept, Refused, KernelStep
<1>19. CASE DoRead
  <2>1. CASE st = "failed" /\ Becomes(st, FALSE, backlog, FALSE)
    BY <1>0, <1>1, <1>3, <1>4, <2>1
  <2> QED BY <1>19, <2>1 DEF DoRead, KernelStep
<1> QED BY <1>5, <1>6, <1>7, <1>8, <1>9, <1>10, <1>11, <1>12, <1>13, <1>14, <1>15,
           <1>17, <1>18, <1>19 DEF SocketNext, SocketUser, SocketLibrary

\* Whatever epoll does keeps its types.
LEMMA DeliverySteps ==
  ASSUME DeliveryTypeOK, NEW fd \in FDs,
         \/ \E E \in SUBSET Events : Open(fd, E) \/ \E edge \in BOOLEAN : Poll(fd, E, edge)
         \/ Shut(fd) \/ Attach(fd) \/ Detach(fd) \/ Deliver(fd) \/ Finish
         \/ \E S \in SUBSET FDs : Harvest(S)
         \/ UNCHANGED deliveryVars
  PROVE  DeliveryTypeOK'
<1> USE DEF DeliveryTypeOK
<1>1. ASSUME NEW E \in SUBSET Events, Open(fd, E) \/ \E edge \in BOOLEAN : Poll(fd, E, edge)
      PROVE  DeliveryTypeOK'
  BY <1>1 DEF Open, Poll
<1>2. CASE Shut(fd)
  BY <1>2 DEF Shut
<1>3. CASE Attach(fd)
  BY <1>3 DEF Attach
<1>4. CASE Detach(fd)
  BY <1>4 DEF Detach
<1>5. CASE Deliver(fd)
  BY <1>5 DEF Deliver
<1>6. CASE Finish
  BY <1>6 DEF Finish
<1>7. ASSUME NEW S \in SUBSET FDs, Harvest(S)
      PROVE  DeliveryTypeOK'
  BY <1>7 DEF Harvest
<1>8. CASE UNCHANGED deliveryVars
  BY <1>8 DEF deliveryVars
<1> QED BY <1>1, <1>2, <1>3, <1>4, <1>5, <1>6, <1>7, <1>8

\* A socket action keeps the kernel's part of BaseInv.
LEMMA SocketKernel ==
  ASSUME BaseInv, KernelStep
  PROVE  /\ DeliveryTypeOK'
         /\ st' \in States /\ soerr' \in BOOLEAN
         /\ backlog' \in 0..MaxPeers /\ peers' \in 0..MaxPeers
         /\ backlog' + peers' <= MaxPeers
         /\ KernelInv'
<1> USE SocketAssumption
<1>0. /\ DeliveryTypeOK /\ st \in States /\ soerr \in BOOLEAN
      /\ backlog \in 0..MaxPeers /\ peers \in 0..MaxPeers /\ backlog + peers <= MaxPeers
      /\ KernelInv
  BY BaseFacts
<1>1. mask \in [FDs -> SUBSET Events] /\ registered \subseteq open /\ ready \subseteq registered
      /\ open \subseteq FDs
  BY <1>0 DEF DeliveryTypeOK
<1>2. CASE UNCHANGED <<kernelVars, deliveryVars>>
  <2>1. DeliveryTypeOK'
    BY <1>0, <1>2, DeliverySteps
  <2> QED BY <1>0, <1>2, <2>1 DEF kernelVars, deliveryVars, KernelInv
<1>3. ASSUME NEW s \in States \ {"none"}, NEW err \in BOOLEAN, NEW n \in 0..backlog,
             NEW edge \in BOOLEAN, err => s = "failed", Becomes(s, err, n, edge)
      PROVE  /\ DeliveryTypeOK'
             /\ st' \in States /\ soerr' \in BOOLEAN
             /\ backlog' \in 0..MaxPeers /\ peers' \in 0..MaxPeers
             /\ backlog' + peers' <= MaxPeers
             /\ KernelInv'
  <2> DEFINE M == MaskOf(s, err, n)
  <2>1. M \in SUBSET Events /\ M = MaskOf(st', soerr', backlog')
    BY <1>3, MaskFacts DEF Becomes
  <2> HIDE DEF M
  <2>2. /\ st' = s /\ soerr' = err /\ backlog' = n /\ peers' = peers /\ Poll(socket, M, edge)
    BY <1>3 DEF Becomes, M
  <2>3. DeliveryTypeOK'
    BY <1>0, <2>1, <2>2, DeliverySteps
  <2>4. /\ socket \in open' /\ open' = open /\ mask' = [mask EXCEPT ![socket] = M]
        /\ ready' \subseteq ready \cup {socket} /\ (M = {} => socket \notin ready')
    BY <2>2 DEF Poll
  <2>5. KernelInv'
    BY <1>0, <1>1, <1>3, <2>1, <2>2, <2>4 DEF KernelInv
  <2> QED BY <1>0, <2>2, <2>3, <2>5
<1>4. ASSUME NEW s \in States \ {"none"}, Created(s)
      PROVE  /\ DeliveryTypeOK'
             /\ st' \in States /\ soerr' \in BOOLEAN
             /\ backlog' \in 0..MaxPeers /\ peers' \in 0..MaxPeers
             /\ backlog' + peers' <= MaxPeers
             /\ KernelInv'
  <2> DEFINE M == MaskOf(s, FALSE, 0)
  <2>1. M \in SUBSET Events /\ M = MaskOf(st', soerr', backlog')
    BY <1>4, MaskFacts DEF Created
  <2> HIDE DEF M
  <2>2. /\ st' = s /\ soerr' = FALSE /\ backlog' = 0 /\ peers' = peers /\ Open(socket, M)
    BY <1>4 DEF Created, M
  <2>3. DeliveryTypeOK'
    BY <1>0, <2>1, <2>2, DeliverySteps
  <2>4. /\ open' = open \cup {socket} /\ mask' = [mask EXCEPT ![socket] = M]
        /\ ready' = ready /\ socket \notin ready
    BY <1>1, <2>2 DEF Open
  <2>5. KernelInv'
    BY <1>0, <1>1, <1>4, <2>1, <2>2, <2>4 DEF KernelInv
  <2>6. backlog' \in 0..MaxPeers /\ peers' \in 0..MaxPeers /\ backlog' + peers' <= MaxPeers
    BY <1>0, <2>2
  <2> QED BY <2>2, <2>3, <2>5, <2>6
<1>5. CASE /\ st = "listen" /\ peers > 0
           /\ backlog' = backlog + 1 /\ peers' = peers - 1
           /\ Poll(socket, {"IN"}, TRUE)
           /\ UNCHANGED <<st, soerr>>
  <2>1. DeliveryTypeOK'
    BY <1>0, <1>5, ReactorAssumption, DeliverySteps
  <2>2. MaskOf(st', soerr', backlog') = {"IN"}
    BY <1>0, <1>5 DEF MaskOf
  <2>3. /\ socket \in open' /\ open' = open /\ mask' = [mask EXCEPT ![socket] = {"IN"}]
        /\ ready' \subseteq ready \cup {socket}
    BY <1>5 DEF Poll
  <2>4. KernelInv'
    BY <1>0, <1>1, <1>5, <2>2, <2>3 DEF KernelInv
  <2> QED BY <1>0, <1>5, <2>1, <2>4
<1>6. CASE /\ st' = "none" /\ soerr' = FALSE /\ backlog' = 0 /\ UNCHANGED peers
           /\ Shut(socket)
  <2>1. DeliveryTypeOK'
    BY <1>0, <1>6, DeliverySteps
  <2>2. MaskOf(st', soerr', backlog') = {}
    BY <1>6, MaskFacts
  <2>3. KernelInv'
    BY <1>0, <1>1, <1>6, <2>2 DEF KernelInv, Shut
  <2>4. backlog' \in 0..MaxPeers /\ peers' \in 0..MaxPeers /\ backlog' + peers' <= MaxPeers
    BY <1>0, <1>6
  <2> QED BY <1>6, <2>1, <2>3, <2>4 DEF States
<1>7. CASE Deliver(socket) /\ UNCHANGED kernelVars
  <2>1. DeliveryTypeOK'
    BY <1>0, <1>7, DeliverySteps
  <2>2. UNCHANGED <<open, mask, ready, st, soerr, backlog, peers>>
    BY <1>7 DEF Deliver, kernelVars
  <2> QED BY <1>0, <2>1, <2>2 DEF KernelInv
<1> QED BY <1>2, <1>3, <1>4, <1>5, <1>6, <1>7 DEF KernelStep

\* So does any other action, the timer's included.
LEMMA OtherKernel ==
  ASSUME BaseInv, TimerNext \/ ((LoopSteps \/ Registration \/ Returns) /\ UNCHANGED timerVars),
         UNCHANGED socketVars
  PROVE  DeliveryTypeOK' /\ TimerTypeOK' /\ KernelInv'
<1>0. /\ DeliveryTypeOK /\ TimerTypeOK /\ KernelInv
  BY BaseFacts
<1>1. UNCHANGED <<st, soerr, backlog, peers>>
  BY DEF socketVars, kernelVars
<1>2. /\ mask \in [FDs -> SUBSET Events] /\ registered \subseteq open /\ ready \subseteq registered
      /\ open \subseteq FDs /\ timer \in FDs /\ socket \in FDs /\ timer # socket
  BY <1>0, TimerAssumption, SocketAssumption, ReactorAssumption DEF DeliveryTypeOK
<1>3. ASSUME NEW E \in {{}, {"IN"}}, NEW edge \in BOOLEAN, Poll(timer, E, edge)
      PROVE  DeliveryTypeOK' /\ KernelInv'
  <2>1. E \in SUBSET Events
    BY ReactorAssumption
  <2>2. DeliveryTypeOK'
    BY <1>0, <1>2, <1>3, <2>1, DeliverySteps
  <2>3. /\ open' = open /\ timer \in open /\ mask' = [mask EXCEPT ![timer] = E]
        /\ ready' \subseteq ready \cup {timer} /\ (E = {} => timer \notin ready')
    BY <1>3 DEF Poll
  <2> QED BY <1>0, <1>1, <1>2, <2>2, <2>3 DEF KernelInv
<1>4. ASSUME NEW E \in {{}, {"IN"}}, Open(timer, E)
      PROVE  DeliveryTypeOK' /\ KernelInv'
  <2>1. E \in SUBSET Events
    BY ReactorAssumption
  <2>2. DeliveryTypeOK'
    BY <1>0, <1>2, <1>4, <2>1, DeliverySteps
  <2>3. /\ open' = open \cup {timer} /\ timer \notin open /\ mask' = [mask EXCEPT ![timer] = E]
        /\ ready' = ready /\ timer \notin ready
    BY <1>2, <1>4 DEF Open
  <2> QED BY <1>0, <1>1, <1>2, <2>2, <2>3 DEF KernelInv
<1>5. ASSUME UNCHANGED <<open, mask, ready>>, DeliveryTypeOK'
      PROVE  DeliveryTypeOK' /\ KernelInv'
  BY <1>0, <1>1, <1>5 DEF KernelInv
<1>6. ASSUME UNCHANGED deliveryVars
      PROVE  DeliveryTypeOK' /\ KernelInv'
  <2>1. DeliveryTypeOK'
    BY <1>0, <1>2, <1>6, DeliverySteps
  <2> QED BY <1>5, <1>6, <2>1 DEF deliveryVars
<1>7. CASE Expire
  BY <1>0, <1>3, <1>7 DEF Expire, timerVars, TimerTypeOK
<1>8. CASE SetInterval
  <2>1. PICK v \in Intervals : setInterval(v)
    BY <1>8 DEF SetInterval
  <2>2. TimerTypeOK'
    BY <1>0, <2>1, TimerAssumption DEF setInterval, TimerTypeOK
  <2>3. Poll(timer, {}, FALSE) \/ UNCHANGED deliveryVars
    BY <2>1 DEF setInterval
  <2> QED BY <1>3, <1>6, <2>2, <2>3
<1>9. CASE TimerClose
  <2>1. Shut(timer) /\ TimerTypeOK'
    BY <1>0, <1>9 DEF TimerClose, TimerTypeOK
  <2>2. DeliveryTypeOK'
    BY <1>0, <1>2, <2>1, DeliverySteps
  <2>3. KernelInv'
    BY <1>0, <1>1, <1>2, <2>1 DEF Shut, KernelInv
  <2> QED BY <2>1, <2>2, <2>3
<1>10. CASE TimerOpen
  <2>1. Open(timer, {}) \/ Open(timer, {"IN"})
    BY <1>10 DEF TimerOpen
  <2>2. TimerTypeOK'
    BY <1>0, <1>10, TimerAssumption DEF TimerOpen, TimerTypeOK
  <2> QED BY <1>4, <2>1, <2>2
<1>11. CASE SetCallback
  BY <1>0, <1>6, <1>11 DEF SetCallback, TimerTypeOK
<1>12. CASE TimerDispatch
  <2>1. Deliver(timer) /\ TimerTypeOK'
    BY <1>0, <1>12 DEF TimerDispatch, Dispatch, timerVars, TimerTypeOK
  <2>2. DeliveryTypeOK'
    BY <1>0, <1>2, <2>1, DeliverySteps
  <2> QED BY <1>5, <2>1, <2>2 DEF Deliver
<1>13. CASE Tick
  <2>1. TimerTypeOK'
    BY <1>0, <1>13 DEF Tick, timerVars, TimerTypeOK
  <2>2. Poll(timer, {}, FALSE) \/ UNCHANGED deliveryVars
    BY <1>13 DEF Tick
  <2> QED BY <1>3, <1>6, <2>1, <2>2
<1>14. CASE LoopSteps
  <2>1. TimerTypeOK'
    BY <1>0, <1>14 DEF LoopSteps, timerVars, TimerTypeOK
  <2>2. (\E S \in SUBSET FDs : Harvest(S)) \/ Finish
    BY <1>14 DEF LoopSteps, WaitFor, DispatchReturns
  <2>3. DeliveryTypeOK'
    BY <1>0, <1>2, <2>2, DeliverySteps
  <2>4. open' = open /\ mask' = mask /\ ready' \subseteq ready
    BY <2>2 DEF Harvest, Finish
  <2>5. KernelInv'
    BY <1>0, <1>1, <2>4 DEF KernelInv
  <2> QED BY <2>1, <2>3, <2>5
<1>15. CASE Registration
  <2>1. TimerTypeOK'
    BY <1>0, <1>15 DEF Registration, timerVars, TimerTypeOK
  <2>2. PICK fd \in FDs : Attach(fd) \/ Detach(fd)
    BY <1>15 DEF Registration, Add, Remove
  <2>3. DeliveryTypeOK'
    BY <1>0, <2>2, DeliverySteps
  <2>4. open' = open /\ mask' = mask /\ \A g \in ready' : g \in ready \/ mask[g] # {}
    BY <2>2 DEF Attach, Detach
  <2>5. KernelInv'
    BY <1>0, <1>1, <2>4 DEF KernelInv
  <2> QED BY <2>1, <2>3, <2>5
<1>16. CASE Returns
  BY <1>0, <1>6, <1>16 DEF Returns, CallbackReturn, timerVars, TimerTypeOK
<1> QED BY <1>7, <1>8, <1>9, <1>10, <1>11, <1>12, <1>13, <1>14, <1>15, <1>16
        DEF TimerNext, TimerLibrary

-----------------------------------------------------------------------------
(***************************************************************************)
(* The control side of a socket action: what it does to the stack, and the *)
(* move it makes with an operation, which is started, waits in a call or   *)
(* in a slot, and is ended by a callback or given up.                      *)
(***************************************************************************)
UserTop == stack = <<>> \/ Top.k = "user"

\* The calls of dispatch(), which starts at the bottom of the stack.
Serving == {"in", "out", "do", "hup", "accept"}

SocketNest ==
  \/ stack' = stack
  \/ Returned /\ Top.k # "tick"
  \/ /\ Len(stack) >= 1 /\ Top.k # "tick"
     /\ \E f \in Frames : /\ f.k \notin {"tick", "accept"}
                          /\ f.k \in Serving => Top.k \in Serving
                          /\ GoesOn(f)
  \/ /\ UserTop
     /\ \E g \in Frames : /\ g.k \notin {"tick", "accept"}
                          /\ g.k \in Serving => stack = <<>>
                          /\ Calls(g)
  \/ /\ Len(stack) >= 1 /\ Top.k # "tick"
     /\ \E f, g \in Frames :
          /\ f.k \in {"out", "accept", "try"} /\ g.k \in {"user", "do", "hup"}
          /\ (f = Top /\ g.k = "user") \/ (Top.k \in Serving /\ f.k \in Serving)
          /\ f.k = "accept" => UNCHANGED op /\ (Top.k = "accept" \/ op[0].repeat)
          /\ GoesOnCalls(f, g)

Ended(id) == hist' = [hist EXCEPT ![id].finals = @ + 1]
GivenUp(id) == hist' = [hist EXCEPT ![id].over = TRUE]

Works == SameHolders /\ UNCHANGED <<op, hist>>

LeavesSlot ==
  /\ SameHolders
  /\ \E slot \in 0..1 : /\ op[slot].operation # "none"
                        /\ Finished(slot)
                        /\ Ended(op[slot].id) \/ GivenUp(op[slot].id)

LeavesCall == LessTop /\ UNCHANGED op /\ (Ended(Top.id) \/ GivenUp(Top.id))

Parks ==
  /\ LessTop /\ UNCHANGED hist
  /\ \/ Top.k = "try" /\ WouldBlock /\ Stored(0, "accept", Top.repeat, Top.id)
     \/ Top.k = "hosts" /\ Top.form = "connect" /\ Stored(1, "connect", FALSE, Top.id)

StartsInSlot ==
  /\ UserTop /\ SameHolders /\ Len(hist) < MaxOps
  /\ \/ op[0].operation = "none" /\ Stored(0, "read", FALSE, NewId) /\ Started("read", 0)
     \/ op[1].operation = "none" /\ Stored(1, "connect", FALSE, NewId) /\ Started("connect", 0)

StartsAnswered ==
  SameHolders /\ UNCHANGED op /\ Len(hist) < MaxOps /\ Started("connect", 1)

StartsInCall ==
  /\ UserTop /\ UNCHANGED op /\ Len(hist) < MaxOps
  /\ \E g \in Frames :
       /\ Calls(g) /\ g.id = NewId
       /\ \/ /\ g.k = "try" /\ Started("accept", 0)
             /\ \/ "reenter" \in Habits
                \/ \A n \in DOMAIN stack : stack[n].k \notin {"try", "accept"}
          \/ g.k = "hosts" /\ op[1].operation = "none" /\ Started(g.form, 0)

Move ==
  \/ Works \/ LeavesSlot \/ LeavesCall \/ Parks
  \/ StartsInSlot \/ StartsAnswered \/ StartsInCall

\* What the loops over connections do to the operations of a user who cancels
\* or replaces a repeated accept in its callback: an operation is served that
\* was cancelled or is not repeated, or is cancelled while a call holds it.
Overserves ==
  /\ SameHolders /\ UNCHANGED op /\ stack # <<>>
  /\ \/ Top.k = "try" /\ hist[Top.id].over /\ Ended(Top.id)
     \/ /\ Top.k \in {"do", "accept"} /\ op[0].operation = "accept" /\ Ended(op[0].id)
        /\ hist[op[0].id].over \/ (Top.k = "accept" /\ ~op[0].repeat)

BreaksOff ==
  /\ "breakoff" \in Habits
  /\ SameHolders
  /\ \E slot \in 0..1 : Finished(slot)
  /\ \E ids : GiveUp(ids)

AnyMove == Move \/ Overserves \/ BreaksOff

Control == stack' \in Seq(Frames) /\ SocketNest /\ AnyMove

LEMMA KeptStack ==
  ASSUME stack \in Seq(Frames), stack' = stack
  PROVE  stack' \in Seq(Frames) /\ SocketNest /\ SameHolders
BY HolderSteps DEF SocketNest

LEMMA TopFacts ==
  ASSUME stack \in Seq(Frames), stack # <<>>
  PROVE  Len(stack) >= 1 /\ Top \in Frames
BY StackFacts

\* The four ways a call in progress goes on.
LEMMA ReturnStep ==
  ASSUME stack \in Seq(Frames), stack # <<>>, Top.k # "tick", Return
  PROVE  /\ Returned /\ stack' \in Seq(Frames) /\ SocketNest
         /\ Top.k \notin Holding => SameHolders
         /\ Top.k \in Holding => LessTop
<1>1. Returned
  BY StackSteps DEF Return
<1> QED BY <1>1, HolderSteps DEF SocketNest, Returned, Kept

LEMMA ReplaceStep ==
  ASSUME stack \in Seq(Frames), stack # <<>>, Top.k # "tick",
         NEW f \in Frames, f.k \notin {"tick", "accept"}, stack' = Replaced(f),
         f.k \in Serving => Top.k \in Serving
  PROVE  /\ GoesOn(f) /\ stack' \in Seq(Frames) /\ SocketNest
         /\ Top.k \notin Holding /\ f.k \notin Holding => SameHolders
         /\ Top.k \in Holding /\ f.k \notin Holding => LessTop
         /\ Top.k = "hosts" /\ f.k = "hosts" /\ f.id = Top.id /\ f.form = Top.form
              => SameHolders
<1>1. GoesOn(f)
  BY StackSteps
<1>2. stack' \in Seq(Frames) /\ SocketNest
  BY <1>1, TopFacts DEF SocketNest, GoesOn, Kept
<1> QED BY <1>1, <1>2, HolderSteps

LEMMA CallStep ==
  ASSUME stack \in Seq(Frames), UserTop,
         NEW g \in Frames, g.k \notin {"tick", "accept"}, stack' = Append(stack, g),
         g.k \in Serving => stack = <<>>
  PROVE  /\ Calls(g) /\ stack' \in Seq(Frames) /\ SocketNest
         /\ g.k \notin Holding => SameHolders
<1>1. Calls(g)
  BY StackSteps
<1> QED BY <1>1, HolderSteps DEF SocketNest, Calls, Kept

LEMMA ReplaceCallStep ==
  ASSUME stack \in Seq(Frames), stack # <<>>, Top.k # "tick",
         NEW f \in Frames, f.k \in {"out", "accept", "try"},
         NEW g \in Frames, g.k \in {"user", "do", "hup"},
         (f = Top /\ g.k = "user") \/ (Top.k \in Serving /\ f.k \in Serving),
         f.k = "accept" => UNCHANGED op /\ (Top.k = "accept" \/ op[0].repeat),
         stack' = Append(Replaced(f), g)
  PROVE  GoesOnCalls(f, g) /\ stack' \in Seq(Frames) /\ SocketNest /\ SameHolders
<1>1. GoesOnCalls(f, g)
  BY StackSteps
<1>2. stack' \in Seq(Frames) /\ SocketNest
  BY <1>1, TopFacts DEF SocketNest, GoesOnCalls, Kept
<1>3. g.k \notin Holding /\ (f = Top \/ (Top.k \notin Holding /\ f.k \notin Holding))
  BY DEF Holding, Serving
<1> QED BY <1>1, <1>2, <1>3, HolderSteps

\* The callback ends the operation of a slot, or the one the call holds.
LEMMA AnswerSlot ==
  ASSUME BaseInv, stack # <<>>, Top.k \in {"do", "hup", "accept"},
         NEW slot \in 0..1, op[slot].operation # "none", NEW r \in Int,
         Finished(slot), Answer(op[slot].id, r)
  PROVE  Control
<1>1. stack \in Seq(Frames) /\ op[slot].id \in Nat
  BY BaseFacts, SocketAssumption
<1> DEFINE f == UserFrame(op[slot].id, r)
<1>2. f \in Frames /\ f.k = "user"
  BY <1>1, MadeFrames
<1>3. stack' = Replaced(f) /\ Ended(op[slot].id)
  BY DEF Answer, Ended
<1> HIDE DEF f
<1>4. stack' \in Seq(Frames) /\ SocketNest /\ SameHolders
  BY <1>1, <1>2, <1>3, ReplaceStep DEF Holding, Serving
<1> QED BY <1>3, <1>4 DEF Control, AnyMove, Move, LeavesSlot

LEMMA AnswerCall ==
  ASSUME BaseInv, stack # <<>>, Top.k \in Holding, NEW r \in Int,
         UNCHANGED op, Answer(Top.id, r)
  PROVE  Control
<1>1. stack \in Seq(Frames) /\ Top.id \in Nat
  BY BaseFacts, TopFacts, FrameFacts, SocketAssumption DEF Holding
<1> DEFINE f == UserFrame(Top.id, r)
<1>2. f \in Frames /\ f.k = "user"
  BY <1>1, MadeFrames
<1>3. stack' = Replaced(f) /\ Ended(Top.id)
  BY DEF Answer, Ended
<1> HIDE DEF f
<1>4. stack' \in Seq(Frames) /\ SocketNest /\ LessTop
  BY <1>1, <1>2, <1>3, ReplaceStep DEF Holding, Serving
<1> QED BY <1>3, <1>4 DEF Control, AnyMove, Move, LeavesCall

LEMMA ReturnWorks ==
  ASSUME BaseInv, stack # <<>>, Top.k \in Kinds \ {"tick", "try", "hosts"},
         Return, UNCHANGED <<op, hist>>
  PROVE  Control
<1>1. stack \in Seq(Frames) /\ Top.k # "tick" /\ Top.k \notin Holding
  BY BaseFacts DEF Holding
<1>2. stack' \in Seq(Frames) /\ SocketNest /\ SameHolders
  BY <1>1, ReturnStep
<1> QED BY <1>2 DEF Control, AnyMove, Move, Works

LEMMA HostControl ==
  ASSUME BaseInv, HostStep
  PROVE  Control
<1>0. stack \in Seq(Frames) /\ stack # <<>> /\ Top.k = "hosts" /\ Top.k \in Holding
  BY BaseFacts DEF HostStep, TopIs, Holding
<1>1. Top \in Frames /\ Top.form \in Forms /\ Top.left \in 0..MaxHosts /\ Top.id \in 1..MaxOps
  BY <1>0, TopFacts, FrameFacts
<1>2. CASE /\ Top.left > 0
           /\ stack' = Replaced([Top EXCEPT !.left = @ - 1])
           /\ UNCHANGED <<op, hist>>
  <2> DEFINE f == [Top EXCEPT !.left = @ - 1]
  <2>1. Top \in [k : {"hosts"}, form : Forms, left : 0..MaxHosts, id : 1..MaxOps]
    BY <1>0, <1>1 DEF Frames
  <2>2. /\ f \in [k : {"hosts"}, form : Forms, left : 0..MaxHosts, id : 1..MaxOps]
        /\ f.k = "hosts" /\ f.id = Top.id /\ f.form = Top.form
    BY <1>2, <2>1, SocketAssumption
  <2>3. f \in Frames
    BY <2>2 DEF Frames
  <2> HIDE DEF f
  <2>4. stack' \in Seq(Frames) /\ SocketNest /\ SameHolders
    BY <1>0, <1>2, <2>2, <2>3, ReplaceStep DEF f, Serving
  <2> QED BY <1>2, <2>4 DEF Control, AnyMove, Move, Works
<1>3. ASSUME Return, UNCHANGED op, Ended(Top.id) \/ GivenUp(Top.id)
      PROVE  Control
  <2>1. stack' \in Seq(Frames) /\ SocketNest /\ LessTop
    BY <1>0, <1>3, ReturnStep
  <2> QED BY <1>3, <2>1 DEF Control, AnyMove, Move, LeavesCall
<1>4. CASE HostBinds
  BY <1>3, <1>4 DEF HostBinds, Ended
<1>5. CASE HostConnects
  <2>1. CASE Answer(Top.id, 0)
    BY <1>0, <1>5, <2>1, AnswerCall DEF HostConnects
  <2> QED BY <1>3, <1>5, <2>1 DEF HostConnects, Ended
<1>6. CASE ConnectHost
  <2>1. stack' \in Seq(Frames) /\ SocketNest /\ LessTop
    BY <1>0, <1>6, ReturnStep DEF ConnectHost
  <2> QED BY <1>0, <1>6, <2>1 DEF ConnectHost, Control, AnyMove, Move, Parks
<1>7. CASE Return /\ hist' = [hist EXCEPT ![Top.id].over = TRUE] /\ UNCHANGED op
  BY <1>3, <1>7 DEF GivenUp
<1> QED BY <1>2, <1>4, <1>5, <1>6, <1>7 DEF HostStep

\* Giving up one operation.
LEMMA GiveUpOne ==
  ASSUME hist \in Seq(Entries), NEW id, GiveUp({id})
  PROVE  GivenUp(id)
BY DEF GiveUp, GivenUp

\* The calls of the user.
LEMMA UserControl ==
  ASSUME BaseInv, SocketUser
  PROVE  Control
<1>0. /\ stack \in Seq(Frames) /\ hist \in Seq(Entries) /\ Len(hist) <= MaxOps
      /\ MaxOps \in Nat /\ UserTop
  BY BaseFacts, SocketAssumption
     DEF SocketUser, SocketOpen, SocketClose, Listen, Shutdown, Connect, ConnectNow, Read,
         Cancel, MayCancel, ByHost, Accept, MayStart, UserCode, AtRest, TopIs, UserTop
<1>1. Len(hist) \in Nat
  BY <1>0, SeqFacts
<1>2. Len(hist) < MaxOps => NewId \in 1..MaxOps /\ NewId \in Nat
  BY <1>0, <1>1 DEF NewId
<1>3. CASE SocketOpen \/ SocketClose \/ Listen \/ Shutdown \/ ConnectNow
  <2>1. UNCHANGED <<op, hist, stack>>
    BY <1>3 DEF SocketOpen, SocketClose, Listen, Shutdown, ConnectNow
  <2> QED BY <1>0, <2>1, KeptStack DEF Control, AnyMove, Move, Works
<1>4. CASE Connect
  <2>1. PICK res \in Attempts :
          IF res[2] = "EINPROGRESS"
            THEN /\ Stored(1, "connect", FALSE, NewId)
                 /\ Started("connect", 0)
                 /\ UNCHANGED stack
            ELSE /\ stack' = Append(stack, UserFrame(NewId,
                                             IF res[2] = "0" THEN 0 ELSE -1))
                 /\ Started("connect", 1)
                 /\ UNCHANGED op
    BY <1>4 DEF Connect
  <2>2. Len(hist) < MaxOps /\ op[1].operation = "none"
    BY <1>4 DEF Connect, MayStart
  <2>3. CASE res[2] = "EINPROGRESS"
    BY <1>0, <2>1, <2>2, <2>3, KeptStack DEF Control, AnyMove, Move, StartsInSlot
  <2>4. CASE res[2] # "EINPROGRESS"
    <3> DEFINE g == UserFrame(NewId, IF res[2] = "0" THEN 0 ELSE -1)
    <3>1. g \in Frames /\ g.k = "user"
      BY <1>2, <2>2, MadeFrames
    <3>2. stack' = Append(stack, g) /\ Started("connect", 1) /\ UNCHANGED op
      BY <2>1, <2>4
    <3> HIDE DEF g
    <3>3. stack' \in Seq(Frames) /\ SocketNest /\ SameHolders
      BY <1>0, <3>1, <3>2, CallStep DEF Holding, Serving
    <3> QED BY <2>2, <3>2, <3>3 DEF Control, AnyMove, Move, StartsAnswered
  <2> QED BY <2>3, <2>4
<1>5. CASE Read
  BY <1>0, <1>5, KeptStack DEF Read, MayStart, Control, AnyMove, Move, StartsInSlot
<1>6. ASSUME NEW slot \in 0..1, Cancel(slot) PROVE Control
  <2>1. /\ CancelTargets(slot) # {} /\ (slot = 0 /\ Loops # {} => "breakoff" \in Habits)
        /\ Finished(slot) /\ GiveUp(CancelTargets(slot)) /\ UNCHANGED stack
    BY <1>6 DEF Cancel, MayCancel
  <2>2. stack' \in Seq(Frames) /\ SocketNest /\ SameHolders
    BY <1>0, <2>1, KeptStack
  <2>3. CASE slot = 0 /\ Loops # {}
    BY <2>1, <2>2, <2>3 DEF Control, AnyMove, BreaksOff
  <2>4. CASE ~(slot = 0 /\ Loops # {})
    <3>1. op[slot].operation # "none" /\ CancelTargets(slot) = {op[slot].id}
      BY <2>1, <2>4 DEF CancelTargets
    <3>2. GivenUp(op[slot].id)
      BY <1>0, <2>1, <3>1, GiveUpOne
    <3> QED BY <2>1, <2>2, <3>1, <3>2 DEF Control, AnyMove, Move, LeavesSlot
  <2> QED BY <2>3, <2>4
<1>7. ASSUME NEW form \in Forms, ByHost(form) PROVE Control
  <2>1. PICK n \in 1..MaxHosts :
          stack' = Append(stack, [k |-> "hosts", form |-> form, left |-> n, id |-> NewId])
    BY <1>7 DEF ByHost
  <2>2. /\ Len(hist) < MaxOps /\ op[1].operation = "none" /\ Started(form, 0) /\ UNCHANGED op
    BY <1>7 DEF ByHost, MayStart
  <2> DEFINE g == [k |-> "hosts", form |-> form, left |-> n, id |-> NewId]
  <2>3. g \in Frames /\ g.k = "hosts" /\ g.id = NewId /\ g.form = form
    BY <1>2, <2>2, MadeFrames, SocketAssumption
  <2>4. stack' = Append(stack, g)
    BY <2>1
  <2> HIDE DEF g
  <2>5. Calls(g) /\ stack' \in Seq(Frames) /\ SocketNest
    BY <1>0, <2>3, <2>4, CallStep DEF Serving
  <2> QED BY <1>0, <2>2, <2>3, <2>5 DEF Control, AnyMove, Move, StartsInCall
<1>8. ASSUME NEW repeat \in BOOLEAN, Accept(repeat) PROVE Control
  <2> DEFINE g == [k |-> "try", repeat |-> repeat, id |-> NewId]
  <2>1. /\ Len(hist) < MaxOps /\ Started("accept", 0) /\ UNCHANGED op
        /\ stack' = Append(stack, g)
        /\ \/ "reenter" \in Habits
           \/ \A n \in DOMAIN stack : stack[n].k \notin {"try", "accept"}
    BY <1>8 DEF Accept, MayStart
  <2>2. g \in Frames /\ g.k = "try" /\ g.id = NewId
    BY <1>2, <2>1, MadeFrames
  <2> HIDE DEF g
  <2>3. Calls(g) /\ stack' \in Seq(Frames) /\ SocketNest
    BY <1>0, <2>1, <2>2, CallStep DEF Serving
  <2> QED BY <1>0, <2>1, <2>2, <2>3 DEF Control, AnyMove, Move, StartsInCall
<1> QED BY <1>3, <1>4, <1>5, <1>6, <1>7, <1>8 DEF SocketUser

\* accept: the synchronous attempt and the branches of dispatch().
LEMMA AcceptControl ==
  ASSUME BaseInv, TryAccept \/ DoAccept \/ HupAccept
  PROVE  Control
<1>0. stack \in Seq(Frames) /\ op[0].id \in Nat
  BY BaseFacts, SocketAssumption
<1>1. ASSUME NEW f \in Frames, f.k \in {"accept", "try"}, NEW id \in Nat, NEW repeat,
             stack # <<>>, Top.k # "tick", PassOn(f, id, repeat), UNCHANGED op,
             f = Top \/ (Top.k \in Serving /\ f.k = "accept"),
             f.k = "accept" => Top.k = "accept" \/ op[0].repeat,
             ~(repeat /\ ~hist[id].over) /\ Ended(id) /\ SameHolders => Overserves
      PROVE  Control
  <2>1. UserFrame(id, 1) \in Frames /\ UserFrame(id, 1).k = "user"
    BY MadeFrames
  <2>2. stack' = Append(Replaced(f), UserFrame(id, 1))
    BY <1>1 DEF PassOn
  <2>3. stack' \in Seq(Frames) /\ SocketNest /\ SameHolders
    BY <1>0, <1>1, <2>1, <2>2, ReplaceCallStep DEF Serving
  <2>4. CASE UNCHANGED hist
    BY <1>1, <2>3, <2>4 DEF Control, AnyMove, Move, Works
  <2>5. CASE ~(repeat /\ ~hist[id].over) /\ Ended(id)
    BY <1>1, <2>3, <2>5 DEF Control, AnyMove
  <2> QED BY <1>1, <2>4, <2>5 DEF PassOn, Ended
<1>2. CASE TryAccept
  <2>1. stack # <<>> /\ Top.k = "try" /\ Top.k \in Holding
    BY <1>2 DEF TryAccept, TopIs, Holding
  <2>2. Top \in Frames /\ Top.id \in 1..MaxOps /\ Top.id \in Nat
    BY <1>0, <2>1, TopFacts, FrameFacts, SocketAssumption
  <2>3. CASE WouldBlock /\ Stored(0, "accept", Top.repeat, Top.id) /\ Return /\ UNCHANGED hist
    <3>1. stack' \in Seq(Frames) /\ SocketNest /\ LessTop
      BY <1>0, <2>1, <2>3, ReturnStep
    <3> QED BY <2>1, <2>3, <3>1 DEF Control, AnyMove, Move, Parks
  <2>4. CASE UNCHANGED op /\ (Answer(Top.id, -1) \/ Answer(Top.id, 1))
    BY <2>1, <2>4, AnswerCall
  <2>5. CASE UNCHANGED op /\ PassOn(Top, Top.id, TRUE)
    <3>1. ~(TRUE /\ ~hist[Top.id].over) /\ Ended(Top.id) /\ SameHolders => Overserves
      BY <2>1, <2>5 DEF Overserves
    <3> QED BY <1>1, <2>1, <2>2, <2>5, <3>1
  <2> QED BY <1>2, <2>3, <2>4, <2>5 DEF TryAccept
<1>3. CASE DoAccept
  <2>1. stack # <<>> /\ Top.k \in {"do", "accept"} /\ op[0].operation = "accept"
    BY <1>3 DEF DoAccept, TopIs, LoopsAgain
  <2>2. CASE Return /\ UNCHANGED <<op, hist>>
    BY <2>1, <2>2, ReturnWorks DEF Kinds
  <2>3. CASE Finished(0) /\ (Answer(op[0].id, -1) \/ Answer(op[0].id, 1))
    BY <2>1, <2>3, AnswerSlot
  <2>4. CASE /\ PassOn([k |-> "accept"], op[0].id, op[0].repeat) /\ UNCHANGED op
             /\ op[0].repeat \/ TopIs("accept")
    <3>1. [k |-> "accept"] \in Frames /\ [k |-> "accept"].k = "accept"
      BY MadeFrames
    <3>2. op[0].repeat \/ Top.k = "accept"
      BY <2>4 DEF TopIs
    <3>3. /\ ~(op[0].repeat /\ ~hist[op[0].id].over) /\ Ended(op[0].id) /\ SameHolders
            => Overserves
      BY <2>1, <2>4, <3>2 DEF Overserves
    <3> QED BY <1>0, <1>1, <2>1, <2>4, <3>1, <3>2, <3>3 DEF Serving
  <2> QED BY <1>3, <2>2, <2>3, <2>4 DEF DoAccept
<1>4. CASE HupAccept
  <2>1. stack # <<>> /\ Top.k = "hup" /\ op[Top.slot].operation # "none" /\ Top.slot \in 0..1
    BY <1>0, <1>4, TopFacts, FrameFacts DEF HupAccept, TopIs
  <2> QED BY <1>4, <2>1, AnswerSlot DEF HupAccept
<1> QED BY <1>2, <1>3, <1>4

\* The other branches of doOperation and handleHup.
LEMMA SlotControl ==
  ASSUME BaseInv, ConnectDone \/ DoRead \/ HupRead \/ DoNone
  PROVE  Control
<1>0. stack \in Seq(Frames)
  BY BaseFacts
<1>1. ASSUME stack # <<>>, Top.k \in {"do", "hup"} PROVE Top.slot \in 0..1
  BY <1>0, <1>1, TopFacts, FrameFacts
<1>2. CASE ConnectDone
  <2>1. stack # <<>> /\ Top.k \in {"do", "hup"} /\ op[Top.slot].operation # "none"
    BY <1>2 DEF ConnectDone, TopIs
  <2>2. ConnectResult \in Int
    BY DEF ConnectResult
  <2> QED BY <1>1, <1>2, <2>1, <2>2, AnswerSlot DEF ConnectDone
<1>3. CASE DoRead
  <2>1. stack # <<>> /\ Top.k = "do" /\ op[Top.slot].operation # "none"
    BY <1>3 DEF DoRead, TopIs
  <2>2. CASE Return /\ UNCHANGED <<op, hist>>
    BY <2>1, <2>2, ReturnWorks DEF Kinds
  <2>3. ASSUME NEW r \in Int, Finished(Top.slot), Answer(op[Top.slot].id, r) PROVE Control
    BY <1>1, <2>1, <2>3, AnswerSlot
  <2>4. (IF st = "failed" /\ ~soerr THEN 0 ELSE -1) \in Int
    OBVIOUS
  <2> QED BY <1>3, <2>2, <2>3, <2>4 DEF DoRead
<1>4. CASE HupRead
  <2>1. stack # <<>> /\ Top.k = "hup" /\ op[Top.slot].operation # "none"
    BY <1>4 DEF HupRead, TopIs
  <2> QED BY <1>1, <1>4, <2>1, AnswerSlot DEF HupRead
<1>5. CASE DoNone
  <2>1. stack # <<>> /\ Top.k \in {"do", "hup", "accept"} /\ Return /\ UNCHANGED <<op, hist>>
    BY <1>5 DEF DoNone, TopIs, socketVars
  <2> QED BY <2>1, ReturnWorks DEF Kinds
<1> QED BY <1>2, <1>3, <1>4, <1>5

LEMMA ReplacedIsSeq ==
  ASSUME stack \in Seq(Frames), stack # <<>>, NEW f \in Frames
  PROVE  Replaced(f) \in Seq(Frames)
<1>1. Popped \in Seq(Frames)
  BY PopFacts DEF Popped
<1> QED BY <1>1, PushFacts DEF Replaced

\* dispatch(), and what the kernel does by itself.
LEMMA DispatchControl ==
  ASSUME BaseInv, SocketDispatch \/ InPhase \/ OutPhase \/ PeerConnects \/ ConnectEnds
  PROVE  Control
<1>0. stack \in Seq(Frames)
  BY BaseFacts
<1>1. CASE SocketDispatch
  <2> DEFINE g == [k |-> "in"]
  <2>1. stack = <<>> /\ stack' = <<g>> /\ UNCHANGED <<op, hist>>
    BY <1>1 DEF SocketDispatch, Dispatch, socketVars
  <2>2. g \in Frames /\ g.k = "in"
    BY MadeFrames
  <2>3. stack' = Append(stack, g)
    BY <2>1
  <2> HIDE DEF g
  <2>4. stack' \in Seq(Frames) /\ SocketNest /\ SameHolders
    BY <1>0, <2>1, <2>2, <2>3, CallStep DEF UserTop, Holding
  <2> QED BY <2>1, <2>4 DEF Control, AnyMove, Move, Works
<1>2. ASSUME NEW f \in Frames, f.k \in {"out", "do", "hup"}, stack # <<>>,
             Top.k \in {"in", "out"}, stack' = Replaced(f), UNCHANGED <<op, hist>>
      PROVE  Control
  <2>1. stack' \in Seq(Frames) /\ SocketNest /\ SameHolders
    BY <1>0, <1>2, ReplaceStep DEF Holding, Serving
  <2> QED BY <1>2, <2>1 DEF Control, AnyMove, Move, Works
<1>3. CASE InPhase
  <2> DEFINE f == [k |-> "out"]
  <2>1. stack # <<>> /\ Top.k = "in" /\ UNCHANGED <<op, hist>>
    BY <1>3 DEF InPhase, TopIs, socketVars
  <2>2. f \in Frames /\ f.k = "out"
    BY MadeFrames
  <2>3. /\ Serve(0) \in Frames /\ Serve(0).k = "do"
        /\ HangUp(0) \in Frames /\ HangUp(0).k = "hup"
    BY MadeFrames
  <2>4. \/ stack' = Replaced(f)
        \/ stack' = Replaced(f) \o <<Serve(0)>>
        \/ stack' = Replaced(f) \o <<HangUp(0)>>
    BY <1>3 DEF InPhase
  <2> HIDE DEF f
  <2>5. \A g \in Frames : Replaced(f) \o <<g>> = Append(Replaced(f), g)
    BY <1>0, <2>1, <2>2, ReplacedIsSeq, AppendIsConcat
  <2>6. ASSUME NEW g \in Frames, g.k \in {"do", "hup"}, stack' = Append(Replaced(f), g)
        PROVE  Control
    <3>1. stack' \in Seq(Frames) /\ SocketNest /\ SameHolders
      BY <1>0, <2>1, <2>2, <2>6, ReplaceCallStep DEF Serving
    <3> QED BY <2>1, <3>1 DEF Control, AnyMove, Move, Works
  <2>7. CASE stack' = Replaced(f)
    BY <1>2, <2>1, <2>2, <2>7
  <2> QED BY <2>3, <2>4, <2>5, <2>6, <2>7
<1>4. CASE OutPhase
  <2>1. stack # <<>> /\ Top.k = "out" /\ UNCHANGED <<op, hist>>
    BY <1>4 DEF OutPhase, TopIs, socketVars
  <2>2. /\ Serve(1) \in Frames /\ Serve(1).k = "do"
        /\ HangUp(1) \in Frames /\ HangUp(1).k = "hup"
    BY MadeFrames
  <2>3. stack' = Replaced(Serve(1)) \/ stack' = Replaced(HangUp(1)) \/ stack' = Popped
    BY <1>4 DEF OutPhase, OutFrame
  <2>4. CASE stack' = Popped
    BY <2>1, <2>4, ReturnWorks DEF Return, Kinds
  <2> QED BY <1>2, <2>1, <2>2, <2>3, <2>4
<1>5. CASE PeerConnects \/ ConnectEnds
  <2>1. UNCHANGED <<op, hist, stack>>
    BY <1>5 DEF PeerConnects, ConnectEnds
  <2> QED BY <1>0, <2>1, KeptStack DEF Control, AnyMove, Move, Works
<1> QED BY <1>1, <1>3, <1>4, <1>5

LEMMA ControlSteps ==
  ASSUME BaseInv, SocketNext
  PROVE  Control
BY HostControl, UserControl, AcceptControl, SlotControl, DispatchControl
   DEF SocketNext, SocketLibrary

\* The other actions: the timer's, the loop's, and the return of a callback.
Others ==
  /\ TimerNext \/ ((LoopSteps \/ Registration \/ Returns) /\ UNCHANGED timerVars)
  /\ UNCHANGED socketVars

OtherNest ==
  \/ stack' = stack
  \/ Returned /\ Top.k = "user"
  \/ Returned /\ Top.k = "tick"
  \/ Top.k = "tick" /\ Len(stack) >= 1 /\ \E f \in Frames : f.k = "user" /\ GoesOn(f)
  \/ stack = <<>> /\ \E g \in Frames : g.k = "tick" /\ Calls(g)

LEMMA NextSplit ==
  ASSUME Next
  PROVE  (SocketNext /\ UNCHANGED timerVars) \/ Others
BY DEF Next, Others, LoopSteps, Registration, Returns

LEMMA OtherControl ==
  ASSUME BaseInv, Others
  PROVE  stack' \in Seq(Frames) /\ OtherNest /\ Works
<1>0. stack \in Seq(Frames) /\ UNCHANGED <<op, hist>>
  BY BaseFacts DEF Others, socketVars
<1>1. ASSUME stack' = stack PROVE stack' \in Seq(Frames) /\ OtherNest /\ Works
  BY <1>0, <1>1, KeptStack DEF OtherNest, Works
<1>2. ASSUME stack # <<>>, Top.k \in {"user", "tick"}, Return
      PROVE  stack' \in Seq(Frames) /\ OtherNest /\ Works
  <2>1. Returned
    BY <1>0, <1>2, StackSteps DEF Return
  <2>2. stack' \in Seq(Frames) /\ OtherNest
    BY <1>2, <2>1 DEF Returned, Kept, OtherNest
  <2>3. SameHolders
    BY <1>0, <1>2, <2>1, HolderSteps DEF Holding
  <2> QED BY <1>0, <2>2, <2>3 DEF Works
<1>3. CASE Expire \/ SetInterval \/ TimerClose \/ TimerOpen \/ SetCallback
  <2>1. stack' = stack
    BY <1>3 DEF Expire, SetInterval, setInterval, TimerClose, TimerOpen, SetCallback
  <2> QED BY <1>1, <2>1
<1>4. CASE TimerDispatch
  <2> DEFINE g == [k |-> "tick"]
  <2>1. stack = <<>> /\ stack' = <<g>>
    BY <1>4 DEF TimerDispatch, Dispatch
  <2>2. g \in Frames /\ g.k = "tick"
    BY MadeFrames
  <2>3. stack' = Append(stack, g)
    BY <2>1
  <2> HIDE DEF g
  <2>4. Calls(g)
    BY <1>0, <2>2, <2>3, StackSteps
  <2>5. stack' \in Seq(Frames) /\ OtherNest
    BY <2>1, <2>2, <2>4 DEF Calls, Kept, OtherNest
  <2>6. SameHolders
    BY <1>0, <2>2, <2>4, HolderSteps DEF Holding
  <2> QED BY <1>0, <2>5, <2>6 DEF Works
<1>5. CASE Tick
  <2>1. stack # <<>> /\ Top.k = "tick"
    BY <1>5 DEF Tick, TopIs
  <2>2. CASE stack' = Replaced(UserFrame(0, 1))
    <3>1. UserFrame(0, 1) \in Frames /\ UserFrame(0, 1).k = "user"
      BY MadeFrames
    <3>2. GoesOn(UserFrame(0, 1))
      BY <1>0, <2>1, <2>2, <3>1, StackSteps
    <3>3. stack' \in Seq(Frames) /\ OtherNest
      BY <2>1, <3>1, <3>2 DEF GoesOn, Kept, OtherNest
    <3>4. SameHolders
      BY <1>0, <2>1, <3>1, <3>2, HolderSteps DEF Holding
    <3> QED BY <1>0, <3>3, <3>4 DEF Works
  <2> QED BY <1>2, <1>5, <2>1, <2>2 DEF Tick
<1>6. CASE LoopSteps \/ Registration
  <2>1. stack' = stack
    BY <1>6 DEF LoopSteps, WaitFor, DispatchReturns, Registration, Add, Remove
  <2> QED BY <1>1, <2>1
<1>7. CASE Returns
  BY <1>2, <1>7 DEF Returns, CallbackReturn, TopIs
<1> QED BY <1>3, <1>4, <1>5, <1>6, <1>7 DEF Others, TimerNext, TimerLibrary

\* The entry of an operation in the history, after its callback ended it.
LEMMA EndedFacts ==
  ASSUME hist \in Seq(Entries), NEW id, Ended(id)
  PROVE  /\ hist' \in Seq(Entries) /\ Len(hist') = Len(hist)
         /\ \A n \in 1..Len(hist) :
              /\ hist'[n].o = hist[n].o /\ hist'[n].over = hist[n].over
              /\ n # id => hist'[n] = hist[n]
              /\ n = id => hist'[n].finals = hist[n].finals + 1
<1>1. Len(hist) \in Nat /\ DOMAIN hist = 1..Len(hist) /\ \A n \in 1..Len(hist) : hist[n] \in Entries
  BY SeqFacts
<1>2. hist' = [n \in 1..Len(hist) |-> IF n = id THEN [hist[n] EXCEPT !.finals = @ + 1]
                                                ELSE hist[n]]
  BY <1>1 DEF Ended
<1>3. \A n \in 1..Len(hist) : hist'[n] \in Entries
  <2>1. \A e \in Entries : [e EXCEPT !.finals = @ + 1] \in Entries
    BY DEF Entries
  <2> QED BY <1>1, <1>2, <2>1
<1>4. hist' \in [1..Len(hist) -> Entries]
  BY <1>2, <1>3
<1>5. hist' \in Seq(Entries) /\ Len(hist') = Len(hist)
  BY <1>1, <1>4
<1>6. \A n \in 1..Len(hist) :
        /\ hist'[n].o = hist[n].o /\ hist'[n].over = hist[n].over
        /\ n # id => hist'[n] = hist[n]
        /\ n = id => hist'[n].finals = hist[n].finals + 1
  BY <1>1, <1>2 DEF Entries
<1> QED BY <1>5, <1>6

\* And after the user gave it up.
LEMMA GivenUpFacts ==
  ASSUME hist \in Seq(Entries), NEW id, GivenUp(id)
  PROVE  /\ hist' \in Seq(Entries) /\ Len(hist') = Len(hist)
         /\ \A n \in 1..Len(hist) :
              /\ hist'[n].o = hist[n].o /\ hist'[n].finals = hist[n].finals
              /\ n # id => hist'[n] = hist[n]
              /\ n = id => hist'[n].over = TRUE
<1>1. Len(hist) \in Nat /\ DOMAIN hist = 1..Len(hist) /\ \A n \in 1..Len(hist) : hist[n] \in Entries
  BY SeqFacts
<1>2. hist' = [n \in 1..Len(hist) |-> IF n = id THEN [hist[n] EXCEPT !.over = TRUE]
                                                ELSE hist[n]]
  BY <1>1 DEF GivenUp
<1>3. \A n \in 1..Len(hist) : hist'[n] \in Entries
  <2>1. \A e \in Entries : [e EXCEPT !.over = TRUE] \in Entries
    BY DEF Entries
  <2> QED BY <1>1, <1>2, <2>1
<1>4. hist' \in [1..Len(hist) -> Entries]
  BY <1>2, <1>3
<1>5. hist' \in Seq(Entries) /\ Len(hist') = Len(hist)
  BY <1>1, <1>4
<1>6. \A n \in 1..Len(hist) :
        /\ hist'[n].o = hist[n].o /\ hist'[n].finals = hist[n].finals
        /\ n # id => hist'[n] = hist[n]
        /\ n = id => hist'[n].over = TRUE
  BY <1>1, <1>2 DEF Entries
<1> QED BY <1>5, <1>6

LEMMA GiveUpFacts ==
  ASSUME hist \in Seq(Entries), NEW ids, GiveUp(ids)
  PROVE  hist' \in Seq(Entries) /\ Len(hist') = Len(hist)
<1>1. Len(hist) \in Nat /\ DOMAIN hist = 1..Len(hist) /\ \A n \in 1..Len(hist) : hist[n] \in Entries
  BY SeqFacts
<1>2. \A e \in Entries : [e EXCEPT !.over = TRUE] \in Entries
  BY DEF Entries
<1>3. hist' \in [1..Len(hist) -> Entries]
  BY <1>1, <1>2 DEF GiveUp
<1> QED BY <1>1, <1>3

\* A new operation takes the next place of the history.
LEMMA StartedFacts ==
  ASSUME hist \in Seq(Entries), NEW o \in {"accept", "read"} \cup Forms,
         NEW finals \in Nat, Started(o, finals)
  PROVE  /\ hist' \in Seq(Entries) /\ Len(hist') = Len(hist) + 1
         /\ \A n \in 1..Len(hist) : hist'[n] = hist[n]
         /\ hist'[Len(hist) + 1].o = o /\ hist'[Len(hist) + 1].finals = finals
         /\ hist'[Len(hist) + 1].over = FALSE
<1> DEFINE e == [o |-> o, finals |-> finals, over |-> FALSE]
<1>1. e \in Entries /\ e.o = o /\ e.finals = finals /\ e.over = FALSE
  BY DEF Entries
<1>2. hist' = Append(hist, e)
  BY DEF Started
<1> HIDE DEF e
<1>3. /\ hist' \in Seq(Entries) /\ Len(hist') = Len(hist) + 1
      /\ \A n \in 1..Len(hist) : hist'[n] = hist[n]
      /\ hist'[Len(hist) + 1] = e
  BY <1>1, <1>2, PushFacts
<1> QED BY <1>1, <1>3

Slots == [operation : {"none", "accept", "connect", "read"},
          repeat : BOOLEAN, id : 0..MaxOps]

LEMMA MoveTypes ==
  ASSUME BaseInv, AnyMove
  PROVE  /\ op' \in [0..1 -> Slots]
         /\ hist' \in Seq(Entries) /\ Len(hist') <= MaxOps
<1> USE SocketAssumption
<1>0. /\ op \in [0..1 -> Slots] /\ hist \in Seq(Entries) /\ Len(hist) <= MaxOps
      /\ stack \in Seq(Frames)
  BY BaseFacts DEF Slots
<1>1. Len(hist) \in Nat
  BY <1>0, SeqFacts
<1>2. NoOp \in Slots
  BY DEF NoOp, Slots
<1>3. CASE Works
  BY <1>0, <1>3 DEF Works
<1>4. CASE LeavesSlot
  <2>1. PICK slot \in 0..1 : Finished(slot) /\ (Ended(op[slot].id) \/ GivenUp(op[slot].id))
    BY <1>4 DEF LeavesSlot
  <2>2. op' \in [0..1 -> Slots]
    BY <1>0, <1>2, <2>1 DEF Finished
  <2> QED BY <1>0, <2>1, <2>2, EndedFacts, GivenUpFacts
<1>5. CASE LeavesCall
  <2>1. UNCHANGED op /\ (Ended(Top.id) \/ GivenUp(Top.id))
    BY <1>5 DEF LeavesCall
  <2> QED BY <1>0, <2>1, EndedFacts, GivenUpFacts
<1>6. ASSUME NEW slot \in 0..1, NEW o \in {"accept", "connect", "read"}, NEW r \in BOOLEAN,
             NEW id \in 0..MaxOps, Stored(slot, o, r, id)
      PROVE  op' \in [0..1 -> Slots]
  <2>1. [operation |-> o, repeat |-> r, id |-> id] \in Slots
    BY DEF Slots
  <2>2. op' = [op EXCEPT ![slot] = [operation |-> o, repeat |-> r, id |-> id]]
    BY <1>6, Zenon DEF Stored
  <2> QED BY <1>0, <2>1, <2>2
<1>slots. 0 \in 0..1 /\ 1 \in 0..1
  OBVIOUS
<1>7. CASE Parks
  <2>1. hist' = hist /\ stack # <<>> /\ Top.k \in Holding
    BY <1>7 DEF Parks, LessTop
  <2>2. Top.id \in 0..MaxOps /\ (Top.k = "try" => Top.repeat \in BOOLEAN)
    BY <1>0, <2>1, TopFacts, FrameFacts DEF Holding
  <2>3. op' \in [0..1 -> Slots]
    <3>1. CASE Top.k = "try" /\ Stored(0, "accept", Top.repeat, Top.id)
      BY <1>6, <1>slots, <2>2, <3>1, Zenon
    <3>2. CASE Stored(1, "connect", FALSE, Top.id)
      BY <1>6, <1>slots, <2>2, <3>2, Zenon
    <3> QED BY <1>7, <3>1, <3>2 DEF Parks
  <2> QED BY <1>0, <2>1, <2>3
<1>8. ASSUME NEW o \in {"accept", "read"} \cup Forms, NEW finals \in Nat,
             Started(o, finals), Len(hist) < MaxOps
      PROVE  hist' \in Seq(Entries) /\ Len(hist') <= MaxOps
  <2>1. hist' \in Seq(Entries) /\ Len(hist') = Len(hist) + 1
    BY <1>0, <1>8, StartedFacts
  <2> QED BY <1>1, <1>8, <2>1
<1>9. "connect" \in Forms
  BY DEF Forms
<1>10. Len(hist) < MaxOps => NewId \in 0..MaxOps
  BY <1>1 DEF NewId
<1>11. CASE StartsInSlot
  <2>1. op' \in [0..1 -> Slots]
    <3>1. NewId \in 0..MaxOps
      BY <1>10, <1>11 DEF StartsInSlot
    <3>2. CASE Stored(0, "read", FALSE, NewId)
      BY <1>6, <1>slots, <3>1, <3>2, Zenon
    <3>3. CASE Stored(1, "connect", FALSE, NewId)
      BY <1>6, <1>slots, <3>1, <3>3, Zenon
    <3> QED BY <1>11, <3>2, <3>3 DEF StartsInSlot
  <2>2. hist' \in Seq(Entries) /\ Len(hist') <= MaxOps
    BY <1>8, <1>9, <1>11 DEF StartsInSlot
  <2> QED BY <2>1, <2>2
<1>12. CASE StartsAnswered
  BY <1>0, <1>8, <1>9, <1>12 DEF StartsAnswered
<1>13. CASE StartsInCall
  <2>1. PICK g \in Frames : \/ g.k = "try" /\ Started("accept", 0)
                            \/ g.k = "hosts" /\ Started(g.form, 0)
    BY <1>13 DEF StartsInCall
  <2>2. g.k = "hosts" => g.form \in Forms
    BY FrameFacts
  <2>3. op' = op /\ Len(hist) < MaxOps
    BY <1>13 DEF StartsInCall
  <2> QED BY <1>0, <1>8, <2>1, <2>2, <2>3
<1>14. CASE Overserves
  <2>1. UNCHANGED op /\ \E id : Ended(id)
    BY <1>14 DEF Overserves
  <2> QED BY <1>0, <2>1, EndedFacts
<1>15. CASE BreaksOff
  <2>1. PICK slot \in 0..1 : Finished(slot)
    BY <1>15 DEF BreaksOff
  <2>2. op' \in [0..1 -> Slots]
    BY <1>0, <1>2, <2>1 DEF Finished
  <2>3. \E ids : GiveUp(ids)
    BY <1>15 DEF BreaksOff
  <2> QED BY <1>0, <2>2, <2>3, GiveUpFacts
<1> QED BY <1>3, <1>4, <1>5, <1>7, <1>11, <1>12, <1>13, <1>14, <1>15 DEF AnyMove, Move

LEMMA BaseInit == Init => BaseInv
<1> SUFFICES ASSUME Init PROVE BaseInv
  OBVIOUS
<1> USE TimerAssumption, SocketAssumption, ReactorAssumption
<1>1. DeliveryTypeOK
  BY DEF Init, DeliveryInit, DeliveryTypeOK
<1>2. TimerTypeOK
  BY DEF Init, TimerInit, TimerTypeOK
<1>3. SocketTypeOK
  <2>1. op \in [0..1 -> [operation : {"none", "accept", "connect", "read"},
                          repeat : BOOLEAN, id : 0..MaxOps]]
    BY DEF Init, SocketInit, NoOp
  <2>2. backlog = 0 /\ peers = MaxPeers /\ hist = <<>> /\ st = "none" /\ soerr = FALSE
    BY DEF Init, SocketInit
  <2>3. backlog \in 0..MaxPeers /\ peers \in 0..MaxPeers
    BY <2>2
  <2>4. hist \in Seq([o : {"accept", "read"} \cup Forms, finals : Nat, over : BOOLEAN])
    BY <2>2
  <2>5. /\ st \in {"none", "fresh", "listen", "connecting", "connected", "failed"}
        /\ soerr \in BOOLEAN
    BY <2>2
  <2> QED BY <2>1, <2>3, <2>4, <2>5, Zenon DEF SocketTypeOK
<1>4. KernelInv
  BY DEF Init, SocketInit, DeliveryInit, KernelInv, MaskOf
<1>5. TypeOK
  BY <1>1, <1>2, <1>3 DEF Init, TypeOK
<1> QED BY <1>4, <1>5 DEF Init, SocketInit, BaseInv

LEMMA BaseNext == BaseInv /\ [Next]_vars => BaseInv'
<1> SUFFICES ASSUME BaseInv, [Next]_vars PROVE BaseInv'
  OBVIOUS
<1>0. /\ DeliveryTypeOK /\ TimerTypeOK
      /\ st \in States /\ soerr \in BOOLEAN
      /\ backlog \in 0..MaxPeers /\ peers \in 0..MaxPeers
      /\ backlog + peers <= MaxPeers
  BY BaseFacts
<1>1. CASE SocketNext /\ UNCHANGED timerVars
  <2>1. TimerTypeOK'
    BY <1>0, <1>1 DEF timerVars, TimerTypeOK
  <2>2. /\ DeliveryTypeOK' /\ st' \in States /\ soerr' \in BOOLEAN
        /\ backlog' \in 0..MaxPeers /\ peers' \in 0..MaxPeers
        /\ backlog' + peers' <= MaxPeers
        /\ KernelInv'
    BY <1>1, KernelSteps, SocketKernel
  <2>3. stack' \in Seq(Frames) /\ AnyMove
    BY <1>1, ControlSteps DEF Control
  <2>4. op' \in [0..1 -> Slots] /\ hist' \in Seq(Entries) /\ Len(hist') <= MaxOps
    BY <2>3, MoveTypes
  <2> QED BY <2>1, <2>2, <2>3, <2>4, BaseFromParts, Zenon DEF Slots
<1>2. CASE Others
  <2>1. DeliveryTypeOK' /\ TimerTypeOK' /\ KernelInv'
    BY <1>2, OtherKernel DEF Others
  <2>2. stack' \in Seq(Frames) /\ Works
    BY <1>2, OtherControl
  <2>3. op' \in [0..1 -> Slots] /\ hist' \in Seq(Entries) /\ Len(hist') <= MaxOps
    BY <2>2, MoveTypes DEF AnyMove, Move
  <2>4. UNCHANGED <<st, soerr, backlog, peers>>
    BY <1>2 DEF Others, socketVars, kernelVars
  <2>5. /\ st' \in States /\ soerr' \in BOOLEAN
        /\ backlog' \in 0..MaxPeers /\ peers' \in 0..MaxPeers
        /\ backlog' + peers' <= MaxPeers
    BY <1>0, <2>4
  <2> QED BY <2>1, <2>2, <2>3, <2>5, BaseFromParts, Zenon DEF Slots
<1>3. CASE UNCHANGED vars
  <2>1. UNCHANGED <<open, registered, mask, ready, batch, target, events, stack,
                    interval, armed, cb, st, soerr, backlog, peers, op, hist>>
    BY <1>3 DEF vars, deliveryVars, timerVars, socketVars, kernelVars
  <2> QED BY <2>1
           DEF BaseInv, TypeOK, DeliveryTypeOK, TimerTypeOK, SocketTypeOK, KernelInv
<1> QED BY <1>1, <1>2, <1>3, NextSplit

\* The state of the sockets, the timer and the loop stays of its type: no
\* step runs on a slot, a frame or a counter outside its range.
THEOREM TypeCorrect == Spec => []TypeOK
<1>1. BaseInv => TypeOK
  BY DEF BaseInv
<1> QED BY <1>1, BaseInit, BaseNext, PTL DEF Spec

-----------------------------------------------------------------------------
(***************************************************************************)
(* The timer: an expiry is unread only while the timer runs, and the event *)
(* of an unread one is on its way.  Its dispatch() is the outermost call.  *)
(***************************************************************************)
Ticking == \E n \in DOMAIN stack : stack[n].k = "tick"

TimerInv ==
  /\ armed => timer \in open /\ interval = "some"
  /\ mask[timer] # {} => interval = "some"
  /\ mask[timer] # {} /\ timer \in registered =>
       timer \in ready \/ batch[timer] # {} \/ Ticking
  /\ \A n \in DOMAIN stack : stack[n].k = "tick" => n = 1

\* A socket action leaves the timer's descriptor alone.
LEMMA SocketSparesTimer ==
  ASSUME BaseInv, KernelStep
  PROVE  /\ timer \in open' <=> timer \in open
         /\ timer \in registered' <=> timer \in registered
         /\ timer \in ready' <=> timer \in ready
         /\ mask'[timer] = mask[timer] /\ batch'[timer] = batch[timer]
<1> USE ReactorAssumption, TimerAssumption, SocketAssumption
<1>0. mask \in [FDs -> SUBSET Events] /\ batch \in [FDs -> SUBSET Events]
  BY BaseFacts DEF DeliveryTypeOK
<1>1. ASSUME NEW E, NEW edge, Poll(socket, E, edge) \/ Open(socket, E)
      PROVE  /\ timer \in open' <=> timer \in open
             /\ timer \in registered' <=> timer \in registered
             /\ timer \in ready' <=> timer \in ready
             /\ mask'[timer] = mask[timer] /\ batch'[timer] = batch[timer]
  BY <1>0, <1>1 DEF Poll, Open
<1>2. CASE UNCHANGED deliveryVars
  BY <1>2 DEF deliveryVars
<1>3. CASE Shut(socket) \/ Deliver(socket)
  BY <1>0, <1>3 DEF Shut, Deliver
<1> QED BY <1>1, <1>2, <1>3 DEF KernelStep, Becomes, Created

\* The frames of kind "tick" after a step.
LEMMA TickFrames ==
  ASSUME BaseInv, stack' \in Seq(Frames),
         \A n \in DOMAIN stack : stack[n].k = "tick" => n = 1
  PROVE  /\ SocketNest => /\ Ticking' <=> Ticking
                          /\ \A n \in DOMAIN stack' : stack'[n].k = "tick" => n = 1
         /\ OtherNest => /\ Ticking => Ticking' \/ (stack # <<>> /\ Top.k = "tick")
                         /\ \A n \in DOMAIN stack' : stack'[n].k = "tick" => n = 1
<1> DEFINE L == Len(stack)
           M == Len(stack')
           OneTick == \A n \in DOMAIN stack' : stack'[n].k = "tick" => n = 1
<1>0. L \in Nat /\ DOMAIN stack = 1..L /\ (stack = <<>> <=> L = 0) /\ (L >= 1 => Top = stack[L])
  BY BaseFacts, StackFacts DEF Top
<1>1. M \in Nat /\ DOMAIN stack' = 1..M
  BY SeqFacts
<1> HIDE DEF L, M
<1>2. CASE stack' = stack
  BY <1>2 DEF Ticking
<1>3. ASSUME Returned
      PROVE  /\ L >= 1 /\ OneTick /\ (Ticking => Ticking' \/ Top.k = "tick")
             /\ (Ticking' => Ticking)
  <2>1. L >= 1 /\ M = L - 1 /\ \A n \in 1..(L - 1) : stack'[n] = stack[n]
    BY <1>3 DEF Returned, Kept, L, M
  <2> QED BY <1>0, <1>1, <2>1 DEF Ticking
<1>4. ASSUME NEW f \in Frames, f.k # "tick", GoesOn(f)
      PROVE  /\ L >= 1 /\ OneTick /\ (Ticking => Ticking' \/ Top.k = "tick")
             /\ (Ticking' => Ticking)
  <2>1. L >= 1 /\ M = L /\ stack'[L] = f /\ \A n \in 1..(L - 1) : stack'[n] = stack[n]
    BY <1>4 DEF GoesOn, Kept, L, M
  <2> QED BY <1>0, <1>1, <1>4, <2>1 DEF Ticking
<1>5. ASSUME NEW g \in Frames, Calls(g), g.k = "tick" => stack = <<>>
      PROVE  OneTick /\ (Ticking => Ticking') /\ (g.k # "tick" => (Ticking' => Ticking))
  <2>1. M = L + 1 /\ stack'[L + 1] = g /\ \A n \in 1..L : stack'[n] = stack[n]
    BY <1>5 DEF Calls, Kept, L, M
  <2> QED BY <1>0, <1>1, <1>5, <2>1 DEF Ticking
<1>6. ASSUME NEW f \in Frames, NEW g \in Frames, f.k # "tick", g.k # "tick", GoesOnCalls(f, g)
      PROVE  /\ L >= 1 /\ OneTick /\ (Ticking => Ticking' \/ Top.k = "tick")
             /\ (Ticking' => Ticking)
  <2>1. /\ L >= 1 /\ M = L + 1 /\ stack'[L] = f /\ stack'[L + 1] = g
        /\ \A n \in 1..(L - 1) : stack'[n] = stack[n]
    BY <1>6 DEF GoesOnCalls, Kept, L, M
  <2> QED BY <1>0, <1>1, <1>6, <2>1 DEF Ticking
<1> HIDE DEF OneTick
<1>7. SocketNest => (Ticking' <=> Ticking) /\ OneTick
  <2>1. CASE Returned /\ Top.k # "tick"
    BY <1>3, <2>1
  <2>2. CASE Top.k # "tick" /\ \E f \in Frames : f.k # "tick" /\ GoesOn(f)
    BY <1>4, <2>2
  <2>3. CASE \E g \in Frames : g.k # "tick" /\ Calls(g)
    BY <1>5, <2>3
  <2>4. CASE Top.k # "tick" /\ \E f, g \in Frames : /\ f.k \in {"out", "accept", "try"}
                                                    /\ g.k # "tick" /\ GoesOnCalls(f, g)
    BY <1>6, <2>4
  <2> QED BY <1>2, <2>1, <2>2, <2>3, <2>4 DEF SocketNest, OneTick
<1>8. OtherNest => (Ticking => Ticking' \/ (stack # <<>> /\ Top.k = "tick")) /\ OneTick
  <2>1. CASE Returned
    BY <1>0, <1>3, <2>1
  <2>2. CASE \E f \in Frames : f.k = "user" /\ GoesOn(f)
    BY <1>0, <1>4, <2>2
  <2>3. CASE stack = <<>> /\ \E g \in Frames : g.k = "tick" /\ Calls(g)
    BY <1>5, <2>3
  <2> QED BY <1>2, <2>1, <2>2, <2>3 DEF OtherNest, OneTick
<1> QED BY <1>7, <1>8 DEF OneTick

LEMMA TimerInvInit == Init => TimerInv
<1> SUFFICES ASSUME Init PROVE TimerInv
  OBVIOUS
<1>1. stack = <<>> /\ armed = FALSE /\ mask[timer] = {}
  BY DEF Init, TimerInit
<1> QED BY <1>1 DEF TimerInv

LEMMA TimerSocketStep ==
  ASSUME BaseInv, TimerInv, SocketNext, UNCHANGED timerVars
  PROVE  TimerInv'
<1>1. /\ timer \in open' <=> timer \in open
      /\ timer \in registered' <=> timer \in registered
      /\ timer \in ready' <=> timer \in ready
      /\ mask'[timer] = mask[timer] /\ batch'[timer] = batch[timer]
  BY KernelSteps, SocketSparesTimer
<1>2. (Ticking' <=> Ticking) /\ \A n \in DOMAIN stack' : stack'[n].k = "tick" => n = 1
  BY ControlSteps, TickFrames DEF Control, TimerInv
<1>3. UNCHANGED <<interval, armed>>
  BY DEF timerVars
<1> HIDE DEF Ticking
<1> QED BY <1>1, <1>2, <1>3 DEF TimerInv

LEMMA TimerOtherStep ==
  ASSUME BaseInv, TimerInv, Others
  PROVE  TimerInv'
<1> USE ReactorAssumption, TimerAssumption, SocketAssumption
<1>0. /\ mask \in [FDs -> SUBSET Events] /\ batch \in [FDs -> SUBSET Events]
      /\ registered \subseteq open /\ ready \subseteq registered
      /\ (timer \notin open => mask[timer] = {}) /\ stack \in Seq(Frames)
  BY BaseFacts DEF DeliveryTypeOK, KernelInv
<1>1. /\ Ticking => Ticking' \/ (stack # <<>> /\ Top.k = "tick")
      /\ \A n \in DOMAIN stack' : stack'[n].k = "tick" => n = 1
  BY OtherControl, TickFrames DEF TimerInv
<1>3. /\ armed => timer \in open /\ interval = "some"
      /\ mask[timer] # {} => interval = "some"
      /\ mask[timer] # {} /\ timer \in registered =>
           timer \in ready \/ batch[timer] # {} \/ Ticking
  BY DEF TimerInv
<1> HIDE DEF Ticking
<1>4. CASE Expire
  <2>1. /\ armed /\ Poll(timer, {"IN"}, TRUE) /\ UNCHANGED <<interval, armed, stack>>
    BY <1>4 DEF Expire, timerVars
  <2>2. open' = open /\ registered' = registered /\ mask'[timer] = {"IN"}
        /\ (timer \in registered => timer \in ready')
    BY <1>0, <2>1 DEF Poll
  <2> QED BY <1>1, <1>3, <2>1, <2>2 DEF TimerInv
<1>5. ASSUME stack' = stack, mask'[timer] = {}, armed' => timer \in open' /\ interval' = "some"
      PROVE  TimerInv'
  BY <1>1, <1>5 DEF TimerInv
<1>6. CASE SetInterval
  <2>1. PICK v \in Intervals : setInterval(v)
    BY <1>6 DEF SetInterval
  <2>2. interval' = v /\ v \in {"zero", "some"} /\ stack' = stack
    BY <2>1 DEF setInterval
  <2>3. CASE timer \in open
    <3>1. /\ armed' = (v # "zero") /\ open' = open /\ mask'[timer] = {}
      BY <1>0, <2>1, <2>3 DEF setInterval, Poll
    <3> QED BY <1>5, <2>2, <2>3, <3>1
  <2>4. CASE timer \notin open
    <3>1. UNCHANGED <<armed, open, mask>>
      BY <2>1, <2>4 DEF setInterval, deliveryVars
    <3> QED BY <1>0, <1>3, <1>5, <2>2, <2>4, <3>1
  <2> QED BY <2>3, <2>4
<1>7. CASE TimerClose
  <2>1. Shut(timer) /\ armed' = FALSE /\ UNCHANGED <<interval, stack>>
    BY <1>7 DEF TimerClose
  <2>2. mask'[timer] = {}
    BY <1>0, <2>1 DEF Shut
  <2> QED BY <1>5, <2>1, <2>2
<1>8. CASE TimerOpen
  <2>1. PICK v \in Intervals :
          /\ Open(timer, {}) \/ (v = "some" /\ Open(timer, {"IN"}))
          /\ interval' = v /\ armed' = (v = "some")
    BY <1>8 DEF TimerOpen
  <2>2. /\ timer \in open' /\ timer \notin registered' /\ stack' = stack
        /\ (mask'[timer] # {} => v = "some")
    BY <1>0, <1>8, <2>1 DEF TimerOpen, Open
  <2> QED BY <1>1, <2>1, <2>2 DEF TimerInv
<1>9. CASE SetCallback
  <2>1. UNCHANGED <<interval, armed, open, registered, mask, ready, batch, stack>>
    BY <1>9 DEF SetCallback, deliveryVars
  <2>2. Ticking' <=> Ticking
    BY <2>1 DEF Ticking
  <2> QED BY <1>1, <1>3, <2>1, <2>2 DEF TimerInv
<1>10. CASE TimerDispatch
  <2>1. /\ Deliver(timer) /\ stack' = <<[k |-> "tick"]>> /\ UNCHANGED <<interval, armed>>
    BY <1>10 DEF TimerDispatch, Dispatch, timerVars
  <2>2. Ticking'
    <3>1. DOMAIN stack' = 1..1 /\ stack'[1].k = "tick"
      BY <2>1
    <3> QED BY <3>1 DEF Ticking
  <2>3. UNCHANGED <<open, registered, mask>>
    BY <2>1 DEF Deliver
  <2> QED BY <1>1, <1>3, <2>1, <2>2, <2>3 DEF TimerInv
<1>11. CASE Tick
  <2>1. UNCHANGED <<interval, armed>>
    BY <1>11 DEF Tick, timerVars
  <2>2. open' = open /\ registered' = registered
        /\ (mask'[timer] = {} \/ (timer \notin open /\ mask' = mask))
    BY <1>0, <1>11 DEF Tick, Poll, deliveryVars
  <2> QED BY <1>0, <1>1, <1>3, <2>1, <2>2 DEF TimerInv
<1>12. CASE LoopSteps
  <2>1. UNCHANGED <<interval, armed, stack>>
    BY <1>12 DEF LoopSteps, WaitFor, DispatchReturns, timerVars
  <2>2. Ticking' <=> Ticking
    BY <2>1 DEF Ticking
  <2>3. CASE Finish
    <3>1. UNCHANGED <<open, registered, mask, ready, batch>>
      BY <2>3 DEF Finish
    <3> QED BY <1>1, <1>3, <2>1, <2>2, <3>1 DEF TimerInv
  <2>4. ASSUME NEW S \in SUBSET FDs, Harvest(S), stack = <<>> PROVE TimerInv'
    <3>1. /\ UNCHANGED <<open, registered, mask>> /\ ready' = ready \ S
          /\ batch[timer] = {} /\ (timer \in S => batch'[timer] = mask[timer])
      BY <2>4 DEF Harvest
    <3>2. ~Ticking
      BY <2>4 DEF Ticking
    <3> QED BY <1>1, <1>3, <2>1, <2>2, <3>1, <3>2 DEF TimerInv
  <2> QED BY <1>12, <2>3, <2>4 DEF LoopSteps, WaitFor, DispatchReturns
<1>13. CASE Registration
  <2>1. UNCHANGED <<interval, armed, stack>>
    BY <1>13 DEF Registration, Add, Remove, timerVars
  <2>2. Ticking' <=> Ticking
    BY <2>1 DEF Ticking
  <2>3. PICK fd \in FDs : Attach(fd) \/ Detach(fd)
    BY <1>13 DEF Registration, Add, Remove
  <2>4. /\ UNCHANGED <<open, mask>>
        /\ timer \in registered' /\ mask[timer] # {} =>
             timer \in ready' \/ (timer \in registered /\ (timer \in ready => timer \in ready')
                                   /\ batch'[timer] = batch[timer])
    BY <1>0, <2>3 DEF Attach, Detach
  <2> QED BY <1>1, <1>3, <2>1, <2>2, <2>4 DEF TimerInv
<1>14. CASE Returns
  <2>1. UNCHANGED <<interval, armed, open, registered, mask, ready, batch>>
    BY <1>14 DEF Returns, CallbackReturn, timerVars, deliveryVars
  <2>2. Top.k = "user"
    BY <1>14 DEF Returns, CallbackReturn, TopIs
  <2> QED BY <1>1, <1>3, <2>1, <2>2 DEF TimerInv
<1> QED BY <1>4, <1>6, <1>7, <1>8, <1>9, <1>10, <1>11, <1>12, <1>13, <1>14
        DEF Others, TimerNext, TimerLibrary

LEMMA TimerInvNext == BaseInv /\ TimerInv /\ [Next]_vars => TimerInv'
<1> SUFFICES ASSUME BaseInv, TimerInv, [Next]_vars PROVE TimerInv'
  OBVIOUS
<1>1. CASE Next
  BY <1>1, NextSplit, TimerSocketStep, TimerOtherStep
<1>2. CASE UNCHANGED vars
  <2>1. UNCHANGED <<interval, armed, open, registered, mask, ready, batch, stack>>
    BY <1>2 DEF vars, deliveryVars, timerVars
  <2> QED BY <2>1 DEF TimerInv, Ticking
<1> QED BY <1>1, <1>2

\* An expiry of the timer that nobody has read is never slept on, however the
\* timer was removed, added, closed and opened again in between.
THEOREM ExpiryKept == Spec => []NoLostExpiry
<1>1. TimerInv => NoLostExpiry
  BY DEF TimerInv, NoLostExpiry, Quiet, AtRest, Ticking
<1> QED BY <1>1, BaseInit, BaseNext, TimerInvInit, TimerInvNext, PTL DEF Spec

LEMMA TickStep ==
  ASSUME BaseInv, TimerInv, Next, TopIs("tick"), stack' # stack, stack' # <<>>
  PROVE  timer \in open /\ interval # "zero"
<1>0. stack \in Seq(Frames) /\ stack # <<>> /\ Top.k = "tick"
  BY BaseFacts DEF TopIs
<1>1. Len(stack) = 1
  BY <1>0, StackFacts DEF TimerInv, Top
<1>2. CASE SocketNext
  BY <1>0, <1>2, ControlSteps DEF Control, SocketNest, UserTop
<1>3. CASE Others
  <2>1. Tick
    BY <1>0, <1>3
       DEF Others, TimerNext, TimerLibrary, Expire, SetInterval, setInterval, TimerClose,
           TimerOpen, SetCallback, TimerDispatch, Dispatch, LoopSteps, WaitFor,
           DispatchReturns, Registration, Add, Remove, Returns, CallbackReturn, TopIs
  <2>2. stack' # Popped
    <3>1. stack' = Popped => Returned
      BY <1>0, StackSteps
    <3>2. stack' \in Seq(Frames)
      BY <1>3, OtherControl
    <3>3. Len(stack') # 0
      BY <3>2, SeqFacts
    <3> QED BY <1>1, <3>1, <3>3 DEF Returned
  <2> QED BY <2>1, <2>2 DEF Tick, Return, TimerInv
<1> QED BY <1>2, <1>3, NextSplit

\* A timer that was stopped or closed does not call back, although its expiry
\* may have been harvested before.
THEOREM StoppedIsSilent == Spec => NoTickAfterStop
<1>1. BaseInv /\ TimerInv /\ [Next]_vars =>
        [TopIs("tick") /\ stack' # stack /\ stack' # <<>>
           => timer \in open /\ interval # "zero"]_<<deliveryVars, stack, timerVars>>
  BY TickStep DEF vars
<1> QED BY <1>1, BaseInit, BaseNext, TimerInvInit, TimerInvNext, PTL
        DEF Spec, NoTickAfterStop
=============================================================================
