------------------------------- MODULE Socket -------------------------------
(***************************************************************************)
(* CP::Socket (cpoll.C, "Socket"): connect and accept, their operations in *)
(* the two slots it inherits from File, and the kernel's TCP socket as far *)
(* as they see it.  Data transfer is the subject of FileOp; the one read   *)
(* modelled here is pending while the socket connects.                     *)
(***************************************************************************)
EXTENDS Dispatcher

CONSTANTS
  socket,      \* the Socket object
  Habits,      \* what the user does beyond the usual: "early": reads, or
               \* connects again, before the socket is connected; "stale":
               \* connects, or opens the socket again, while old events or
               \* operations are left; "reenter": starts an accept from the
               \* callback of a repeated one; "breakoff": cancels a repeated
               \* accept from its callback while accept() itself calls it
  MaxOps,      \* bound: operations started
  MaxPeers,    \* bound: peers that connect
  MaxHosts     \* bound: addresses a host name resolves to

ASSUME SocketAssumption ==
  /\ socket \in FDs
  /\ Habits \subseteq {"early", "stale", "reenter", "breakoff"}
  /\ MaxOps \in Nat /\ MaxPeers \in Nat /\ MaxHosts \in Nat

VARIABLES
  st,       \* kernel: the state of the descriptor, "none" without one
  soerr,    \* kernel: SO_ERROR is set
  backlog,  \* kernel: connections waiting for accept
  peers,    \* the peers that have not connected yet
  op,       \* pendingOps: slot 0 (read) and slot 1 (write)
  hist      \* history: the operations started, in order

kernelVars == <<st, soerr, backlog, peers>>
socketVars == <<kernelVars, op, hist>>

\* The calls that take a host name: connect with and without a callback, bind.
Forms == {"connect", "connectNow", "bind"}

NoOp == [operation |-> "none", repeat |-> FALSE, id |-> 0]

SocketTypeOK ==
  /\ st \in {"none", "fresh", "listen", "connecting", "connected", "failed"}
  /\ soerr \in BOOLEAN
  /\ backlog \in 0..MaxPeers
  /\ peers \in 0..MaxPeers
  /\ op \in [0..1 -> [operation : {"none", "accept", "connect", "read"},
                      repeat : BOOLEAN, id : 0..MaxOps]]
  /\ hist \in Seq([o : {"accept", "read"} \cup Forms, finals : Nat,
                   over : BOOLEAN])

\* Socket::Socket(): no descriptor yet.
SocketInit ==
  /\ socket \notin open /\ mask[socket] = {}
  /\ st = "none"
  /\ soerr = FALSE
  /\ backlog = 0
  /\ peers = MaxPeers
  /\ op = [slot \in 0..1 |-> NoOp]
  /\ hist = <<>>

-----------------------------------------------------------------------------
(***************************************************************************)
(* The kernel.                                                             *)
(***************************************************************************)

\* The event mask of a TCP socket.
MaskOf(s, err, n) ==
  CASE s = "fresh" -> {"OUT", "HUP"}
    [] s = "listen" -> IF n > 0 THEN {"IN"} ELSE {}
    [] s = "connected" -> {"OUT"}
    [] s = "failed" -> {"IN", "OUT", "HUP"} \cup (IF err THEN {"ERR"} ELSE {})
    [] OTHER -> {}

\* The descriptor changes its state, with or without waking epoll.
Becomes(s, err, n, edge) ==
  /\ st' = s /\ soerr' = err /\ backlog' = n /\ UNCHANGED peers
  /\ Poll(socket, MaskOf(s, err, n), edge)

\* A new descriptor in state s.
Created(s) ==
  /\ st' = s /\ soerr' = FALSE /\ backlog' = 0 /\ UNCHANGED peers
  /\ Open(socket, MaskOf(s, FALSE, 0))

PeerConnects ==
  /\ st = "listen" /\ peers > 0
  /\ backlog' = backlog + 1 /\ peers' = peers - 1
  /\ Poll(socket, {"IN"}, TRUE)
  /\ UNCHANGED <<st, soerr, op, hist, stack>>

ConnectEnds ==
  /\ st = "connecting"
  /\ Becomes("connected", FALSE, 0, TRUE) \/ Becomes("failed", TRUE, 0, TRUE)
  /\ UNCHANGED <<op, hist, stack>>

-----------------------------------------------------------------------------
(***************************************************************************)
(* Operations and their callbacks.                                         *)
(***************************************************************************)
NewId == Len(hist) + 1
MayStart == UserCode /\ Len(hist) < MaxOps
Started(o, finals) ==
  hist' = Append(hist, [o |-> o, finals |-> finals, over |-> FALSE])

Stored(slot, o, repeat, id) ==
  op' = [op EXCEPT ![slot] = [operation |-> o, repeat |-> repeat, id |-> id]]

\* Fault: the operation stays in its slot.
FinishedNot(slot) == op' = op

\* op.operation = Operations::none; nobody looks at the rest of op after that.
Finished(slot) == op' = [op EXCEPT ![slot] = NoOp]

\* The callback of operation id is called with r and ends it; the call that
\* made it has nothing more to do.
Answer(id, r) ==
  /\ stack' = Replaced(UserFrame(id, r))
  /\ hist' = [hist EXCEPT ![id].finals = @ + 1]

\* The callback of an accept gets a connection; frame f goes on.  Only that of
\* a repeated accept expects the next one, and only until it is cancelled; any
\* other call is one that should have ended the operation.
PassOn(f, id, repeat) ==
  /\ stack' = Append(Replaced(f), UserFrame(id, 1))
  /\ hist' = IF repeat /\ ~hist[id].over THEN hist
                                         ELSE [hist EXCEPT ![id].finals = @ + 1]

\* Events of the past may still reach the write slot.
StaleEvents ==
  batch[socket] # {} \/ \E n \in DOMAIN stack : stack[n].k \in {"in", "out"}

\* The usual user connects, or opens the socket again, only after the old
\* events are through and no operation of the old use is left in a slot.
Tidy ==
  \/ "stale" \in Habits
  \/ /\ ~StaleEvents
     /\ op[0].operation # "accept"
     /\ st = "none" => \A slot \in 0..1 : op[slot].operation = "none"

\* Socket(d, t, p), Socket(fd), init and bind by address: a descriptor that is
\* unconnected, or an accepted one.  connect(addr, cb) on a busy slot does the
\* same before it throws.
SocketOpen ==
  /\ UserCode
  /\ Tidy
  /\ Created("fresh") \/ Created("connected")
  /\ UNCHANGED <<op, hist, stack>>

\* File::close: what is pending stays in its slot.
SocketClose ==
  /\ UserCode
  /\ st # "none"
  /\ st' = "none" /\ soerr' = FALSE /\ backlog' = 0 /\ UNCHANGED peers
  /\ Shut(socket)
  /\ UNCHANGED <<op, hist, stack>>

\* Socket::listen.
Listen ==
  /\ UserCode
  /\ st = "fresh"
  /\ Becomes("listen", FALSE, 0, FALSE)
  /\ UNCHANGED <<op, hist, stack>>

\* Socket::shutdown: a listening socket is unconnected again, and a connect in
\* progress fails.  Of a connected one it is a matter of data transfer.
Shutdown ==
  /\ UserCode
  /\ \/ st = "listen" /\ Becomes("fresh", FALSE, 0, TRUE)
     \/ st = "connecting" /\ Becomes("failed", TRUE, 0, TRUE)
  /\ UNCHANGED <<op, hist, stack>>

\* The calls of accept() in progress that call back a repeated accept.
Loops == {n \in DOMAIN stack : stack[n].k = "try"}

\* The operations the user means by cancelRead (slot 0) or cancelWrite: the
\* pending one, and the repeated accepts whose accept() calls back.
CancelTargets(slot) ==
  (IF op[slot].operation = "none" THEN {} ELSE {op[slot].id})
    \cup (IF slot = 0 THEN {stack[n].id : n \in Loops} ELSE {})

MayCancel(slot) ==
  /\ UserCode
  /\ CancelTargets(slot) # {}
  /\ slot = 0 /\ Loops # {} => "breakoff" \in Habits

GiveUp(ids) ==
  hist' = [n \in DOMAIN hist |-> IF n \in ids THEN [hist[n] EXCEPT !.over = TRUE]
                                              ELSE hist[n]]

\* Fault: cancelWrite() forgets nothing.
CancelNot(slot) ==
  /\ MayCancel(slot)
  /\ GiveUp(CancelTargets(slot))
  /\ UNCHANGED <<op, kernelVars, deliveryVars, stack>>

\* cancelRead and cancelWrite: the slot is cleared, and nothing else.
Cancel(slot) ==
  /\ MayCancel(slot)
  /\ Finished(slot)
  /\ GiveUp(CancelTargets(slot))
  /\ UNCHANGED <<kernelVars, deliveryVars, stack>>

-----------------------------------------------------------------------------
(***************************************************************************)
(* connect.                                                                *)
(***************************************************************************)

\* What ::connect on a descriptor in state s makes of it, and returns: 0, -1,
\* or EINPROGRESS.
ConnectResults(s) ==
  CASE s = "fresh" -> {<<"connected", "0">>, <<"connecting", "EINPROGRESS">>,
                       <<"fresh", "-1">>}
    [] s = "failed" -> {<<"fresh", "-1">>}
    [] s = "connected" -> {<<s, "0">>, <<s, "-1">>}
    [] OTHER -> {<<s, "-1">>}

\* The socket is created if there is none, and ::connect gives res.
Attempted(res) ==
  IF st = "none" THEN Created(res[1]) ELSE Becomes(res[1], FALSE, backlog, FALSE)

Attempts == ConnectResults(IF st = "none" THEN "fresh" ELSE st)

\* connect without a callback, by address.
ConnectNow ==
  /\ UserCode
  /\ op[1].operation = "none" \/ "early" \in Habits
  /\ Tidy
  /\ \E res \in Attempts : Attempted(res)
  /\ UNCHANGED <<op, hist, stack>>

\* connect(addr, cb): creates the socket if there is none, tries, and waits
\* for the write slot's event when the connection is in progress.
Connect ==
  /\ MayStart
  /\ op[1].operation = "none"
  /\ Tidy
  /\ \E res \in Attempts :
       /\ Attempted(res)
       /\ IF res[2] = "EINPROGRESS"
            THEN /\ Stored(1, "connect", FALSE, NewId)
                 /\ Started("connect", 0)
                 /\ UNCHANGED stack
            ELSE /\ stack' = Append(stack, UserFrame(NewId,
                                             IF res[2] = "0" THEN 0 ELSE -1))
                 /\ Started("connect", 1)
                 /\ UNCHANGED op

\* connect, with and without a callback, and bind, by host name.
ByHost(form) ==
  /\ MayStart
  /\ st = "none" /\ op[1].operation = "none"
  /\ Tidy
  /\ \E n \in 1..MaxHosts :
       stack' = Append(stack, [k |-> "hosts", form |-> form, left |-> n,
                               id |-> NewId])
  /\ Started(form, 0)
  /\ UNCHANGED <<kernelVars, op, deliveryVars>>

\* Fault: an attempt in progress is not waited for.
ConnectHostDropped ==
  /\ Top.form = "connect"
  /\ Created("connecting")
  /\ Return
  /\ UNCHANGED <<op, hist>>

\* EINPROGRESS in the loop over the addresses: the others are given up.
ConnectHost ==
  /\ Top.form = "connect"
  /\ Created("connecting")
  /\ Stored(1, "connect", FALSE, Top.id)
  /\ Return
  /\ UNCHANGED hist

\* Success: init() takes the attempt's descriptor.
HostBinds ==
  /\ Top.form = "bind"
  /\ Created("fresh")
  /\ Return
  /\ hist' = [hist EXCEPT ![Top.id].finals = @ + 1]
  /\ UNCHANGED op

HostConnects ==
  /\ Top.form # "bind"
  /\ Created("connected")
  /\ IF Top.form = "connect" THEN Answer(Top.id, 0)
     ELSE Return /\ hist' = [hist EXCEPT ![Top.id].finals = @ + 1]
  /\ UNCHANGED op

\* One address of the loop: no success, and the attempt's descriptor is
\* closed; success; or in progress.  After the last address the call throws.
HostStep ==
  /\ TopIs("hosts")
  /\ \/ /\ Top.left > 0
        /\ stack' = Replaced([Top EXCEPT !.left = @ - 1])
        /\ UNCHANGED <<kernelVars, op, hist, deliveryVars>>
     \/ Top.left > 0 /\ (HostBinds \/ HostConnects \/ ConnectHost)
     \/ /\ Top.left = 0
        /\ Return
        /\ hist' = [hist EXCEPT ![Top.id].over = TRUE]
        /\ UNCHANGED <<kernelVars, op, deliveryVars>>

\* Fault: SO_ERROR is not asked for.
ConnectResultBlind == 0

\* What getsockopt(SO_ERROR) tells about the connect; a closed descriptor is
\* an error too.
ConnectResult == IF st = "none" \/ soerr THEN -1 ELSE 0

\* The connect branch of doOperation, and its copy in handleHup.  Reading
\* SO_ERROR clears it.
ConnectDone ==
  /\ TopIs("do") \/ TopIs("hup")
  /\ op[Top.slot].operation = "connect"
  /\ IF st = "none" THEN UNCHANGED <<kernelVars, deliveryVars>>
                    ELSE Becomes(st, FALSE, backlog, FALSE)
  /\ Finished(Top.slot)
  /\ Answer(op[Top.slot].id, ConnectResult)

-----------------------------------------------------------------------------
(***************************************************************************)
(* accept, and a read.                                                     *)
(***************************************************************************)
WouldBlock == st = "listen" /\ backlog = 0

\* One connection is taken from the kernel.
Taken ==
  /\ st = "listen" /\ backlog > 0
  /\ Becomes(st, soerr, backlog - 1, FALSE)

\* accept fails: the socket does not listen, or descriptors have run out.
Refused ==
  /\ ~WouldBlock
  /\ UNCHANGED <<kernelVars, deliveryVars>>

\* accept(cb, repeat): a synchronous attempt first.  The usual user starts none
\* from the callbacks of a repeated one, whose loop would serve it as its own.
Accept(repeat) ==
  /\ MayStart
  /\ op[0].operation = "none"
  /\ \/ "reenter" \in Habits
     \/ \A n \in DOMAIN stack : stack[n].k \notin {"try", "accept"}
  /\ stack' = Append(stack, [k |-> "try", repeat |-> repeat, id |-> NewId])
  /\ Started("accept", 0)
  /\ UNCHANGED <<kernelVars, op, deliveryVars>>

\* One call of File_tryOperation<accept>.
TryAccept ==
  /\ TopIs("try")
  /\ \/ /\ WouldBlock
        /\ Stored(0, "accept", Top.repeat, Top.id)
        /\ Return
        /\ UNCHANGED <<kernelVars, deliveryVars, hist>>
     \/ /\ Refused
        /\ Answer(Top.id, -1)
        /\ UNCHANGED op
     \/ /\ Taken
        /\ IF Top.repeat THEN PassOn(Top, Top.id, TRUE) ELSE Answer(Top.id, 1)
        /\ UNCHANGED op

\* Fault: the repeated accept takes one connection for each event.
LoopsAgainNot == FALSE

\* The condition of the do-while loop, after the callback ("accept").
LoopsAgain == op[0].operation = "accept"

\* The accept branch of doOperation.
DoAccept ==
  /\ \/ TopIs("do") /\ Top.slot = 0 /\ op[0].operation = "accept"
     \/ TopIs("accept") /\ LoopsAgain
  /\ \/ /\ WouldBlock
        /\ Return
        /\ UNCHANGED <<kernelVars, deliveryVars, op, hist>>
     \/ /\ Refused
        /\ Finished(0)
        /\ Answer(op[0].id, -1)
     \/ /\ Taken
        /\ op[0].repeat \/ TopIs("accept")
        /\ PassOn([k |-> "accept"], op[0].id, op[0].repeat)
        /\ UNCHANGED op
     \/ /\ Taken
        /\ ~op[0].repeat /\ ~TopIs("accept")
        /\ Finished(0)
        /\ Answer(op[0].id, 1)

\* The accept branch of handleHup.
HupAccept ==
  /\ TopIs("hup")
  /\ op[Top.slot].operation = "accept"
  /\ Finished(Top.slot)
  /\ Answer(op[Top.slot].id, -1)
  /\ UNCHANGED <<kernelVars, deliveryVars>>

\* A read blocks while the socket is connecting or has no data; one that
\* meets an error takes SO_ERROR away.
ReadBlocks == st \in {"connecting", "connected"}

Read ==
  /\ MayStart
  /\ op[0].operation = "none"
  /\ st = "connected" \/ (ReadBlocks /\ "early" \in Habits)
  /\ Stored(0, "read", FALSE, NewId)
  /\ Started("read", 0)
  /\ UNCHANGED <<kernelVars, deliveryVars, stack>>

\* The default branches: File::doOperation and File::handleHup.
DoRead ==
  /\ TopIs("do") /\ op[Top.slot].operation = "read"
  /\ \/ /\ ReadBlocks
        /\ Return
        /\ UNCHANGED <<kernelVars, deliveryVars, op, hist>>
     \/ /\ ~ReadBlocks
        /\ IF st = "failed" THEN Becomes(st, FALSE, backlog, FALSE)
                            ELSE UNCHANGED <<kernelVars, deliveryVars>>
        /\ Finished(Top.slot)
        /\ Answer(op[Top.slot].id, IF st = "failed" /\ ~soerr THEN 0 ELSE -1)

HupRead ==
  /\ TopIs("hup") /\ op[Top.slot].operation = "read"
  /\ Finished(Top.slot)
  /\ Answer(op[Top.slot].id, 0)
  /\ UNCHANGED <<kernelVars, deliveryVars>>

\* Nothing is pending, or no longer.
DoNone ==
  /\ \/ (TopIs("do") \/ TopIs("hup")) /\ op[Top.slot].operation = "none"
     \/ TopIs("accept") /\ ~LoopsAgain
  /\ Return
  /\ UNCHANGED <<socketVars, deliveryVars>>

-----------------------------------------------------------------------------
(***************************************************************************)
(* Socket::dispatch: the read slot, then the write slot, each by the       *)
(* events word as it is then.                                              *)
(***************************************************************************)
SocketDispatch == Dispatch(socket, [k |-> "in"]) /\ UNCHANGED socketVars

Serve(slot) == [k |-> "do", slot |-> slot]
HangUp(slot) == [k |-> "hup", slot |-> slot]

InPhase ==
  /\ TopIs("in")
  /\ stack' = CASE "IN" \in events -> Replaced([k |-> "out"]) \o <<Serve(0)>>
                [] "IN" \notin events /\ events \cap {"ERR", "HUP"} # {} ->
                     Replaced([k |-> "out"]) \o <<HangUp(0)>>
                [] OTHER -> Replaced([k |-> "out"])
  /\ UNCHANGED <<socketVars, deliveryVars>>

\* Fault: the write slot is served by errors only.
OutFrameErrOnly ==
  IF "ERR" \in events THEN Replaced(HangUp(1)) ELSE Popped

\* How the second half of dispatch() goes on.
OutFrame ==
  CASE "OUT" \in events -> Replaced(Serve(1))
    [] "OUT" \notin events /\ "ERR" \in events -> Replaced(HangUp(1))
    [] OTHER -> Popped

OutPhase ==
  /\ TopIs("out")
  /\ stack' = OutFrame
  /\ UNCHANGED <<socketVars, deliveryVars>>

SocketLibrary ==
  \/ SocketDispatch \/ InPhase \/ OutPhase
  \/ HostStep \/ ConnectDone \/ TryAccept \/ DoAccept \/ HupAccept
  \/ DoRead \/ HupRead \/ DoNone

SocketUser ==
  \/ SocketOpen \/ SocketClose \/ Listen \/ Shutdown \/ Connect \/ ConnectNow
  \/ Read
  \/ \E slot \in 0..1 : Cancel(slot)
  \/ \E form \in Forms : ByHost(form)
  \/ \E repeat \in BOOLEAN : Accept(repeat)

SocketNext == PeerConnects \/ ConnectEnds \/ SocketUser \/ SocketLibrary

-----------------------------------------------------------------------------
(***************************************************************************)
(* Properties.                                                             *)
(***************************************************************************)
socketState == <<socketVars, deliveryVars, stack>>

\* A callback that ends operation id is called in this step.
Answered(id) == hist'[id].finals # hist[id].finals

\* What a pending connect is told is the truth: its callback gets 0 exactly if
\* the connection stands.
ConnectTruthful ==
  [][\A id \in DOMAIN hist : hist[id].o = "connect" /\ Answered(id)
       => (stack'[Len(stack')].r = 0) = (st' = "connected")]_socketState

\* A cancelled operation is never called back, although its event may have
\* been harvested before, and cancelRead/cancelWrite do not touch the batch;
\* nor is a connect that threw.  A repeated accept that is cancelled while
\* accept() calls it back (habit breakoff) breaks this: the loop does not look
\* at the slot, goes on, and stores the operation.
NoAnswerAfterCancel ==
  [][\A id \in DOMAIN hist : hist[id].over => ~Answered(id)]_socketState

\* Every operation is ended by one callback, whichever of the synchronous
\* attempt, the loop over the addresses, doOperation and handleHup makes it.
\* An accept that is started from the callback of a repeated one (reenter) may
\* get more: doOperation's loop takes it for the repeated one.
OneAnswer == \A id \in DOMAIN hist : hist[id].finals <= 1

\* No operation is forgotten: until it is ended or given up, it is in a slot
\* or in a call in progress that will end it.
NoneForgotten ==
  \A id \in DOMAIN hist : hist[id].finals = 0 /\ ~hist[id].over =>
    \/ \E slot \in 0..1 : op[slot].operation # "none" /\ op[slot].id = id
    \/ \E n \in DOMAIN stack : stack[n].k \in {"try", "hosts"} /\ stack[n].id = id

\* No lost wakeup: no connect sleeps on a connection that is decided, and no
\* accept on a connection that waits or on a socket that does not listen.
NoSleeper ==
  Quiet(socket) /\ socket \in registered =>
    /\ op[1].operation = "connect" => st = "connecting"
    /\ op[0].operation = "accept" => WouldBlock

\* Operation id has been answered, or given up.
Settled(id) == id \in DOMAIN hist /\ (hist[id].finals > 0 \/ hist[id].over)

\* A decided connection reaches the connect that waits for it.
ConnectAnswered ==
  \A id \in 1..MaxOps :
    (socket \in registered /\ op[1].operation = "connect" /\ op[1].id = id
       /\ st # "connecting")
      ~> (socket \notin registered \/ Settled(id))
=============================================================================
