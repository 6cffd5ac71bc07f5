------------------------------- MODULE FileOp -------------------------------
(***************************************************************************)
(* One operation slot of CP::File (cpoll.C, "File"): pendingOps[0] (read)  *)
(* or pendingOps[1] (write), the kernel stream behind it, and the user's   *)
(* code that starts, cancels and completes operations on it.               *)
(*                                                                         *)
(* Everything runs on one thread, so control is a stack of frames: a call  *)
(* of doOperation, handleHup or File_tryOperation that is in progress, or  *)
(* a user callback.  A callback may start the next operation, so frames    *)
(* nest.  A call that ends with the callback leaves no frame behind (the   *)
(* callback's frame replaces it).  One step runs to the next system call   *)
(* or callback; the kernel moves between steps.                            *)
(*                                                                         *)
(* Operation names: "rw" is read/write, "sr" recv/send, "rwv" readv/writev,*)
(* and with All appended their *All forms.                                 *)
(***************************************************************************)
EXTENDS Integers, Sequences

CONSTANTS
  IsWrite,    \* TRUE: the write slot, FALSE: the read slot
  HupOnEnd,   \* the kernel reports the stream's end as EPOLLHUP/EPOLLERR
  RdyOnEnd,   \* the kernel reports the stream's end as EPOLLIN/EPOLLOUT
  Ops,        \* the operations the user starts
  Habits,     \* what the user does: "repeat": starts repeated operations,
              \* "nest": starts operations from callbacks, "cancel": cancels,
              \* "busy": starts operations while another one is pending,
              \* "tail": sends files past their end
  Lens,       \* buffer lengths
  MaxAvail,   \* bound: capacity of the kernel buffer
  MaxBytes,   \* bound: bytes that pass through the stream
  MaxOps,     \* bound: operations started
  MaxDepth    \* bound: frames below which the user starts no operation

Plain == {"rw", "sr", "rwv", "sendFile"}
BufAll == {"rwAll", "srAll"}
All == BufAll \cup {"rwvAll"}
Operations == Plain \cup All \cup {"wait", "close"}

ASSUME FileOpAssumption ==
  /\ IsWrite \in BOOLEAN
  /\ HupOnEnd \in BOOLEAN /\ RdyOnEnd \in BOOLEAN
  /\ Ops \subseteq Operations
  /\ IsWrite \/ Ops \cap {"sendFile", "close"} = {}
  /\ IsWrite \/ "tail" \notin Habits
  /\ Lens \subseteq Nat \ {0}
  /\ MaxAvail \in Nat /\ MaxBytes \in Nat /\ MaxOps \in Nat /\ MaxDepth \in Nat

VARIABLES
  avail,       \* kernel: bytes that can be read, or room to write
  down,        \* kernel: the other side is gone (EOF, or EPIPE)
  closed,      \* this File's descriptor has been closed
  registered,  \* the descriptor is in the epoll set
  edge,        \* kernel: the descriptor is in epoll's ready list
  notif,       \* the slot's part of the undispatched notification, or {}
  op,          \* the slot: OperationInfo
  skip,        \* OperationInfo::skipSynchronousAttempt
  stack,       \* calls in progress, the innermost last
  moved,       \* history: bytes taken from (given to) the kernel
  reported,    \* history: bytes reported to callbacks
  forfeited,   \* history: bytes of cancelled *All operations
  hist         \* history: the operations started, in order

streamVars == <<avail, down>>
epollVars == <<registered, edge, notif>>
histVars == <<moved, reported, forfeited, hist>>
vars == <<avail, down, closed, registered, edge, notif, op, skip, stack,
          moved, reported, forfeited, hist>>

(***************************************************************************)
(* Frames.                                                                 *)
(***************************************************************************)
Ids == 1..MaxOps

UserFrames == [k : {"user"}, id : Ids, r : Int]
TryFrames == [k : {"try"}, o : Plain, len : Lens, repeat : BOOLEAN, id : Ids]
TryAllFrames == [k : {"tryAll"}, o : BufAll, len : Lens, br : Nat, id : Ids]
DoFrames == [k : {"do", "rest"}, hup : BOOLEAN]
RepeatFrames == [k : {"repeat"}, o : Plain, short : BOOLEAN, hup : BOOLEAN]
HupFrames == [k : {"hup", "hupAll", "hupEnd", "abort"}]

Frames == UserFrames \cup TryFrames \cup TryAllFrames \cup DoFrames
            \cup RepeatFrames \cup HupFrames

OperationInfo ==
  [operation : Operations \cup {"none"}, len : Nat, lenDone : Nat,
   repeat : BOOLEAN, id : Ids \cup {0}]

\* finals counts the callbacks that end an operation; late records that one
\* came after the operation was cancelled (or refused).
OpHistory ==
  [o : Operations, repeat : BOOLEAN, finals : Nat, cancelled : BOOLEAN,
   late : BOOLEAN]

TypeOK ==
  /\ avail \in Nat
  /\ down \in BOOLEAN
  /\ closed \in BOOLEAN
  /\ registered \in BOOLEAN
  /\ edge \in BOOLEAN
  /\ notif \subseteq {"RDY", "HUP"}
  /\ op \in OperationInfo
  /\ skip \in BOOLEAN
  /\ stack \in Seq(Frames)
  /\ moved \in Nat /\ reported \in Nat /\ forfeited \in Nat
  /\ hist \in Seq(OpHistory)
  /\ Len(hist) <= MaxOps

Init ==
  /\ avail = 0
  /\ down = FALSE
  /\ closed = FALSE
  /\ registered = FALSE
  /\ edge = FALSE
  /\ notif = {}
  /\ op = [operation |-> "none", len |-> 0, lenDone |-> 0,
           repeat |-> FALSE, id |-> 0]
  /\ skip = FALSE
  /\ stack = <<>>
  /\ moved = 0 /\ reported = 0 /\ forfeited = 0
  /\ hist = <<>>

Top == stack[Len(stack)]
TopIs(k) == stack # <<>> /\ Top.k = k
Popped == SubSeq(stack, 1, Len(stack) - 1)
Replaced(f) == Append(Popped, f)

-----------------------------------------------------------------------------
(***************************************************************************)
(* The kernel: a byte stream under edge-triggered epoll.                   *)
(***************************************************************************)
\* The bits of the slot's direction.  How the end shows is a matter of the
\* kind of stream: EPOLLHUP alone (a pipe read), EPOLLIN with EPOLLHUP (a UNIX
\* stream socket whose peer closed, a reset connection), EPOLLIN alone (a FIN
\* on a TCP connection), EPOLLERR alone (a pipe written, while it is full),
\* EPOLLOUT with EPOLLERR (a reset connection written).
Mask ==
  (IF avail > 0 \/ (down /\ RdyOnEnd) THEN {"RDY"} ELSE {})
    \cup (IF down /\ HupOnEnd THEN {"HUP"} ELSE {})

EAGAIN == -2   \* stands for the result -1 with errno EAGAIN

\* The result of the slot's nonblocking system call for n bytes.
Sys(n) ==
  CASE closed                 -> -1
    [] ~closed /\ IsWrite /\ down  -> -1
    [] ~closed /\ ~(IsWrite /\ down) /\ avail > 0 ->
         IF n < avail THEN n ELSE avail
    [] ~closed /\ ~IsWrite /\ down /\ avail = 0 -> 0
    [] ~closed /\ ~down /\ avail = 0 -> EAGAIN

\* The results of that call for operation o.  A file whose end comes before n
\* bytes makes sendfile move less than the stream has room for, and nothing
\* once the offset is past the end.
Results(o, n) ==
  {Sys(n)} \cup (IF o = "sendFile" /\ "tail" \in Habits /\ ~closed
                   THEN {0} \cup 1..(Sys(n) - 1) ELSE {})

\* Fault: the result is added up before it is tested for an error.
TransferUnchecked(r) ==
  /\ avail' = avail - r
  /\ moved' = moved + r
  /\ UNCHANGED down

\* The effect of that call on the stream when it returned r.
Transfer(r) ==
  /\ avail' = IF r > 0 THEN avail - r ELSE avail
  /\ moved' = IF r > 0 THEN moved + r ELSE moved
  /\ UNCHANGED down

\* n bytes arrive, or n bytes of room are freed.
Arrive(n) ==
  /\ ~down /\ ~closed
  /\ avail + n <= MaxAvail
  /\ moved + avail + n <= MaxBytes
  /\ avail' = avail + n
  /\ edge' = (edge \/ registered)
  /\ UNCHANGED <<down, closed, registered, notif, op, skip, stack, histVars>>

\* The other side goes away.
End ==
  /\ ~down /\ ~closed
  /\ down' = TRUE
  /\ edge' = (edge \/ registered)
  /\ UNCHANGED <<avail, closed, registered, notif, op, skip, stack, histVars>>

\* An event of the other slot queues the descriptor; its report carries this
\* slot's bits too.
OtherEdge ==
  /\ registered /\ ~edge
  /\ edge' = TRUE
  /\ UNCHANGED <<streamVars, closed, registered, notif, op, skip, stack, histVars>>

-----------------------------------------------------------------------------
(***************************************************************************)
(* Callbacks.  Called(id, r) records that the callback was called with r.  *)
(***************************************************************************)
UserFrame(id, r) == [k |-> "user", id |-> id, r |-> r]

CallRecorded(h, r) ==
  [h EXCEPT !.finals = IF h.repeat /\ r > 0 THEN @ ELSE @ + 1,
            !.late = @ \/ h.cancelled]

Called(id, r) ==
  /\ reported' = IF r > 0 THEN reported + r ELSE reported
  /\ hist' = [hist EXCEPT ![id] = CallRecorded(@, r)]
  /\ UNCHANGED forfeited

\* The running call ends by calling the callback.
TailCall(id, r) ==
  /\ stack' = Replaced(UserFrame(id, r))
  /\ Called(id, r)

\* The running call calls the callback and goes on as frame f afterwards.
CallThen(f, id, r) ==
  /\ stack' = Append(Replaced(f), UserFrame(id, r))
  /\ Called(id, r)

\* The running call returns.
Return ==
  /\ stack' = Popped
  /\ UNCHANGED <<reported, forfeited, hist>>

\* The user's callback returns.
CallbackReturn ==
  /\ TopIs("user")
  /\ stack' = Popped
  /\ UNCHANGED <<streamVars, closed, epollVars, op, skip, histVars>>

\* Fault: the slot is not cleared.
FinishedNot == op

\* op.operation = Operations::none.
Finished == [op EXCEPT !.operation = "none"]

\* What a hangup is reported as: -1 (EPIPE) for a write, 0 (EOF) for a read.
HupResult == IF IsWrite THEN -1 ELSE 0

-----------------------------------------------------------------------------
(***************************************************************************)
(* Starting operations.  A start on a busy slot throws logic_error and     *)
(* changes nothing, except in recvAll/sendAll, which look at the slot only *)
(* after the system calls, and in readvAll/writevAll, which never look.    *)
(***************************************************************************)
UserCode == stack = <<>> \/ TopIs("user")

MayStart(o) ==
  /\ UserCode
  /\ stack # <<>> => "nest" \in Habits
  /\ o \in Ops
  /\ ~closed
  /\ Len(hist) < MaxOps
  /\ Len(stack) < MaxDepth

Free == op.operation = "none"
NewId == Len(hist) + 1
Repeats == IF "repeat" \in Habits THEN BOOLEAN ELSE {FALSE}

Started(o, repeat) ==
  hist' = Append(hist, [o |-> o, repeat |-> repeat, finals |-> 0,
                        cancelled |-> FALSE, late |-> FALSE])

\* Fault: addRWOp keeps the callback of the operation before.
addRWOpStaleCb(o, len, lenDone, repeat, id) ==
  [operation |-> o, len |-> len, lenDone |-> lenDone, repeat |-> repeat,
   id |-> op.id]

\* Fault: what the synchronous attempt has done is not recorded.
addRWOpRestart(o, len, lenDone, repeat, id) ==
  [operation |-> o, len |-> len, lenDone |-> 0, repeat |-> repeat, id |-> id]

\* addRWOp, and the assignments that stand for it in the other operations.
addRWOp(o, len, lenDone, repeat, id) ==
  [operation |-> o, len |-> len, lenDone |-> lenDone, repeat |-> repeat,
   id |-> id]

\* waitReadable and waitWritable.
StartWait ==
  /\ MayStart("wait")
  /\ Free
  /\ op' = addRWOp("wait", 0, 0, FALSE, NewId)
  /\ Started("wait", FALSE)
  /\ UNCHANGED <<streamVars, closed, epollVars, skip, stack, moved, reported,
                 forfeited>>

\* read, write, recv and send: a synchronous attempt first, unless a short
\* transfer said that it would block.
StartPlain(o, len, repeat) ==
  /\ MayStart(o)
  /\ Free
  /\ IF skip
       THEN /\ op' = addRWOp(o, len, 0, repeat, NewId)
            /\ UNCHANGED stack
       ELSE /\ stack' = Append(stack, [k |-> "try", o |-> o, len |-> len,
                                       repeat |-> repeat, id |-> NewId])
            /\ UNCHANGED op
  /\ Started(o, repeat)
  /\ UNCHANGED <<streamVars, closed, epollVars, skip, moved, reported,
                 forfeited>>

\* readv and writev; len stands for iovBytesTotal.
StartV(len, repeat) == StartPlain("rwv", len, repeat)

\* sendFileFrom: like write, but it does not look at skipSynchronousAttempt.
StartSendFile(len, repeat) ==
  /\ MayStart("sendFile")
  /\ Free
  /\ stack' = Append(stack, [k |-> "try", o |-> "sendFile", len |-> len,
                             repeat |-> repeat, id |-> NewId])
  /\ Started("sendFile", repeat)
  /\ UNCHANGED <<streamVars, closed, epollVars, op, skip, moved, reported,
                 forfeited>>

\* One system call of File_tryOperation.  When it would block, the operation
\* is stored in the slot.
TryStep ==
  /\ TopIs("try")
  /\ \E r \in Results(Top.o, Top.len) :
     /\ Transfer(r)
     /\ \/ /\ r = EAGAIN
           /\ op' = addRWOp(Top.o, Top.len, 0, Top.repeat, Top.id)
           /\ Return
        \/ /\ r # EAGAIN /\ ~(Top.repeat /\ r > 0)
           /\ TailCall(Top.id, r)
           /\ UNCHANGED op
        \/ /\ r > 0 /\ Top.repeat
           /\ CallThen(Top, Top.id, r)
           /\ UNCHANGED op
  /\ UNCHANGED <<closed, epollVars, skip>>

\* readAll and writeAll.
StartRwAll(len) ==
  /\ MayStart("rwAll")
  /\ Free
  /\ IF skip
       THEN /\ op' = addRWOp("rwAll", len, 0, FALSE, NewId)
            /\ UNCHANGED stack
       ELSE /\ stack' = Append(stack, [k |-> "tryAll", o |-> "rwAll",
                                       len |-> len, br |-> 0, id |-> NewId])
            /\ UNCHANGED op
  /\ Started("rwAll", FALSE)
  /\ UNCHANGED <<streamVars, closed, epollVars, skip, moved, reported,
                 forfeited>>

\* recvAll and sendAll.
StartSrAll(len) ==
  /\ MayStart("srAll")
  /\ Free \/ "busy" \in Habits
  /\ stack' = Append(stack, [k |-> "tryAll", o |-> "srAll", len |-> len,
                             br |-> 0, id |-> NewId])
  /\ Started("srAll", FALSE)
  /\ UNCHANGED <<streamVars, closed, epollVars, op, skip, moved, reported,
                 forfeited>>

\* One round of the loop of File_tryOperation2.  recvAll and sendAll throw
\* when the call would block and the slot is busy.
TryAllStep ==
  /\ TopIs("tryAll")
  /\ \/ /\ Top.br >= Top.len
        /\ TailCall(Top.id, Top.br)
        /\ UNCHANGED <<streamVars, moved, op>>
     \/ LET r == Sys(Top.len - Top.br) IN
        /\ Top.br < Top.len
        /\ Transfer(r)
        /\ \/ /\ r = EAGAIN
              /\ Free \/ Top.o = "rwAll"
              /\ op' = addRWOp(Top.o, Top.len, Top.br, FALSE, Top.id)
              /\ Return
           \/ /\ r = EAGAIN
              /\ ~Free /\ Top.o = "srAll"
              /\ stack' = Popped
              /\ hist' = [hist EXCEPT ![Top.id].cancelled = TRUE]
              /\ UNCHANGED <<op, reported, forfeited>>
           \/ /\ r \in {0, -1}
              /\ TailCall(Top.id, IF Top.br = 0 THEN r ELSE Top.br)
              /\ UNCHANGED op
           \/ /\ r > 0
              /\ stack' = Replaced([Top EXCEPT !.br = @ + r])
              /\ UNCHANGED <<op, reported, forfeited, hist>>
  /\ UNCHANGED <<closed, epollVars, skip>>

\* readvAll and writevAll: the slot is overwritten, and doOperation makes the
\* synchronous attempt.
StartVAll(len) ==
  /\ MayStart("rwvAll")
  /\ Free \/ "busy" \in Habits
  /\ op' = addRWOp("rwvAll", len, 0, FALSE, NewId)
  /\ stack' = IF skip THEN stack
                      ELSE Append(stack, [k |-> "do", hup |-> FALSE])
  /\ skip' = skip
  /\ Started("rwvAll", FALSE)
  /\ UNCHANGED <<streamVars, closed, epollVars, moved, reported, forfeited>>

\* File::close(cb): at once if poll(POLLOUT) reports anything.  The kernel
\* drops a closed descriptor from epoll; the batch is not touched.
CloseFd ==
  /\ closed' = TRUE
  /\ registered' = FALSE
  /\ edge' = FALSE
  /\ UNCHANGED notif

StartClose ==
  /\ MayStart("close")
  /\ Free
  /\ \/ /\ Mask # {}
        /\ CloseFd
        /\ stack' = Append(stack, UserFrame(NewId, 0))
        /\ hist' = Append(hist, [o |-> "close", repeat |-> FALSE, finals |-> 1,
                                 cancelled |-> FALSE, late |-> FALSE])
        /\ UNCHANGED op
     \/ /\ Mask = {}
        /\ op' = addRWOp("close", 0, 0, FALSE, NewId)
        /\ Started("close", FALSE)
        /\ UNCHANGED <<closed, epollVars, stack>>
  /\ UNCHANGED <<streamVars, skip, moved, reported, forfeited>>

\* The operation the user means by cancelRead/cancelWrite: the pending one,
\* or the repeated one whose callback is running.
CancelTargets ==
  (IF Free THEN {} ELSE {op.id})
    \cup (IF TopIs("user") /\ hist[Top.id].repeat /\ hist[Top.id].finals = 0
            THEN {Top.id} ELSE {})

\* cancelRead and cancelWrite.
Cancel ==
  /\ UserCode
  /\ "cancel" \in Habits
  /\ CancelTargets # {}
  /\ op' = Finished
  /\ forfeited' = IF op.operation \in All THEN forfeited + op.lenDone
                                          ELSE forfeited
  /\ hist' = [n \in DOMAIN hist |->
                IF n \in CancelTargets THEN [hist[n] EXCEPT !.cancelled = TRUE]
                                       ELSE hist[n]]
  /\ UNCHANGED <<streamVars, closed, epollVars, skip, stack, moved, reported>>

-----------------------------------------------------------------------------
(***************************************************************************)
(* File::doOperation.                                                      *)
(***************************************************************************)

\* Fault: a transfer that filled the buffer counts as short.
ShortOrFull(r, len) == r <= len

\* shortRead.
Short(r, len) == r < len

\* Fault: a short transfer blocks the next synchronous attempt although the
\* stream has ended and no further edge will come.
SkipDespiteHup(short, hup) == short

\* Whether a short transfer sets skipSynchronousAttempt.
SkipNext(short, hup) == short /\ ~hup

\* The ordinary operations, from the label repeat1.
DoPlain ==
  /\ TopIs("do")
  /\ op.operation \in Plain
  /\ \E r \in Results(op.operation, op.len) :
     LET short == Short(r, op.len) IN
     /\ Transfer(r)
     /\ \/ /\ r = EAGAIN
           /\ Return
           /\ UNCHANGED <<op, skip>>
        \/ /\ r \in {0, -1}
           /\ op' = Finished
           /\ TailCall(op.id, r)
           /\ UNCHANGED skip
        \/ /\ r > 0 /\ op.repeat
           /\ CallThen([k |-> "repeat", o |-> op.operation, short |-> short,
                        hup |-> Top.hup], op.id, r)
           /\ UNCHANGED <<op, skip>>
        \/ /\ r > 0 /\ ~op.repeat
           /\ op' = Finished
           /\ skip' = (skip \/ SkipNext(short, Top.hup))
           /\ TailCall(op.id, r)
  /\ UNCHANGED <<closed, epollVars>>

\* Operations::wait completes with 0 on any event.
DoWait ==
  /\ TopIs("do")
  /\ op.operation = "wait"
  /\ op' = Finished
  /\ TailCall(op.id, 0)
  /\ UNCHANGED <<streamVars, closed, epollVars, skip, moved>>

\* After the callback of a repeated operation.
DoRepeat ==
  /\ TopIs("repeat")
  /\ \/ /\ op.operation = Top.o /\ Top.hup
        /\ op' = Finished
        /\ TailCall(op.id, HupResult)
        /\ UNCHANGED skip
     \/ /\ op.operation = Top.o /\ ~Top.hup /\ Top.short
        /\ Return
        /\ UNCHANGED <<op, skip>>
     \/ /\ op.operation = Top.o /\ ~Top.hup /\ ~Top.short
        /\ stack' = Replaced([k |-> "do", hup |-> FALSE])
        /\ UNCHANGED <<op, skip, reported, forfeited, hist>>
     \/ /\ op.operation # Top.o
        /\ skip' = (skip \/ SkipNext(Top.short, Top.hup))
        /\ stack' = Replaced([k |-> "rest", hup |-> Top.hup])
        /\ UNCHANGED <<op, reported, forfeited, hist>>
  /\ UNCHANGED <<streamVars, closed, epollVars, moved>>

\* Past the ordinary operations: their block did not apply, or it fell
\* through because the callback replaced a repeated operation.
AtRest == TopIs("rest") \/ (TopIs("do") /\ op.operation \notin Plain \cup {"wait"})

\* The *All operations: one system call for what is still missing.
DoAll ==
  /\ AtRest
  /\ op.operation \in All
  /\ LET r == Sys(op.len - op.lenDone)
         done == op.lenDone + r
     IN
     /\ Transfer(r)
     /\ \/ /\ r = EAGAIN
           /\ Return
           /\ UNCHANGED op
        \/ /\ r \in {0, -1}
           /\ op' = Finished
           /\ TailCall(op.id, IF op.lenDone = 0 THEN r ELSE op.lenDone)
        \/ /\ r > 0 /\ (done >= op.len \/ Top.hup)
           /\ op' = [Finished EXCEPT !.lenDone = done]
           /\ TailCall(op.id, done)
        \/ /\ r > 0 /\ done < op.len /\ ~Top.hup
           /\ op' = [op EXCEPT !.lenDone = done]
           /\ Return
  /\ UNCHANGED <<closed, epollVars, skip>>

\* The last switch: nothing to do, the deferred close, or assert(false).
DoOther ==
  /\ AtRest
  /\ \/ /\ op.operation = "none"
        /\ Return
        /\ UNCHANGED <<closed, epollVars, op>>
     \/ /\ op.operation = "close"
        /\ CloseFd
        /\ op' = Finished
        /\ TailCall(op.id, 0)
     \/ /\ op.operation \in Plain \cup {"wait"}
        /\ stack' = Append(stack, [k |-> "abort"])
        /\ UNCHANGED <<closed, epollVars, op, reported, forfeited, hist>>
  /\ UNCHANGED <<streamVars, skip, moved>>

-----------------------------------------------------------------------------
(***************************************************************************)
(* File::handleHup.                                                        *)
(***************************************************************************)

\* The first test: ordinary operations.  The second test follows.
HupPlain ==
  /\ TopIs("hup")
  /\ op.operation \in Plain
  /\ op' = Finished
  /\ CallThen([k |-> "hupAll"], op.id, HupResult)
  /\ UNCHANGED <<streamVars, closed, epollVars, skip, moved>>

\* The second test: readAll, writeAll, sendAll, recvAll.
HupAll ==
  /\ TopIs("hup") \/ TopIs("hupAll")
  /\ op.operation \in BufAll
  /\ op' = Finished
  /\ IF op.lenDone > 0
       THEN CallThen([k |-> "hupEnd"], op.id, op.lenDone)
       ELSE TailCall(op.id, HupResult)
  /\ UNCHANGED <<streamVars, closed, epollVars, skip, moved>>

\* The call after the report of lenDone.  op.cb is whatever is there now.
HupEnd ==
  /\ TopIs("hupEnd")
  /\ TailCall(op.id, HupResult)
  /\ UNCHANGED <<streamVars, closed, epollVars, op, skip, moved>>

\* No test applies.
HupNone ==
  /\ \/ TopIs("hup") /\ op.operation \notin Plain \cup BufAll
     \/ TopIs("hupAll") /\ op.operation \notin BufAll
  /\ Return
  /\ UNCHANGED <<streamVars, closed, epollVars, op, skip, moved>>

-----------------------------------------------------------------------------
(***************************************************************************)
(* EPoll and File::dispatch, as far as this slot is concerned.             *)
(***************************************************************************)
Add ==
  /\ UserCode
  /\ ~registered /\ ~closed
  /\ registered' = TRUE
  /\ edge' = (Mask # {})
  /\ UNCHANGED <<streamVars, closed, notif, op, skip, stack, histVars>>

Remove ==
  /\ UserCode
  /\ registered
  /\ registered' = FALSE
  /\ edge' = FALSE
  /\ notif' = {}
  /\ UNCHANGED <<streamVars, closed, op, skip, stack, histVars>>

\* epoll_wait reports the descriptor; an FD with an empty mask is dropped.
Harvest ==
  /\ stack = <<>>
  /\ notif = {}
  /\ edge
  /\ edge' = FALSE
  /\ notif' = Mask
  /\ UNCHANGED <<streamVars, closed, registered, op, skip, stack, histVars>>

\* Fault: doOperation does not forget skipSynchronousAttempt.
DispatchKeepsSkip ==
  /\ stack = <<>>
  /\ notif # {}
  /\ notif' = {}
  /\ stack' = <<IF "RDY" \in notif THEN [k |-> "do", hup |-> "HUP" \in notif]
                                   ELSE [k |-> "hup"]>>
  /\ UNCHANGED <<streamVars, closed, registered, edge, op, skip, histVars>>

\* Fault: dispatch() looks at the hangup first.
DispatchHupFirst ==
  /\ stack = <<>>
  /\ notif # {}
  /\ notif' = {}
  /\ skip' = FALSE
  /\ stack' = <<IF "HUP" \in notif THEN [k |-> "hup"]
                                   ELSE [k |-> "do", hup |-> FALSE]>>
  /\ UNCHANGED <<streamVars, closed, registered, edge, op, histVars>>

\* dispatch() serves the slot: doOperation, which first of all forgets
\* skipSynchronousAttempt, or handleHup.
Dispatch ==
  /\ stack = <<>>
  /\ notif # {}
  /\ notif' = {}
  /\ \/ /\ "RDY" \in notif
        /\ skip' = FALSE
        /\ stack' = <<[k |-> "do", hup |-> "HUP" \in notif]>>
     \/ /\ "RDY" \notin notif
        /\ stack' = <<[k |-> "hup"]>>
        /\ UNCHANGED skip
  /\ UNCHANGED <<streamVars, closed, registered, edge, op, histVars>>

-----------------------------------------------------------------------------
Kernel == End \/ OtherEdge \/ \E n \in 1..MaxAvail : Arrive(n)

Start ==
  \/ StartWait
  \/ \E len \in Lens, rep \in Repeats :
       \/ \E o \in {"rw", "sr"} : StartPlain(o, len, rep)
       \/ StartV(len, rep)
       \/ StartSendFile(len, rep)
  \/ \E len \in Lens : StartRwAll(len) \/ StartSrAll(len) \/ StartVAll(len)
  \/ StartClose

User == Start \/ Cancel \/ Add \/ Remove

Library ==
  \/ TryStep \/ TryAllStep
  \/ DoPlain \/ DoWait \/ DoRepeat \/ DoAll \/ DoOther
  \/ HupPlain \/ HupAll \/ HupEnd \/ HupNone
  \/ Harvest \/ Dispatch

Next == Kernel \/ User \/ Library \/ CallbackReturn

\* The loop runs, the library runs, and callbacks return.
Fairness == WF_vars(Library) /\ WF_vars(CallbackReturn)

Spec == Init /\ [][Next]_vars

LiveSpec == Spec /\ Fairness

-----------------------------------------------------------------------------
(***************************************************************************)
(* Properties.                                                             *)
(***************************************************************************)

\* The thread sleeps in epoll_wait and no event of this File is on its way.
Idle == stack = <<>> /\ notif = {} /\ ~edge

\* An operation that moves bytes, or the deferred close, waits in the slot.
Waiting == op.operation \notin {"none", "wait"}

\* No lost wakeup: an operation never sleeps on a stream that is ready.  An
\* edge comes once, so every path that leaves an operation in the slot (a
\* system call that would block, skipSynchronousAttempt after a short
\* transfer, a short repeated transfer, a partial *All) must have found the
\* stream drained since the last edge.
NoLostData == Idle /\ registered /\ Waiting => avail = 0

\* No lost end: an operation never sleeps on a stream that has ended.  True of
\* a read when the end comes as EPOLLIN with EPOLLHUP: doOperation then knows
\* that a short transfer is not the last to look at.  When it comes as EPOLLIN
\* alone (a TCP FIN) a short transfer that meets data and end in one event sets
\* skipSynchronousAttempt, and the next operation waits for an edge that never
\* comes.
NoLostEnd == Idle /\ registered /\ Waiting => ~down

\* An operation is finished by one callback: one call for a one-shot
\* operation, one call with 0 or -1 for a repeated one.
CallbackOnce == \A id \in DOMAIN hist : hist[id].finals <= 1

\* "cancelRead": no callback of an operation comes after it was cancelled.
NoCallAfterCancel == \A id \in DOMAIN hist : ~hist[id].late

\* The operation is in the slot or in a synchronous attempt in progress.
InProgress(id) ==
  \/ op.operation # "none" /\ op.id = id
  \/ \E n \in DOMAIN stack : stack[n].k \in {"try", "tryAll"} /\ stack[n].id = id

\* No operation is forgotten: until it is finished or cancelled, some part of
\* the library still knows its callback.
NoOpForgotten ==
  \A id \in DOMAIN hist :
    hist[id].finals = 0 /\ ~hist[id].cancelled => InProgress(id)

\* A callback that is told 0 (end of file) by a read, or -1 by a write, is
\* told the truth: nothing is left to read, or nobody is left to write to.
EndIsTheEnd ==
  \A n \in DOMAIN stack :
    (stack[n].k = "user" /\ stack[n].r = HupResult
       /\ hist[stack[n].id].o \notin {"wait", "close"})
      => closed \/ (down /\ (IsWrite \/ avail = 0))

\* The bytes of *All operations that are done and not yet reported.
InFlight ==
  (IF op.operation \in All THEN op.lenDone ELSE 0)
    + (IF TopIs("tryAll") THEN Top.br ELSE 0)

\* Byte accounting: every byte taken from the kernel is reported to a callback
\* exactly once, however an operation was split over synchronous attempts,
\* dispatches and a hangup, unless the user cancelled the operation.
Conservation == moved = reported + forfeited + InFlight

\* Operation id waits in the slot of a File that is registered with EPoll.
WaitsFor(id) == registered /\ Waiting /\ op.id = id

\* Operation id has been answered, or the user gave it up.
Over(id) ==
  \/ ~registered
  \/ id \in DOMAIN hist /\ (hist[id].finals > 0 \/ hist[id].cancelled)

\* The end of the stream reaches the operation that waits for it, where the end
\* comes as EPOLLIN with EPOLLHUP (see NoLostEnd).
EndReported == \A id \in Ids : WaitsFor(id) /\ down ~> Over(id)

\* Data reaches the operation that waits for it: it moves all there is, or is
\* finished by a part of it.
DataReported == \A id \in Ids : WaitsFor(id) /\ avail > 0 ~> Over(id) \/ avail = 0
=============================================================================
