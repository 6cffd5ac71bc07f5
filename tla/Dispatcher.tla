----------------------------- MODULE Dispatcher -----------------------------
(***************************************************************************)
(* The loop's thread as the FD classes see it.  Control is a stack of      *)
(* calls in progress, the innermost last: parts of a dispatch(), of an     *)
(* operation that is being started, and user callbacks ("user").  With no  *)
(* call in progress and no dispatch() running the thread is in the main    *)
(* program, in a callback of some other FD, or about to wait: user code,   *)
(* too.                                                                    *)
(***************************************************************************)
EXTENDS EventDelivery, Integers, Sequences

VARIABLE stack

Top == stack[Len(stack)]
TopIs(k) == stack # <<>> /\ Top.k = k
Popped == SubSeq(stack, 1, Len(stack) - 1)
Replaced(f) == Append(Popped, f)

\* The callback of operation id runs; it was called with r.
UserFrame(id, r) == [k |-> "user", id |-> id, r |-> r]

AtRest == stack = <<>> /\ target = Null
UserCode == AtRest \/ TopIs("user")

\* Nothing of fd is on its way to its dispatch().
Quiet(fd) == AtRest /\ fd \notin ready /\ batch[fd] = {}

Return == stack' = Popped

CallbackReturn ==
  /\ TopIs("user")
  /\ Return
  /\ UNCHANGED deliveryVars

\* EPoll::add and EPoll::remove, which purges the batch and the running
\* dispatch()'s events before it fails on a descriptor that is closed.
Add(fd) ==
  /\ UserCode
  /\ Attach(fd)
  /\ UNCHANGED stack

Remove(fd) ==
  /\ UserCode
  /\ fd \in registered \/ batch[fd] # {} \/ target = fd
  /\ Detach(fd)
  /\ UNCHANGED stack

\* EPoll::run: epoll_wait, the call of dispatch() (whose first part is the
\* frame f), and its return.
WaitFor(fd) ==
  /\ stack = <<>>
  /\ \E S \in SUBSET FDs : fd \in S /\ Harvest(S)
  /\ UNCHANGED stack

Dispatch(fd, f) ==
  /\ stack = <<>>
  /\ Deliver(fd)
  /\ stack' = <<f>>

DispatchReturns ==
  /\ stack = <<>>
  /\ Finish
  /\ UNCHANGED stack
=============================================================================
