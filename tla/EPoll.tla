------------------------------- MODULE EPoll -------------------------------
(***************************************************************************)
(* CP::EPoll (cpoll.C, "EPoll"): the edge-triggered event loop.            *)
(*                                                                         *)
(* One thread alternates between user code and EPoll::run().  run() takes  *)
(* a batch of at most EVENTSPERCYCLE notifications out of the kernel's     *)
(* ready list and calls FD::dispatch() for each of them; dispatch() serves *)
(* the read slot and then the write slot of the FD and may call a user     *)
(* callback in each.  A callback may add, close, remove and delete any FD, *)
(* those that wait in the same batch and the dispatched one included.      *)
(* The kernel raises events at any time.                                   *)
(*                                                                         *)
(* What a slot does with an event is the subject of module FileOp; here a  *)
(* slot either calls a callback or does not.                               *)
(***************************************************************************)
EXTENDS Integers, Sequences

CONSTANTS
  FDs,             \* the FD objects of the program
  Null,            \* the null pointer
  EVENTSPERCYCLE,  \* capacity of currCycleNotifications
  Events           \* the epoll event bits that occur

ASSUME EPollAssumption ==
  /\ Null \notin FDs
  /\ EVENTSPERCYCLE \in Nat \ {0}
  /\ Events \subseteq {"IN", "OUT", "ERR", "HUP"}

VARIABLES
  alive,     \* FD objects that have not been deleted
  open,      \* FDs whose descriptor has not been closed
  attached,  \* FDs that were given to add() and not yet to remove()
  poll,      \* kernel: the event mask of each FD
  rdl,       \* kernel: the ready list, the FDs epoll_wait will report
  currCycleNotifications,  \* the first currCycleNotificationsCount entries
  i,         \* loop index of run(), from 1
  inst,      \* the FD whose dispatch() is running
  pc,        \* where the thread is
  cont,      \* what follows the running callback
  unseen     \* history: event bits raised and not yet passed to dispatch()

vars == <<alive, open, attached, poll, rdl, currCycleNotifications, i, inst, pc,
          cont, unseen>>

objVars == <<alive, open, attached>>
kernelVars == <<poll, rdl>>
runVars == <<currCycleNotifications, i, inst, pc, cont>>

(***************************************************************************)
(* "main": outside run(); "loop": at the test of the for loop; "read" and  *)
(* "write": in dispatch(), before the read and before the write slot;      *)
(* "cbread" and "cbwrite": a user callback called from that slot runs.     *)
(***************************************************************************)
Locations == {"main", "loop", "read", "write", "cbread", "cbwrite"}

\* What dispatch() does once a callback returns: a one-shot operation's
\* callback is the last thing doOperation() does ("tail"); after the callback
\* of a repeated operation it reads op.operation again ("touch").
Continuations == {"tail", "touch"}

Notification == [ptr : FDs \cup {Null}, events : SUBSET Events]

Elements(s) == {s[k] : k \in DOMAIN s}

TypeOK ==
  /\ alive \subseteq FDs
  /\ open \subseteq FDs
  /\ attached \subseteq FDs
  /\ poll \in [FDs -> SUBSET Events]
  /\ rdl \in Seq(FDs)
  /\ currCycleNotifications \in Seq(Notification)
  /\ Len(currCycleNotifications) <= EVENTSPERCYCLE
  /\ i \in Nat \ {0}
  /\ inst \in FDs \cup {Null}
  /\ pc \in Locations
  /\ cont \in Continuations
  /\ unseen \in [FDs -> SUBSET Events]

Init ==
  /\ alive = FDs
  /\ open = FDs
  /\ attached = {}
  /\ poll = [fd \in FDs |-> {}]
  /\ rdl = <<>>
  /\ currCycleNotifications = <<>>
  /\ i = 1
  /\ inst = Null
  /\ pc = "main"
  /\ cont = "tail"
  /\ unseen = [fd \in FDs |-> {}]

-----------------------------------------------------------------------------
(***************************************************************************)
(* The kernel side of epoll, as cpoll uses it: EPOLLET registrations.      *)
(***************************************************************************)

\* The registered FDs: close() takes a descriptor out of every epoll set.
interest == attached \cap open

\* The ready list after fd became ready: an FD is queued at most once.
Enqueue(s, fd) == IF fd \in Elements(s) THEN s ELSE Append(s, fd)

\* s without its k-th element.
Without(s, k) == [j \in 1..(Len(s) - 1) |-> IF j < k THEN s[j] ELSE s[j + 1]]

\* s is the ready list before, and t the ready list after, fd left it.
Dequeued(s, t, fd) ==
  \/ fd \notin Elements(s) /\ t = s
  \/ \E k \in DOMAIN s : s[k] = fd /\ t = Without(s, k)

\* An event bit of fd is raised: new data, room, a hangup.  Under EPOLLET
\* this is the only thing that queues a registered FD again.
KernelEvent(fd, e) ==
  /\ fd \in open
  /\ poll' = [poll EXCEPT ![fd] = @ \cup {e}]
  /\ rdl' = IF fd \in interest THEN Enqueue(rdl, fd) ELSE rdl
  /\ unseen' = IF fd \in interest
                 THEN [unseen EXCEPT ![fd] = @ \cup {e}] ELSE unseen
  /\ UNCHANGED <<objVars, runVars>>

-----------------------------------------------------------------------------
(***************************************************************************)
(* The user's calls, from the main program or from a callback.             *)
(***************************************************************************)
UserCode == pc \in {"main", "cbread", "cbwrite"}

\* EPoll::add.  EPOLL_CTL_ADD polls the file: an FD that is ready already is
\* queued at once, so the new registration owes the user all of poll[fd].
Add(fd) ==
  /\ UserCode
  /\ fd \in (alive \cap open) \ attached
  /\ attached' = attached \cup {fd}
  /\ rdl' = IF poll[fd] # {} THEN Enqueue(rdl, fd) ELSE rdl
  /\ unseen' = [unseen EXCEPT ![fd] = poll[fd]]
  /\ UNCHANGED <<alive, open, poll, runVars>>

\* Fault: the scan clears the pointer and forgets the events.
PurgePtrOnly(s, fd) ==
  [k \in DOMAIN s |-> IF s[k].ptr = fd THEN [s[k] EXCEPT !.ptr = Null]
                                       ELSE s[k]]

\* The scan of EPoll::remove over the current batch.
Purge(s, fd) ==
  [k \in DOMAIN s |-> IF s[k].ptr = fd THEN [ptr |-> Null, events |-> {}]
                                       ELSE s[k]]

\* EPoll::remove: the scan of the batch, then EPOLL_CTL_DEL.  For an FD that
\* was closed before, EPOLL_CTL_DEL fails and checkError throws to the caller,
\* after the scan.
Remove(fd) ==
  /\ UserCode
  /\ fd \in attached
  /\ currCycleNotifications' = Purge(currCycleNotifications, fd)
  /\ attached' = attached \ {fd}
  /\ Dequeued(rdl, rdl', fd)
  /\ unseen' = [unseen EXCEPT ![fd] = {}]
  /\ UNCHANGED <<alive, open, poll, i, inst, pc, cont>>

\* File::close: the kernel forgets the descriptor, the batch still names it.
Close(fd) ==
  /\ UserCode
  /\ fd \in alive \cap open
  /\ open' = open \ {fd}
  /\ poll' = [poll EXCEPT ![fd] = {}]
  /\ Dequeued(rdl, rdl', fd)
  /\ unseen' = [unseen EXCEPT ![fd] = {}]
  /\ UNCHANGED <<alive, attached, runVars>>

\* The user deletes an FD, as the header allows: once it is not, or no longer,
\* added.  The destructor closes the descriptor.
Delete(fd) ==
  /\ UserCode
  /\ fd \in alive \ attached
  /\ alive' = alive \ {fd}
  /\ open' = open \ {fd}
  /\ poll' = [poll EXCEPT ![fd] = {}]
  /\ UNCHANGED <<attached, rdl, runVars, unseen>>

\* The user's I/O on fd uses up an event (reads all data, fills the buffer).
Drain(fd, e) ==
  /\ UserCode
  /\ fd \in alive \cap open
  /\ e \in poll[fd]
  /\ poll' = [poll EXCEPT ![fd] = @ \ {e}]
  /\ unseen' = [unseen EXCEPT ![fd] = @ \ {e}]
  /\ IF poll'[fd] = {} THEN Dequeued(rdl, rdl', fd) ELSE rdl' = rdl
  /\ UNCHANGED <<objVars, runVars>>

-----------------------------------------------------------------------------
(***************************************************************************)
(* EPoll::run and FD::dispatch.                                            *)
(***************************************************************************)
Min(a, b) == IF a < b THEN a ELSE b

\* Fault: run() asks for more entries than its array has.
BatchSizeOver == Min(EVENTSPERCYCLE + 1, Len(rdl))

\* The number of entries run() gets from epoll_wait.
BatchSize == Min(EVENTSPERCYCLE, Len(rdl))

\* epoll_wait moves the head of the ready list into the batch.  With nothing
\* ready it may come back empty: a timeout (0) or EINTR (-1, which
\* checkError lets pass), and the for loop is skipped in both cases.
Wait ==
  LET n == BatchSize IN
  /\ pc = "main"
  /\ currCycleNotifications' =
       [k \in 1..n |-> [ptr |-> rdl[k], events |-> poll[rdl[k]]]]
  /\ rdl' = SubSeq(rdl, n + 1, Len(rdl))
  /\ i' = 1
  /\ pc' = "loop"
  /\ UNCHANGED <<objVars, poll, inst, cont, unseen>>

\* Fault: the for loop stops one entry early.
LoopEndShort == Len(currCycleNotifications) - 1

\* The bound of the for loop: currCycleNotificationsCount.
LoopEnd == Len(currCycleNotifications)

\* One test of the for loop: dispatch entry i, skip it, or leave run().
Loop ==
  /\ pc = "loop"
  /\ \/ /\ i <= LoopEnd
        /\ currCycleNotifications[i].ptr # Null
        /\ inst' = currCycleNotifications[i].ptr
        /\ unseen' = [unseen EXCEPT ![inst'] =
                        @ \ currCycleNotifications[i].events]
        /\ pc' = "read"
        /\ UNCHANGED <<currCycleNotifications, i>>
     \/ /\ i <= LoopEnd
        /\ currCycleNotifications[i].ptr = Null
        /\ i' = i + 1
        /\ UNCHANGED <<currCycleNotifications, inst, pc, unseen>>
     \/ /\ i > LoopEnd
        /\ currCycleNotifications' = <<>>
        /\ i' = 1
        /\ inst' = Null
        /\ pc' = "main"
        /\ UNCHANGED unseen
  /\ UNCHANGED <<objVars, kernelVars, cont>>

\* The events dispatch() sees through its reference parameter: the entry of
\* the batch itself, which remove() may have cleared in the meantime.
CurrentEvents == currCycleNotifications[i].events

ReadSlotServed == CurrentEvents \cap {"IN", "ERR", "HUP"} # {}
WriteSlotServed == CurrentEvents \cap {"OUT", "ERR"} # {}

\* The first half of dispatch(): the read slot.
ReadPhase ==
  /\ pc = "read"
  /\ \/ /\ ReadSlotServed
        /\ pc' = "cbread"
        /\ cont' \in Continuations
     \/ /\ pc' = "write"
        /\ UNCHANGED cont
  /\ UNCHANGED <<objVars, kernelVars, currCycleNotifications, i, inst, unseen>>

\* The second half of dispatch(): the write slot.
WritePhase ==
  /\ pc = "write"
  /\ \/ /\ WriteSlotServed
        /\ pc' = "cbwrite"
        /\ cont' \in Continuations
        /\ UNCHANGED i
     \/ /\ pc' = "loop"
        /\ i' = i + 1
        /\ UNCHANGED cont
  /\ UNCHANGED <<objVars, kernelVars, currCycleNotifications, inst, unseen>>

\* The callback returns into dispatch().
CallbackReturn ==
  /\ \/ /\ pc = "cbread"
        /\ pc' = "write"
        /\ UNCHANGED i
     \/ /\ pc = "cbwrite"
        /\ pc' = "loop"
        /\ i' = i + 1
  /\ cont' = "tail"
  /\ UNCHANGED <<objVars, kernelVars, currCycleNotifications, inst, unseen>>

\* The callback throws.  Nothing in cpoll.C catches: dispatch() and run() are
\* unwound, currCycleNotificationsCount keeps its value, and the program may
\* call run() again.
CallbackThrow ==
  /\ pc \in {"cbread", "cbwrite"}
  /\ pc' = "main"
  /\ cont' = "tail"
  /\ UNCHANGED <<objVars, kernelVars, currCycleNotifications, i, inst, unseen>>

-----------------------------------------------------------------------------
User == \E fd \in FDs :
  \/ Add(fd) \/ Remove(fd) \/ Close(fd) \/ Delete(fd)
  \/ \E e \in Events : Drain(fd, e)

Kernel == \E fd \in FDs, e \in Events : KernelEvent(fd, e)

RunStep == Wait \/ Loop \/ ReadPhase \/ WritePhase

Next == User \/ Kernel \/ RunStep \/ CallbackReturn

(***************************************************************************)
(* loop() runs for ever, and callbacks return.                             *)
(***************************************************************************)
Fairness == WF_vars(RunStep) /\ WF_vars(CallbackReturn)

Spec == Init /\ [][Next]_vars

LiveSpec == Spec /\ Fairness

\* Callbacks may also throw, and the program then calls run() again.
ThrowSpec == Init /\ [][Next \/ CallbackThrow]_vars

-----------------------------------------------------------------------------
(***************************************************************************)
(* Properties.                                                             *)
(***************************************************************************)

\* The loop never calls or looks into a deleted FD: "After calling remove()
\* you may delete fd" holds for an FD that waits later in the same batch and
\* for the FD whose dispatch() is between its read and its write slot.
NoDanglingFD ==
  /\ pc = "loop" /\ i <= Len(currCycleNotifications)
       => currCycleNotifications[i].ptr \in alive \cup {Null}
  /\ pc = "read" => inst \in alive
  /\ pc = "write" /\ WriteSlotServed => inst \in alive

\* The same promise for the FD whose callback is running: when the callback
\* returns into a repeated operation, the FD it returns to still exists.
NoDanglingRepeat ==
  pc \in {"cbread", "cbwrite"} /\ cont = "touch" => inst \in alive

\* Entry j of the batch is still to be dispatched.
Undispatched(j) ==
  /\ pc # "main"
  /\ j \in DOMAIN currCycleNotifications
  /\ IF pc = "loop" THEN j >= i ELSE j > i

\* No edge is lost: epoll reports an edge once, so every event raised on a
\* registered FD and not yet shown to its dispatch() is in the kernel's ready
\* list or in a part of the batch that run() will still visit.
NoEdgeLost ==
  \A fd \in interest : \A e \in unseen[fd] :
    \/ fd \in Elements(rdl)
    \/ \E j \in DOMAIN currCycleNotifications :
         /\ Undispatched(j)
         /\ currCycleNotifications[j].ptr = fd
         /\ e \in currCycleNotifications[j].events

\* The events of fd that wait in the batch.
Batched(fd) ==
  UNION {currCycleNotifications[j].events :
           j \in {k \in DOMAIN currCycleNotifications :
                   Undispatched(k) /\ currCycleNotifications[k].ptr = fd}}

Dispatching == pc \in {"read", "cbread", "write", "cbwrite"}

Delivery == INSTANCE EventDelivery WITH
  registered <- interest,
  mask <- poll,
  ready <- Elements(rdl),
  batch <- [fd \in FDs |-> Batched(fd)],
  target <- IF Dispatching THEN inst ELSE Null,
  events <- IF Dispatching THEN CurrentEvents ELSE {}

\* The loop over the batch array implements EventDelivery: each FD sees each
\* harvested event word once, in one dispatch(), with the bits the kernel
\* reported, and none that remove() cancelled, whatever callbacks do to the
\* FDs of the batch while run() goes through it.
ImplementsDelivery == Delivery!DeliverySpec

\* The loop is fair to its FDs: an event raised on a registered FD reaches
\* its dispatch(), however many FDs compete for the EVENTSPERCYCLE entries of
\* a batch, unless the user consumes the event or removes the FD first.
EdgeDispatched ==
  \A fd \in FDs : \A e \in Events :
    (fd \in interest /\ e \in unseen[fd])
      ~> (fd \notin interest \/ e \notin unseen[fd])
=============================================================================
