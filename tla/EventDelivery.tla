--------------------------- MODULE EventDelivery ---------------------------
(***************************************************************************)
(* What EPoll promises each FD, without its batch array, its loop index or *)
(* any order among the FDs: an event raised on a registered FD makes it    *)
(* ready; a ready FD is harvested with the mask it has then; what was      *)
(* harvested is delivered once, to dispatch(), unless the FD is removed    *)
(* first, and a dispatch() that runs sees its events vanish when its FD is *)
(* removed.  EPoll is shown to implement this module; the modules that     *)
(* model FDs (Timer, Socket) are built on it.                              *)
(***************************************************************************)
CONSTANTS
  FDs,     \* the FD objects of the program
  Null,    \* no FD
  Events   \* the epoll event bits that occur

VARIABLES
  open,        \* FDs with an open descriptor
  registered,  \* FDs whose open descriptor is in the epoll set
  mask,        \* kernel: the event mask of each FD
  ready,       \* kernel: FDs that epoll_wait will report
  batch,       \* harvested and not yet delivered events of each FD
  target,      \* the FD whose dispatch() runs, or Null
  events       \* the events word that dispatch() sees

deliveryVars == <<open, registered, mask, ready, batch, target, events>>

DeliveryTypeOK ==
  /\ open \subseteq FDs
  /\ registered \subseteq open
  /\ mask \in [FDs -> SUBSET Events]
  /\ ready \subseteq registered
  /\ batch \in [FDs -> SUBSET Events]
  /\ target \in FDs \cup {Null}
  /\ events \subseteq Events

\* Nothing is registered; which descriptors are open, and what they are ready
\* for, is the FDs' business.
DeliveryInit ==
  /\ registered = {}
  /\ ready = {}
  /\ batch = [fd \in FDs |-> {}]
  /\ target = Null
  /\ events = {}

\* The kernel changes the mask of fd to E.  With edge it also wakes epoll,
\* which under EPOLLET is the only thing that makes a registered FD ready.
\* An FD that has lost all its events is not reported.
Poll(fd, E, edge) ==
  /\ fd \in open
  /\ mask' = [mask EXCEPT ![fd] = E]
  /\ ready' = IF E = {} THEN ready \ {fd}
              ELSE IF edge /\ fd \in registered THEN ready \cup {fd}
              ELSE ready
  /\ UNCHANGED <<open, registered, batch, target, events>>

\* fd gets a new descriptor, which nobody has registered.
Open(fd, E) ==
  /\ fd \notin open
  /\ open' = open \cup {fd}
  /\ mask' = [mask EXCEPT ![fd] = E]
  /\ UNCHANGED <<registered, ready, batch, target, events>>

\* Fault: the closed descriptor stays in the epoll set.
ShutRegistered(fd) ==
  /\ open' = open \ {fd}
  /\ mask' = [mask EXCEPT ![fd] = {}]
  /\ UNCHANGED <<registered, ready, batch, target, events>>

\* close(): the kernel forgets the descriptor, the batch does not.
Shut(fd) ==
  /\ open' = open \ {fd}
  /\ registered' = registered \ {fd}
  /\ mask' = [mask EXCEPT ![fd] = {}]
  /\ ready' = ready \ {fd}
  /\ UNCHANGED <<batch, target, events>>

\* EPoll::add reports an FD that is ready already.
Attach(fd) ==
  /\ fd \in open \ registered
  /\ registered' = registered \cup {fd}
  /\ ready' = IF mask[fd] = {} THEN ready ELSE ready \cup {fd}
  /\ UNCHANGED <<open, mask, batch, target, events>>

\* EPoll::remove "cancels any outstanding event notifications": the harvested
\* ones and those of a dispatch() that is running.
Detach(fd) ==
  /\ registered' = registered \ {fd}
  /\ ready' = ready \ {fd}
  /\ batch' = [batch EXCEPT ![fd] = {}]
  /\ events' = IF target = fd THEN {} ELSE events
  /\ UNCHANGED <<open, mask, target>>

\* EPoll::run harvests some of the ready FDs, once the last harvest is
\* delivered.
Harvest(S) ==
  /\ target = Null
  /\ \A fd \in FDs : batch[fd] = {}
  /\ S # {} /\ S \subseteq ready
  /\ ready' = ready \ S
  /\ batch' = [fd \in FDs |-> IF fd \in S THEN mask[fd] ELSE {}]
  /\ UNCHANGED <<open, registered, mask, target, events>>

\* EPoll::run calls fd.dispatch(events).
Deliver(fd) ==
  /\ target = Null
  /\ batch[fd] # {}
  /\ target' = fd
  /\ events' = batch[fd]
  /\ batch' = [batch EXCEPT ![fd] = {}]
  /\ UNCHANGED <<open, registered, mask, ready>>

\* dispatch() returns.
Finish ==
  /\ target # Null
  /\ target' = Null
  /\ events' = {}
  /\ UNCHANGED <<open, registered, mask, ready, batch>>

-----------------------------------------------------------------------------
DeliveryNext ==
  \/ \E fd \in FDs :
       \/ Shut(fd) \/ Attach(fd) \/ Detach(fd) \/ Deliver(fd)
       \/ \E E \in SUBSET Events :
            Open(fd, E) \/ \E edge \in BOOLEAN : Poll(fd, E, edge)
  \/ \E S \in SUBSET FDs : Harvest(S)
  \/ Finish

DeliverySpec ==
  /\ DeliveryInit /\ open \subseteq FDs /\ mask \in [FDs -> SUBSET Events]
  /\ [][DeliveryNext]_deliveryVars
=============================================================================
