------------------------------ MODULE Reactor ------------------------------
(***************************************************************************)
(* A Socket and a Timer under one EPoll: events of both are harvested in   *)
(* one batch, and the callback of either may cancel, close, remove or      *)
(* restart what belongs to the other, as a connect with a deadline does.   *)
(***************************************************************************)
EXTENDS Timer, Socket

ASSUME ReactorAssumption ==
  /\ timer # socket
  /\ Null \notin FDs
  /\ {"IN", "OUT", "ERR", "HUP"} \subseteq Events

vars == <<deliveryVars, stack, timerVars, socketVars>>

TypeOK ==
  /\ DeliveryTypeOK /\ TimerTypeOK /\ SocketTypeOK
  /\ \A n \in DOMAIN stack :
       stack[n].k \in {"user", "tick", "in", "out", "do", "hup", "accept",
                       "try", "hosts"}

Init ==
  /\ DeliveryInit
  /\ open = {timer}
  /\ mask = [fd \in FDs |-> {}]
  /\ stack = <<>>
  /\ TimerInit
  /\ SocketInit

\* The loop itself, and callbacks of either class.
LoopSteps ==
  /\ (\E fd \in FDs : WaitFor(fd)) \/ DispatchReturns
  /\ UNCHANGED <<timerVars, socketVars>>

Registration ==
  /\ \E fd \in FDs : Add(fd) \/ Remove(fd)
  /\ UNCHANGED <<timerVars, socketVars>>

Returns == CallbackReturn /\ UNCHANGED <<timerVars, socketVars>>

Next ==
  \/ TimerNext /\ UNCHANGED socketVars
  \/ SocketNext /\ UNCHANGED timerVars
  \/ LoopSteps \/ Registration \/ Returns

Library ==
  \/ TimerLibrary /\ UNCHANGED socketVars
  \/ SocketLibrary /\ UNCHANGED timerVars
  \/ LoopSteps

(***************************************************************************)
(* The loop runs and callbacks return; every FD that is ready again and    *)
(* again is harvested, as EPoll's first-come ready list guarantees         *)
(* (EPoll, EdgeDispatched).                                                *)
(***************************************************************************)
Fairness ==
  /\ WF_vars(Library)
  /\ WF_vars(Returns)
  /\ \A fd \in FDs : SF_vars(WaitFor(fd) /\ UNCHANGED <<timerVars, socketVars>>)

Spec == Init /\ [][Next]_vars

LiveSpec == Spec /\ Fairness
=============================================================================
