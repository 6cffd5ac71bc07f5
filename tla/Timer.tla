------------------------------- MODULE Timer -------------------------------
(***************************************************************************)
(* CP::Timer (cpoll.C, "Timer"): a timerfd, an interval and a callback.    *)
(*                                                                         *)
(* The timerfd has expired when its mask holds IN.  A periodic timerfd     *)
(* fires once until it is read; the read then returns the number of        *)
(* expirations, which is not modelled.                                     *)
(***************************************************************************)
EXTENDS Dispatcher

CONSTANTS
  timer,     \* the Timer object
  Intervals  \* the intervals the user sets: subset of "zero", "some"

ASSUME TimerAssumption ==
  timer \in FDs /\ Intervals \subseteq {"zero", "some"}

VARIABLES
  interval,  \* Timer::interval
  armed,     \* kernel: the timerfd is running
  cb         \* Timer::cb is not null

timerVars == <<interval, armed, cb>>

TimerTypeOK ==
  /\ interval \in {"zero", "some"}
  /\ armed \in BOOLEAN
  /\ cb \in BOOLEAN

\* Timer::Timer(0): the timerfd exists and is disabled.
TimerInit ==
  /\ timer \in open /\ mask[timer] = {}
  /\ interval = "zero"
  /\ armed = FALSE
  /\ cb = FALSE

\* The timerfd expires.
Expire ==
  /\ armed /\ mask[timer] = {}
  /\ Poll(timer, {"IN"}, TRUE)
  /\ UNCHANGED <<timerVars, stack>>

\* Timer_doSetInterval.  timerfd_settime forgets an expiry that was not read;
\* its failure (here: a closed timer) goes unnoticed.
setInterval(v) ==
  /\ interval' = v
  /\ IF timer \in open
       THEN armed' = (v # "zero") /\ Poll(timer, {}, FALSE)
       ELSE UNCHANGED <<armed, deliveryVars>>
  /\ UNCHANGED <<cb, stack>>

SetInterval == UserCode /\ \E v \in Intervals : setInterval(v)

\* Timer::close.
TimerClose ==
  /\ UserCode
  /\ timer \in open
  /\ Shut(timer)
  /\ armed' = FALSE
  /\ UNCHANGED <<interval, cb, stack>>

\* Timer::init after close: a new timerfd, or a handle whose recurring timer
\* (interval taken over with timerfd_gettime) may have expired already.
TimerOpen ==
  /\ UserCode
  /\ \E v \in Intervals :
       /\ \/ Open(timer, {})
          \/ v = "some" /\ Open(timer, {"IN"})
       /\ interval' = v
       /\ armed' = (v = "some")
  /\ UNCHANGED <<cb, stack>>

\* Timer::setCallback.
SetCallback ==
  /\ UserCode
  /\ cb' = ~cb
  /\ UNCHANGED <<interval, armed, deliveryVars, stack>>

TimerDispatch == Dispatch(timer, [k |-> "tick"]) /\ UNCHANGED timerVars

\* Fault: dispatch() does not look at the result of read().
TickUnchecked ==
  /\ TopIs("tick")
  /\ IF timer \in open THEN Poll(timer, {}, FALSE) ELSE UNCHANGED deliveryVars
  /\ IF cb THEN stack' = Replaced(UserFrame(0, 1)) ELSE Return
  /\ UNCHANGED timerVars

\* Fault: dispatch() calls the callback without reading the timerfd.
TickUnread ==
  /\ TopIs("tick")
  /\ IF cb /\ timer \in open /\ mask[timer] # {}
       THEN stack' = Replaced(UserFrame(0, 1)) ELSE Return
  /\ UNCHANGED <<timerVars, deliveryVars>>

\* Timer::dispatch: the read of the timerfd, and the callback if it succeeds.
Tick ==
  /\ TopIs("tick")
  /\ \/ /\ timer \in open /\ mask[timer] # {}
        /\ Poll(timer, {}, FALSE)
        /\ IF cb THEN stack' = Replaced(UserFrame(0, 1)) ELSE Return
     \/ /\ timer \notin open \/ mask[timer] = {}
        /\ Return
        /\ UNCHANGED deliveryVars
  /\ UNCHANGED timerVars

TimerLibrary == TimerDispatch \/ Tick

TimerNext ==
  \/ Expire \/ SetInterval \/ TimerClose \/ TimerOpen \/ SetCallback
  \/ TimerLibrary

-----------------------------------------------------------------------------
\* A timer that the user has stopped or closed does not call back, also when
\* its expiry was harvested before and waits in the batch: the callback only
\* ever runs for a timer that is running.
NoTickAfterStop ==
  [][TopIs("tick") /\ stack' # stack /\ stack' # <<>>
       => timer \in open /\ interval # "zero"]_<<deliveryVars, stack, timerVars>>

\* An expiry that nobody has seen is never slept on: it was read, or its event
\* is on its way, however often the timer was removed, added, closed and
\* initialised again in between.
NoLostExpiry == Quiet(timer) /\ timer \in registered => mask[timer] = {}

\* A timer that runs under the loop keeps ticking: after any expiry the
\* timerfd is read, so that the next one can come.
TimerTicks ==
  timer \in registered /\ mask[timer] # {} ~>
    timer \notin registered \/ mask[timer] = {}
=============================================================================
