----------------------------- MODULE AlarmClock -----------------------------
(***************************************************************************)
(* What the timers promise: a timer that was started rings at the first    *)
(* look at the clock when its time is over, once, unless it is stopped or  *)
(* started again.  Setting the clock shifts every timer that runs.         *)
(***************************************************************************)
EXTENDS Integers

CONSTANTS Timers, Delays, Shifts

VARIABLES
  left,   \* time left, of the timers that run
  rung,   \* the timers that rang at the last look
  call    \* what was asked last, so that a call cannot be ignored

vars == <<left, rung, call>>

Running == DOMAIN left

Init == left = [t \in {} |-> 0] /\ rung = {} /\ call = <<"none">>

Start(t, delay) ==
  /\ left' = [u \in Running \cup {t} |-> IF u = t THEN delay ELSE left[u]]
  /\ rung' = {}
  /\ call' = <<"start", t, delay>>

Stop(t) ==
  /\ left' = [u \in Running \ {t} |-> left[u]]
  /\ rung' = {}
  /\ call' = <<"stop", t>>

Look ==
  /\ rung' = {t \in Running : left[t] <= 0}
  /\ left' = [t \in {u \in Running : left[u] > 0} |-> left[t]]
  /\ call' = <<"look">>

\* The clock moves on by one, or is set.
Shift(by) ==
  /\ left' = [t \in Running |-> left[t] - by]
  /\ rung' = {}
  /\ call' = <<"time">>

Next ==
  \/ \E t \in Timers : Stop(t) \/ (\E delay \in Delays : Start(t, delay))
  \/ Look
  \/ \E by \in Shifts : Shift(by)

Spec == Init /\ [][Next]_vars
=============================================================================
