---------------------------- MODULE MCTimerQueue -----------------------------
(* Three timers for TimerQueue, one of which repeats.                       *)
EXTENDS TimerQueue

CONSTANTS t1, t2, t3

MCTimers == {t1, t2, t3}
MCInterval == [t \in MCTimers |-> IF t = t3 THEN 2 ELSE 0]
==============================================================================
