---------------------------- MODULE MCTimerQueue ----------------------------
(* Model-checking instance of TimerQueue: timer 1 repeats every two ticks,   *)
(* the others are one-shots.                                                 *)
EXTENDS TimerQueue

MCInterval == [t \in Timers |-> IF t = 1 THEN 2 ELSE 0]
=============================================================================
