---------------------------- MODULE MCTimerQueue ------------------------------
(* Instances of TimerQueue for TLC. *)
EXTENDS TimerQueue

\* Timers that run once, as the server's idle timers do, and timers that repeat.
Both == {0, 1}
===============================================================================
