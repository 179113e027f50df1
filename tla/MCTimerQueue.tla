---------------------------- MODULE MCTimerQueue ----------------------------
(* The timers of one loop, for TLC. *)
EXTENDS TimerQueue, TLC
=============================================================================
