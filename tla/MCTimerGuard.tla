---------------------------- MODULE MCTimerGuard ----------------------------
(***************************************************************************)
(* TimerGuard on a small instance: three nodes for one object, timeouts up *)
(* to 2 and a time of day of 4 milliseconds, so that timers are set on     *)
(* every side of the wrap and the object has several nodes at a time.      *)
(***************************************************************************)
EXTENDS TimerGuard
=============================================================================
