-------------------------- MODULE MCTimerScheduler --------------------------
(***************************************************************************)
(* Instances of TimerScheduler: a one-shot timer, started to fire at once  *)
(* or after 1, and a periodic one of interval 2.                           *)
(***************************************************************************)
EXTENDS TimerScheduler

MCIntervals == [once |-> {0, 1}, per |-> {2}]
=============================================================================
