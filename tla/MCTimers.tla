------------------------------ MODULE MCTimers -------------------------------
(* Instances of Timers for TLC: counts of a few ticks.                       *)
EXTENDS Timers
==============================================================================
