----------------------------- MODULE MCGamepad -------------------------------
(* Instances of Gamepad for TLC: marks of a few ticks.                       *)
EXTENDS Gamepad
==============================================================================
