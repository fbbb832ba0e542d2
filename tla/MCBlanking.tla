----------------------------- MODULE MCBlanking ------------------------------
(* Instances of Blanking for TLC.                                           *)
EXTENDS Blanking
==============================================================================
