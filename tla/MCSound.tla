------------------------------ MODULE MCSound --------------------------------
(* Instances of Sound for TLC: a short queue, short callbacks and beats.     *)
EXTENDS Sound
==============================================================================
