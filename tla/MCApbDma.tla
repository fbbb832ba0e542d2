------------------------------ MODULE MCApbDma -------------------------------
(* Instances of ApbDma for TLC: addresses of five bits.                      *)
EXTENDS ApbDma
==============================================================================
