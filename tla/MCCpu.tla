------------------------------- MODULE MCCpu -------------------------------
(* Words of three bits and a memory of two instructions of 32 bits. *)
EXTENDS Cpu
=============================================================================
