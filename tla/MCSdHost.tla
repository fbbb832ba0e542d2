------------------------------ MODULE MCSdHost -------------------------------
(* Instances of SdHost for TLC: cards of a few words.                        *)
EXTENDS SdHost
==============================================================================
