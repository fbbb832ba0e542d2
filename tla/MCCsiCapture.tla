---------------------------- MODULE MCCsiCapture -----------------------------
(* Instances of CsiCapture for TLC: pictures of two lines.                   *)
EXTENDS CsiCapture
==============================================================================
