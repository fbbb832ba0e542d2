------------------------- MODULE MCInterruptHistory --------------------------
(***************************************************************************)
(* Instances of InterruptHistory for TLC.  One run has two scopes, chosen  *)
(* at the start: a few lines to which everything may happen, and one line  *)
(* more under a guest that restricts itself.                               *)
(***************************************************************************)
EXTENDS InterruptHistory

CONSTANT Few   \* the lines used in the scope where everything may happen

VARIABLE scope

MCInit == HInit /\ scope \in {"few lines", "every line"}

\* With every line, lines are raised, acknowledged and masked at any time and in
\* any combination; the guest stores to no pending register, asks for no soft
\* reset and enables interrupts outside its handlers.  So several lines wait
\* while another is served.
InScope ==
  \/ scope = "few lines" /\ pic'.pending \cup pic'.mask \subseteq Few
  \/ scope = "every line" /\ DriverNext /\ (ien' /\ ~ien => pc' = Main)

MCNext == HNext /\ InScope /\ UNCHANGED scope

MCLiveSpec ==
  /\ MCInit /\ [][MCNext]_<<hvars, scope>>
  /\ WF_hvars(HTakeInterrupt) /\ WF_hvars(HRaiseLine(TickLine))
==============================================================================
