------------------------------ MODULE Delivery -------------------------------
(***************************************************************************)
(* What interrupt delivery promises to a guest, without registers, masks,  *)
(* priorities and queues: an interrupt is entered for an edge of its line  *)
(* that no other entry has used, and an edge is given up only when its     *)
(* line falls before it was handed over, when an earlier edge of the line  *)
(* is still on its way and stands for both, or in a reset.                 *)
(* InterruptHistory implements it.                                         *)
(***************************************************************************)
EXTENDS Integers

CONSTANTS
  IRQ,    \* the interrupt lines
  Code    \* the code the CPU may be in: Code contains IRQ

VARIABLES
  level,  \* the lines that are up
  owed,   \* for each line, how many edges can still be entered
  deaf,   \* lines whose next edges go unnoticed, until they fall
  code    \* the code the CPU is in

dvars == <<level, owed, deaf, code>>

Init ==
  /\ level = {} /\ deaf = {}
  /\ owed = [i \in IRQ |-> 0]
  /\ code \in Code

\* At most one edge a step is merged with an earlier one of its line.
HandOver(counts) ==
  \/ owed' = counts
  \/ \E j \in IRQ : counts[j] = 2 /\ owed' = [counts EXCEPT ![j] = 1]

Rise(i) ==
  /\ level' = level \cup {i}
  /\ HandOver([owed EXCEPT ![i] = IF i \in level \cup deaf THEN @ ELSE @ + 1])
  /\ UNCHANGED <<deaf, code>>

Fall(i) ==
  /\ level' = level \ {i}
  /\ deaf' = deaf \ {i}
  /\ \/ UNCHANGED owed
     \/ owed[i] > 0 /\ owed' = [owed EXCEPT ![i] = @ - 1]
  /\ UNCHANGED code

Unmask == HandOver(owed) /\ UNCHANGED <<level, deaf, code>>

\* The lines are set to S behind the devices: an edge that falls is withdrawn,
\* or its line becomes deaf because it was handed over.
Poke(S) ==
  \E withdrawn \in SUBSET (level \ S) :
    /\ \A i \in withdrawn : owed[i] > 0
    /\ level' = S
    /\ deaf' = deaf \cup ((level \ S) \ withdrawn)
    /\ owed' = [i \in IRQ |-> IF i \in (S \ level) \ deaf THEN owed[i] + 1
                              ELSE IF i \in withdrawn THEN owed[i] - 1
                              ELSE owed[i]]
    /\ UNCHANGED code

Enter(i) ==
  /\ owed[i] > 0
  /\ owed' = [owed EXCEPT ![i] = @ - 1]
  /\ code' = i
  /\ UNCHANGED <<level, deaf>>

Return == code' \in Code /\ UNCHANGED <<level, owed, deaf>>

Reset ==
  /\ level' = {}
  /\ owed' = [i \in IRQ |-> 0]
  /\ deaf \subseteq deaf' /\ deaf' \subseteq deaf \cup level
  /\ code' \in Code

Next ==
  \/ \E i \in IRQ : Rise(i) \/ Fall(i) \/ Enter(i)
  \/ \E S \in SUBSET IRQ : Poke(S)
  \/ Unmask \/ Return \/ Reset

Spec == Init /\ [][Next]_dvars
==============================================================================
