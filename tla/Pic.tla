--------------------------------- MODULE Pic ---------------------------------
(***************************************************************************)
(* The interrupt controller of sys/irq.cpp, as pure operators on a record, *)
(* so that a handler which drives several lines in one call applies them   *)
(* in the order of the code.  The fields are                               *)
(*   pending  the IRQs whose bit is set in INT_PNDL or INT_PNDH            *)
(*   mask     the IRQs whose bit is set in INT_MASKL or INT_MASKH          *)
(*   fired    intsFired: already handed to the CPU since the line rose     *)
(*   queued   CPU::queuedInterrupt, which only this file and step() write  *)
(* An IRQ number stands for the bit the code keeps for it: bit 63 - i of   *)
(* the L registers when i >= 32, bit 31 - i of the H registers otherwise.  *)
(* interruptsEnabled is left out: SetInterruptsEnabled has no caller, so   *)
(* the flag keeps its initial value, true.                                 *)
(***************************************************************************)
EXTENDS Integers

CONSTANT IRQ                      \* the interrupt lines of the instance

ASSUME IrqAssumption == IRQ \subseteq 0..63

PicState == [pending : SUBSET IRQ, mask : SUBSET IRQ,
             fired : SUBSET IRQ, queued : SUBSET IRQ]

PicInit == [pending |-> {}, mask |-> {}, fired |-> {}, queued |-> {}]

\* The IRQs of one half of the 64-bit registers.
Half(name) == IF name = "L" THEN {i \in IRQ : i >= 32} ELSE {i \in IRQ : i < 32}

\* What the two loops of ProcessInterrupts look for.
Waiting(p) == p.pending \ (p.mask \cup p.fired)

\* Bit 0 of the L registers is IRQ 63: the scan goes from high to low numbers.
First(S) == CHOOSE i \in S : \A j \in S : j <= i

\* Wrong variants of the handlers, against which the properties are tried.
ProcessInterruptsRefires(p) ==
  LET w == p.pending \ p.mask
  IN  IF w = {} THEN p
      ELSE [p EXCEPT !.fired = @ \cup {First(w)}, !.queued = @ \cup {First(w)}]

ProcessInterruptsStopsAtFired(p) ==
  LET w == p.pending \ p.mask
  IN  IF w = {} \/ First(w) \in p.fired THEN p
      ELSE [p EXCEPT !.fired = @ \cup {First(w)}, !.queued = @ \cup {First(w)}]

\* One call hands at most one interrupt to the CPU: the code returns at once.
ProcessInterrupts(p) ==
  IF Waiting(p) = {} THEN p
  ELSE [p EXCEPT !.fired = @ \cup {First(Waiting(p))},
                 !.queued = @ \cup {First(Waiting(p))}]

SetIRQStateKeepsFired(p, i, value) ==
  IF value THEN ProcessInterrupts([p EXCEPT !.pending = @ \cup {i}])
  ELSE [p EXCEPT !.pending = @ \ {i}]

SetIRQState(p, i, value) ==
  IF value THEN ProcessInterrupts([p EXCEPT !.pending = @ \cup {i}])
  ELSE [p EXCEPT !.pending = @ \ {i}, !.fired = @ \ {i}]

\* A guest's store to a pending register: plain data, nothing is processed.
WritePending(p, half, value) ==
  [p EXCEPT !.pending = (@ \ Half(half)) \cup value]

\* A guest's store to a mask register.
WriteMask(p, half, value) ==
  ProcessInterrupts([p EXCEPT !.mask = (@ \ Half(half)) \cup value])

\* The registers are cleared; intsFired is not, and the queue is the CPU's.
IRQDeviceReset(p) == [p EXCEPT !.pending = {}, !.mask = {}]
==============================================================================
