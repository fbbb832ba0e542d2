----------------------------- MODULE Interrupts ------------------------------
(***************************************************************************)
(* Interrupt delivery: the controller of sys/irq.cpp with the interrupt    *)
(* entry and exit of the CPU (cpu/cpu.cpp).  Devices raise lines from the  *)
(* main loop, between two instructions; the guest acknowledges devices,    *)
(* writes the controller's registers, enables interrupts in cr0 and        *)
(* returns from handlers, in any order; the user may ask for a soft reset. *)
(*                                                                         *)
(* A program counter is abstracted to the code it is in: Main, or the      *)
(* handler of an IRQ.  A step() that enters a handler also executes the    *)
(* word at the vector; vectors are four bytes apart, so that word is a     *)
(* branch and changes nothing that is modelled.                            *)
(***************************************************************************)
EXTENDS Pic

CONSTANT TickLine   \* a line that a tick of the main loop raises periodically

ASSUME TickLineAssumption == TickLine \in IRQ

Main == -1

VARIABLES
  pic,      \* the controller and the CPU's interrupt queue
  ien,      \* bit 0 of cr0
  lastIen,  \* CPU::last_ien
  pc,       \* the code the CPU is in
  cr5       \* the code to return to

cpu  == <<ien, lastIen, pc, cr5>>
vars == <<pic, cpu>>

TypeOK ==
  /\ pic \in PicState
  /\ ien \in BOOLEAN
  /\ lastIen \in BOOLEAN
  /\ pc \in IRQ \cup {Main}
  /\ cr5 \in IRQ \cup {Main}

\* last_ien is in no initialiser: it holds anything until the first interrupt.
Init ==
  /\ pic = PicInit
  /\ ien = FALSE
  /\ lastIen \in BOOLEAN
  /\ pc = Main
  /\ cr5 = Main

------------------------------------------------------------------------------
\* A device's tick raises its line.
RaiseLine(i) == pic' = SetIRQState(pic, i, TRUE) /\ UNCHANGED cpu

\* An instruction is executed only when step() has no interrupt to enter.
CanExecute == ~(ien /\ pic.queued # {})

\* The guest acknowledges the device: its write handler drops the line.
LowerLine(i) ==
  /\ CanExecute
  /\ pic' = SetIRQState(pic, i, FALSE)
  /\ UNCHANGED cpu

GuestWritesPending(half, value) ==
  /\ CanExecute
  /\ pic' = WritePending(pic, half, value)
  /\ UNCHANGED cpu

GuestWritesMask(half, value) ==
  /\ CanExecute
  /\ pic' = WriteMask(pic, half, value)
  /\ UNCHANGED cpu

\* mtcr to cr0.
GuestWritesIen(b) ==
  /\ CanExecute
  /\ ien' = b
  /\ UNCHANGED <<pic, lastIen, pc, cr5>>

\* The interrupt the CPU enters: the lowest number of the queue.
Cause == CHOOSE i \in pic.queued : \A j \in pic.queued : i <= j

\* Wrong variants: the queue bit stays, or last_ien is read after interrupts were
\* disabled.
TakeInterruptKeepsQueue ==
  /\ ien /\ pic.queued # {}
  /\ lastIen' = ien /\ ien' = FALSE /\ cr5' = pc /\ pc' = Cause
  /\ UNCHANGED pic

TakeInterruptReadsIenLate ==
  /\ ien /\ pic.queued # {}
  /\ ien' = FALSE /\ lastIen' = ien' /\ cr5' = pc /\ pc' = Cause
  /\ pic' = [pic EXCEPT !.queued = @ \ {Cause}]

TakeInterrupt ==
  /\ ien
  /\ pic.queued # {}
  /\ lastIen' = ien
  /\ ien' = FALSE
  /\ cr5' = pc
  /\ pc' = Cause
  /\ pic' = [pic EXCEPT !.queued = @ \ {Cause}]

Rte ==
  /\ CanExecute
  /\ ien' = (ien \/ lastIen)
  /\ pc' = cr5
  /\ UNCHANGED <<pic, lastIen, cr5>>

\* system_softreset: every peripheral, then the CPU, then the image is loaded
\* again.  Neither intsFired nor last_ien is touched.
SoftReset ==
  /\ pic' = [IRQDeviceReset(pic) EXCEPT !.queued = {}]
  /\ ien' = FALSE
  /\ pc' = Main
  /\ cr5' = Main
  /\ UNCHANGED lastIen

\* What happens while the guest acknowledges devices and nothing else clears a
\* pending bit.
DriverNext ==
  \/ \E i \in IRQ : RaiseLine(i) \/ LowerLine(i)
  \/ \E half \in {"L", "H"} : \E value \in SUBSET Half(half) :
       GuestWritesMask(half, value)
  \/ \E b \in BOOLEAN : GuestWritesIen(b)
  \/ TakeInterrupt
  \/ Rte

Next ==
  \/ DriverNext
  \/ \E half \in {"L", "H"} : \E value \in SUBSET Half(half) :
       GuestWritesPending(half, value)
  \/ SoftReset

Spec == Init /\ [][Next]_vars

------------------------------------------------------------------------------
\* A handler's rte enables interrupts again although last_ien has no initial
\* value and survives a soft reset: it was set by the entry of that handler.
ReturnEnablesInterrupts == [][Rte /\ pc # Main => ien']_vars
==============================================================================
