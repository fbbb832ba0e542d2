------------------------------- MODULE ApbDma --------------------------------
(***************************************************************************)
(* The DMA controller of dma/apbdma.cpp.  A transfer runs to its end in    *)
(* the store that starts it: by a hook of the peripheral, which moves all  *)
(* bytes in one call, or by a loop of loads and stores.  The only hooks    *)
(* are the two of the SD interface (stor/sdperiph.cpp).                    *)
(*                                                                         *)
(* Addresses have AddrBits bits; main RAM is a quarter of the address      *)
(* space, as far as the hooks are concerned.  Names begin with Dma where   *)
(* SdHost has the same: StorageProofs extends both.                        *)
(***************************************************************************)
EXTENDS Pic, Sequences

CONSTANTS
  Chan,      \* the channels: a subset of 0..3
  AddrBits,  \* 32
  Starts,    \* values the guest stores to the AHB start and end registers
  Ends,
  Apb        \* peripheral addresses: "sdTx", "sdRx" and others

DmaIrq == [c \in 0..3 |-> <<37, 36, 33, 32>>[c + 1]]

Top == 2^AddrBits

\* An address outside the SD interface exists: the reset value of the register.
\* What is said of Top follows from AddrBits, but provers do not know of powers.
ASSUME DmaAssumption ==
  /\ Chan \subseteq 0..3
  /\ \A c \in Chan : DmaIrq[c] \in IRQ
  /\ AddrBits \in Nat /\ AddrBits >= 4
  /\ Top \in Nat /\ Top >= 16 /\ Top % 4 = 0
  /\ Starts \cup Ends \subseteq 0..(Top - 1)
  /\ Apb \ {"sdTx", "sdRx"} # {}

\* 0xA0000000 under the mask 0xFC000000.
MainRam == (Top \div 2)..(Top \div 2 + Top \div 4 - 1)

\* A value of dma_setting: direction, fixed address of the peripheral, double
\* buffering, size of a unit, IRQ_MSK and EN.  The stored register is left out:
\* only the store that writes it uses it.
Settings == [read : BOOLEAN, fixed : BOOLEAN, double : BOOLEAN,
             size : {1, 2, 4}, irq : BOOLEAN, en : BOOLEAN]

\* In the order of their registration, with the flags they are registered with.
Hooks ==
  <<[at |-> "sdTx", reads |-> FALSE, writes |-> TRUE, fixed |-> TRUE, cont |-> FALSE],
    [at |-> "sdRx", reads |-> TRUE, writes |-> FALSE, fixed |-> TRUE, cont |-> FALSE]>>

VARIABLES
  start, end, apb,  \* dma_ahb_start_a, dma_ahb_end_a, dma_apb_start
  busy,             \* dma_busy_sts
  irqSts,           \* dma_irq_sts
  pic,
  alive,            \* FALSE when the program crashed or loops for ever
  refused, poked    \* history: why a channel's busy bit may be on

regs == <<start, end, apb>>
hist == <<refused, poked>>
dmaVars == <<regs, busy, irqSts, pic, alive, hist>>

DmaTypeOK ==
  /\ start \in [Chan -> 0..(Top - 1)] /\ end \in [Chan -> 0..(Top - 1)]
  /\ apb \in [Chan -> Apb]
  /\ busy \subseteq Chan /\ irqSts \subseteq Chan
  /\ pic \in PicState
  /\ alive \in BOOLEAN
  /\ refused \subseteq Chan /\ poked \subseteq Chan

ResetApb == CHOOSE a \in Apb : a \notin {"sdTx", "sdRx"}

DmaInit ==
  /\ start = [c \in Chan |-> 0] /\ end = [c \in Chan |-> 0]
  /\ apb = [c \in Chan |-> ResetApb]
  /\ busy = {} /\ irqSts = {}
  /\ pic = PicInit
  /\ alive = TRUE
  /\ refused = {} /\ poked = {}

------------------------------------------------------------------------------
(* apbdma_work: choosing a hook. *)

\* The conditions under which a hook is not skipped, as they are in the code.
\* The last one looks at the direction again instead of the addressing mode.
Usable(h, s, a) ==
  /\ s.read => h.reads
  /\ ~s.read => h.writes
  /\ s.fixed => h.fixed
  /\ ~s.read => h.cont
  /\ a = h.at

FoundHook(s, a) ==
  LET usable == {k \in DOMAIN Hooks : Usable(Hooks[k], s, a)}
  IN  IF usable = {} THEN 0 ELSE CHOOSE k \in usable : \A j \in usable : k <= j

HookBytesForgetsLastUnit(s, b, e) == (e - b) % Top

\* The end register holds the address of the last unit.
HookBytes(s, b, e) == (e - b + s.size) % Top

\* The loop without a hook: `for (; ahbAddr <= ahbEnd; ahbAddr += size)`, in
\* AddrBits bits.  It leaves after the first k for which the address is beyond.
LoopAddress(s, b, k) == (b + k * s.size) % Top
LoopExits(s, b, e) == {k \in 0..Top : LoopAddress(s, b, k) > e}
LoopHangs(s, b, e) == LoopExits(s, b, e) = {}
LoopBytes(s, b, e) ==
  s.size * (CHOOSE k \in LoopExits(s, b, e) : \A j \in LoopExits(s, b, e) : k <= j)

\* No handler of this kind was registered, so an uninitialised pointer is
\* called, or the buffer ends behind the memory it points into.
Undefined(s, b, e) ==
  \/ s.read /\ ~s.fixed
  \/ b + HookBytes(s, b, e) > Top \div 2 + Top \div 4

(* apbdma_work: running the transfer. *)

Complete(c, s) ==
  /\ busy' = busy \ {c}
  /\ irqSts' = irqSts \cup {c}
  /\ pic' = IF s.irq THEN SetIRQState(pic, DmaIrq[c], TRUE) ELSE pic
  /\ UNCHANGED <<alive, refused>>

\* The program crashes or never leaves the loop.
Fail(c) ==
  /\ alive' = FALSE
  /\ busy' = busy \cup {c}
  /\ UNCHANGED <<irqSts, pic, refused>>

\* An AHB address outside main RAM: the work is given up with the bit still on.
Refuse(c) ==
  /\ busy' = busy \cup {c}
  /\ refused' = refused \cup {c}
  /\ UNCHANGED <<irqSts, pic, alive>>

Work(c, s) ==
  LET hook == FoundHook(s, apb[c])
      b == start[c]
      e == end[c]
  IN  \/ hook = 0 /\ LoopHangs(s, b, e) /\ Fail(c)
      \/ hook = 0 /\ ~LoopHangs(s, b, e) /\ Complete(c, s)
      \/ hook # 0 /\ b \notin MainRam /\ Refuse(c)
      \/ hook # 0 /\ b \in MainRam /\ Complete(c, s)
      \/ hook # 0 /\ b \in MainRam /\ Undefined(s, b, e) /\ Fail(c)

------------------------------------------------------------------------------
(* The guest's stores: APBDMADeviceWriteHandler. *)

WriteAddresses(c) ==
  /\ alive
  /\ start' \in {[start EXCEPT ![c] = a] : a \in Starts}
  /\ end' \in {[end EXCEPT ![c] = a] : a \in Ends}
  /\ apb' \in {[apb EXCEPT ![c] = a] : a \in Apb}
  /\ UNCHANGED <<busy, irqSts, pic, alive, hist>>

\* A channel that is busy, or asked for double buffering, does not start.
WriteSetting(c, s) ==
  /\ alive
  /\ s.en /\ c \notin busy /\ ~s.double
  /\ Work(c, s)
  /\ poked' = poked \ {c}
  /\ UNCHANGED regs

\* The busy register is an ordinary one for the guest.
WriteBusy(S) ==
  /\ alive
  /\ busy' = S
  /\ poked' = S /\ refused' = {}
  /\ UNCHANGED <<regs, irqSts, pic, alive>>

\* The lines of several channels, dropped one after the other.
LowerLines(S) ==
  [pic EXCEPT !.pending = @ \ {DmaIrq[c] : c \in S},
              !.fired = @ \ {DmaIrq[c] : c \in S}]

AcknowledgeKeepsLine(S) ==
  /\ alive
  /\ irqSts' = irqSts \ S
  /\ UNCHANGED <<regs, busy, pic, alive, hist>>

Acknowledge(S) ==
  /\ alive
  /\ irqSts' = irqSts \ S
  /\ pic' = LowerLines(S)
  /\ UNCHANGED <<regs, busy, alive, hist>>

Cleared(f, S, value) == [c \in Chan |-> IF c \in S THEN value ELSE f[c]]

\* dma_soft_rst: ResetChannel.
ResetChannels(S) ==
  /\ alive
  /\ busy' = busy \ S
  /\ irqSts' = irqSts \ S
  /\ pic' = LowerLines(S)
  /\ start' = Cleared(start, S, 0) /\ end' = Cleared(end, S, 0)
  /\ apb' = Cleared(apb, S, ResetApb)
  /\ refused' = refused \ S /\ poked' = poked \ S
  /\ UNCHANGED alive

\* Soft reset of the machine: the registers here and in the interrupt controller.
DmaSoftReset ==
  /\ alive
  /\ busy' = {} /\ irqSts' = {}
  /\ pic' = [IRQDeviceReset(pic) EXCEPT !.queued = {}]
  /\ start' = Cleared(start, Chan, 0) /\ end' = Cleared(end, Chan, 0)
  /\ apb' = Cleared(apb, Chan, ResetApb)
  /\ refused' = {} /\ poked' = {}
  /\ UNCHANGED alive

CpuTakes ==
  /\ alive
  /\ \E i \in pic.queued : pic' = [pic EXCEPT !.queued = @ \ {i}]
  /\ UNCHANGED <<regs, busy, irqSts, alive, hist>>

Failed == ~alive /\ UNCHANGED dmaVars

DmaNext ==
  \/ \E c \in Chan : WriteAddresses(c)
  \/ \E c \in Chan, s \in Settings : WriteSetting(c, s)
  \/ \E S \in SUBSET Chan : WriteBusy(S) \/ Acknowledge(S) \/ ResetChannels(S)
  \/ DmaSoftReset
  \/ CpuTakes
  \/ Failed

DmaSpec == DmaInit /\ [][DmaNext]_dmaVars

------------------------------------------------------------------------------
\* A guest that polls the busy bit waits for ever only if it stored the bit
\* itself or gave a hooked transfer an address outside main RAM.
BusyIsExplained == alive => busy \subseteq refused \cup poked

\* The line of a channel is up only while its status bit is, in which the
\* handler finds which of the channels is done.
LineHasStatus == \A c \in Chan : DmaIrq[c] \in pic.pending => c \in irqSts

\* Types, lines with their status bits and busy bits with their reasons: what
\* apbdma_work, acknowledgements and resets keep.
ApbInv == DmaTypeOK /\ LineHasStatus /\ BusyIsExplained

\* A hook moves what the loop would have moved, for every region that lies in
\* main RAM and is a whole number of units.
HookMovesWhatTheLoopWould ==
  \A c \in Chan, s \in Settings :
    /\ FoundHook(s, apb[c]) # 0
    /\ start[c] \in MainRam /\ end[c] \in MainRam
    /\ start[c] <= end[c] /\ (end[c] - start[c]) % s.size = 0
    => HookBytes(s, start[c], end[c]) = LoopBytes(s, start[c], end[c])
==============================================================================
