------------------------------- MODULE Blanking ------------------------------
(***************************************************************************)
(* The blanking interrupts of the picture unit (PPUTick, video/ppu.cpp)    *)
(* and of the TV encoder (TVETick, video/tve.cpp) and the picture unit's   *)
(* own DMA, under the schedule of the main loop (emu293.cpp), with the     *)
(* interrupt controller and a guest that serves what it is interrupted     *)
(* for.  What PPUTick does for the render thread and for the camera is in  *)
(* RenderThread and CsiCapture.                                            *)
(*                                                                         *)
(* One round of the main loop is 2000 instructions: PPUTick is called      *)
(* after 1000 of them and TVETick after 1500.  Once a second the count of  *)
(* instructions starts again at zero, wherever it is.                      *)
(***************************************************************************)
EXTENDS Pic

CONSTANTS
  EndLine, TveInit, StartLine, LastLine,   \* 50, 100, 550, 800
  Controls, Acks,  \* what the guest stores to the interrupt control and status
                   \* registers of the PPU
  TveControls      \* and to the control register of the TV encoder

\* The bits of ppu_irq_control and ppu_irq_status, and their lines.
PpuLine == [start |-> 53, end |-> 46, dma |-> 16]
Sources == DOMAIN PpuLine
TveLine == 55

ASSUME LineAssumption ==
  /\ {EndLine, TveInit, StartLine, LastLine} \subseteq Nat
  /\ EndLine < TveInit /\ TveInit < StartLine /\ StartLine < LastLine

ASSUME ValueAssumption ==
  /\ \A s \in Sources : PpuLine[s] \in IRQ
  /\ TveLine \in IRQ
  /\ Controls \cup Acks \subseteq SUBSET Sources
  /\ TveControls \subseteq SUBSET {"start", "end"}

VARIABLES
  due,       \* the tick the main loop makes next: "ppu" or "tve"
  line,      \* curr_line of ppu.cpp
  tveLine,   \* tve_curr_line
  ppuCtl, ppuSts,   \* the sources enabled, and those flagged
  tveCtl, tveSts,   \* the same; there is one flag for both events
  pic,
  serving,   \* the guest: lines whose handler was entered and has not acknowledged
  shift,     \* history: by how many lines the encoder is ahead
  erased,    \* history: lines that are up and whose flag was overwritten
  stale      \* history: lines a soft reset put down behind intsFired

clock == <<due, line, tveLine, shift>>
ppu   == <<ppuCtl, ppuSts>>
tve   == <<tveCtl, tveSts>>
vars  == <<clock, ppu, tve, pic, serving, erased, stale>>

Lines == 0..LastLine

TypeOK ==
  /\ due \in {"ppu", "tve"}
  /\ line \in Lines /\ tveLine \in Lines /\ shift \in Lines
  /\ ppuCtl \subseteq Sources /\ ppuSts \subseteq Sources
  /\ tveCtl \subseteq {"start", "end"} /\ tveSts \in BOOLEAN
  /\ pic \in PicState
  /\ serving \subseteq IRQ /\ erased \subseteq IRQ /\ stale \subseteq IRQ

Init ==
  /\ due = "ppu"
  /\ line = 0 /\ tveLine = TveInit /\ shift = TveInit
  /\ ppuCtl = {} /\ ppuSts = {}
  /\ tveCtl = {} /\ tveSts = FALSE
  /\ pic = PicInit
  /\ serving = {} /\ erased = {} /\ stale = {}

------------------------------------------------------------------------------
(* The main loop. *)

\* Wrong variant: the frame ends with the start of blanking.
NextLineWrapsAtStart(l) == IF l >= StartLine THEN 0 ELSE l + 1

NextLine(l) == IF l = LastLine THEN 0 ELSE l + 1

\* What happens on a line, if anything.
EventAt(l) ==
  IF l = StartLine THEN "start" ELSE IF l = EndLine THEN "end" ELSE "none"

PPUTick ==
  /\ due = "ppu" /\ due' = "tve"
  /\ line' = NextLine(line)
  /\ LET event == EventAt(line)
     IN  IF event \in ppuCtl
           THEN /\ pic' = SetIRQState(pic, PpuLine[event], TRUE)
                /\ ppuSts' = ppuSts \cup {event}
                /\ erased' = erased \ {PpuLine[event]}
           ELSE UNCHANGED <<pic, ppuSts, erased>>
  /\ UNCHANGED <<tveLine, shift, ppuCtl, tve, serving, stale>>

\* Wrong variant: the line is raised without its flag.
TVETickRaisesOnly ==
  /\ due = "tve" /\ due' = "ppu"
  /\ tveLine' = NextLine(tveLine)
  /\ IF EventAt(tveLine) \in tveCtl
       THEN pic' = SetIRQState(pic, TveLine, TRUE) /\ UNCHANGED <<tveSts, erased>>
       ELSE UNCHANGED <<pic, tveSts, erased>>
  /\ UNCHANGED <<line, shift, ppu, tveCtl, serving, stale>>

\* Both events raise one line and set one flag.
TVETick ==
  /\ due = "tve" /\ due' = "ppu"
  /\ tveLine' = NextLine(tveLine)
  /\ IF EventAt(tveLine) \in tveCtl
       THEN /\ pic' = SetIRQState(pic, TveLine, TRUE)
            /\ tveSts' = TRUE
            /\ erased' = erased \ {TveLine}
       ELSE UNCHANGED <<pic, tveSts, erased>>
  /\ UNCHANGED <<line, shift, ppu, tveCtl, serving, stale>>

\* A second has passed: the count starts again, and a tick of the encoder that
\* was due in this round is not made.
RestartCount ==
  /\ due = "tve" /\ due' = "ppu"
  /\ shift' = IF shift = 0 THEN LastLine ELSE shift - 1
  /\ UNCHANGED <<line, tveLine, ppu, tve, pic, serving, erased, stale>>

\* The peripherals, the interrupt controller and the CPU are reset; neither the
\* counts of lines nor intsFired are.
SoftReset ==
  /\ ppuCtl' = {} /\ ppuSts' = {} /\ tveCtl' = {} /\ tveSts' = FALSE
  /\ pic' = [IRQDeviceReset(pic) EXCEPT !.queued = {}]
  /\ serving' = {} /\ erased' = {}
  /\ stale' = stale \cup pic.fired
  /\ UNCHANGED clock

------------------------------------------------------------------------------
(* The guest's stores: PPUDeviceWriteHandler, ppudma_worker and               *)
(* TVEDeviceWriteHandler.                                                     *)

\* Wrong variant: intsFired stays.
LowerLinesKeepsFired(L) == [pic EXCEPT !.pending = @ \ L]

\* Lines dropped one after the other.
LowerLines(L) == [pic EXCEPT !.pending = @ \ L, !.fired = @ \ L]

LinesOf(S) == {PpuLine[s] : s \in S}

PpuWriteControl(S) ==
  /\ ppuCtl' = S
  /\ UNCHANGED <<clock, ppuSts, tve, pic, serving, erased, stale>>

\* Wrong variant: an acknowledgement clears flags only.
PpuWriteStatusKeepsLines(S) ==
  /\ ppuSts' = ppuSts \ S
  /\ serving' = serving \ LinesOf(S)
  /\ UNCHANGED <<clock, ppuCtl, tve, pic, erased, stale>>

\* The register takes the value and the bits that were ones are cleared, so all
\* three end up zero; only the lines of the ones drop.
PpuWriteStatus(S) ==
  /\ ppuSts' = {}
  /\ pic' = LowerLines(LinesOf(S))
  /\ serving' = serving \ LinesOf(S)
  /\ erased' = (erased \cup (LinesOf(ppuSts) \cap pic.pending)) \ LinesOf(S)
  /\ stale' = stale \ LinesOf(S)
  /\ UNCHANGED <<clock, ppuCtl, tve>>

\* A transfer between registers and RAM, finished at once.  It may run over the
\* interrupt registers: they take what is in RAM, without any handler.
PpuDma(ctl, sts) ==
  /\ ppuCtl' = ctl
  /\ ppuSts' = sts \cup {"dma"}
  /\ pic' = IF "dma" \in ctl THEN SetIRQState(pic, PpuLine.dma, TRUE) ELSE pic
  /\ erased' = (erased \cup (LinesOf(ppuSts) \cap pic.pending)) \ LinesOf(sts \cup {"dma"})
  /\ UNCHANGED <<clock, tve, serving, stale>>

PpuWriteDma(enable) ==
  \/ enable /\ PpuDma(ppuCtl, ppuSts)
  \/ enable /\ \E ctl \in Controls, sts \in Acks : PpuDma(ctl, sts)
  \/ /\ ~enable
     /\ ppuSts' = ppuSts \ {"dma"}
     /\ pic' = LowerLines({PpuLine.dma})
     /\ serving' = serving \ {PpuLine.dma}
     /\ erased' = erased \ {PpuLine.dma}
     /\ stale' = stale \ {PpuLine.dma}
     /\ UNCHANGED <<clock, ppuCtl, tve>>

TveWriteControl(S) ==
  /\ tveCtl' = S
  /\ UNCHANGED <<clock, ppu, tveSts, pic, serving, erased, stale>>

\* A store without bit 0 clears the flag and leaves the line.
TveWriteStatus(ack) ==
  /\ tveSts' = FALSE
  /\ IF ack
       THEN /\ pic' = LowerLines({TveLine})
            /\ serving' = serving \ {TveLine}
            /\ erased' = erased \ {TveLine}
            /\ stale' = stale \ {TveLine}
       ELSE /\ erased' = IF tveSts THEN erased \cup {TveLine} ELSE erased
            /\ UNCHANGED <<pic, serving, stale>>
  /\ UNCHANGED <<clock, ppu, tveCtl>>

\* The CPU enters the interrupt with the lowest number.
CpuTakes ==
  /\ pic.queued # {}
  /\ LET i == CHOOSE i \in pic.queued : \A j \in pic.queued : i <= j
     IN  /\ pic' = [pic EXCEPT !.queued = @ \ {i}]
         /\ serving' = serving \cup {i}
  /\ UNCHANGED <<clock, ppu, tve, erased, stale>>

MainLoop == PPUTick \/ TVETick \/ RestartCount

Guest ==
  \/ \E S \in Controls : PpuWriteControl(S)
  \/ \E S \in Acks : PpuWriteStatus(S)
  \/ \E enable \in BOOLEAN : PpuWriteDma(enable)
  \/ \E S \in TveControls : TveWriteControl(S)
  \/ \E ack \in BOOLEAN : TveWriteStatus(ack)

\* The handlers acknowledge what they were entered for.
Served == {s \in Sources : PpuLine[s] \in serving}
ServePpu == Served # {} /\ PpuWriteStatus(Served)
ServeTve == TveLine \in serving /\ TveWriteStatus(TRUE)

Next == MainLoop \/ Guest \/ ServePpu \/ ServeTve \/ CpuTakes \/ SoftReset

Spec == Init /\ [][Next]_vars

\* The main loop goes on and a second is longer than a round, so the encoder's
\* tick is not left out every time; the CPU enters what is queued and the
\* handlers come to their acknowledgements.
LiveSpec ==
  /\ Spec
  /\ WF_vars(PPUTick) /\ SF_vars(TVETick) /\ WF_vars(CpuTakes)
  /\ WF_vars(ServePpu) /\ WF_vars(ServeTve)

------------------------------------------------------------------------------
\* A line that is up has its flag, so the handler finds the cause, unless a store
\* or a DMA transfer overwrote the flag.  The encoder's flag is up only with its
\* line, although two events share both.
FlagHasLine ==
  /\ \A s \in Sources : PpuLine[s] \in pic.pending => s \in ppuSts \/ PpuLine[s] \in erased
  /\ TveLine \in pic.pending => tveSts \/ TveLine \in erased
  /\ tveSts => TveLine \in pic.pending

BlankInv == TypeOK /\ FlagHasLine

\* What the controller has handed over is on its way to the CPU or is being
\* served, so intsFired, which keeps a line from interrupting again, is taken
\* back by an acknowledgement to come.  A soft reset breaks this: it forgets the
\* queue and keeps intsFired, and the line stays silent until it is acknowledged
\* without having interrupted.
FiredIsServed == pic.fired \subseteq pic.queued \cup serving \cup stale

\* The counts of lines are two hands of one clock: the encoder's is ahead by
\* `shift` lines, whatever the guest, resets and the order of ticks; only a
\* restart of the instruction count between the two ticks sets it back.
Shifted(l) == IF l + shift > LastLine THEN l + shift - (LastLine + 1) ELSE l + shift

LinesInStep ==
  Shifted(line) = IF due = "tve" THEN NextLine(tveLine) ELSE tveLine

\* Blanking goes on interrupting as long as it is enabled and the handlers
\* acknowledge: neither the sharing of a line by start and end, nor ticks that
\* are left out, nor late handlers end it, unless a soft reset made the line
\* silent.
Steady == MainLoop \/ CpuTakes \/ ServePpu \/ ServeTve

Interrupts(i) == i \in LinesOf(ppuCtl) \/ (i = TveLine /\ "start" \in tveCtl)

BlankingGoesOn ==
  <>[][Steady]_vars =>
    \A i \in {PpuLine.start, PpuLine.end, TveLine} :
      <>[](Interrupts(i) /\ i \notin stale) => []<>(i \in pic.queued)
==============================================================================
