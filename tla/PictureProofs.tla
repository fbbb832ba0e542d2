---------------------------- MODULE PictureProofs ----------------------------
(***************************************************************************)
(* Proofs about what makes and shows pictures: about Blanking, with any    *)
(* set of lines; about RenderThread, with any number of events; and about  *)
(* BlnDma, with any transfers within main RAM and any memory.              *)
(***************************************************************************)
EXTENDS Blanking, RenderThread, BlnDma, PicProofs, FiniteSetTheorems


------------------------------------------------------------------------------
\* The four sources have four lines.
LEMMA LinesAreDistinct ==
  /\ Sources = {"start", "end", "dma"}
  /\ \A s \in Sources : PpuLine[s] \in IRQ /\ PpuLine[s] # TveLine
  /\ \A s, t \in Sources : PpuLine[s] = PpuLine[t] => s = t
  /\ PpuLine.start = 53 /\ PpuLine.end = 46 /\ PpuLine.dma = 16
<1>1. Sources = {"start", "end", "dma"}
  BY DEF Sources, PpuLine
<1>2. PpuLine["start"] = 53 /\ PpuLine["end"] = 46 /\ PpuLine["dma"] = 16
  BY DEF PpuLine
<1> QED
  BY <1>1, <1>2, ValueAssumption DEF TveLine

\* What dropping several lines does to the controller.
LEMMA LowerLinesEffect ==
  ASSUME pic \in PicState, NEW L
  PROVE  /\ LowerLines(L) \in PicState
         /\ LowerLines(L).pending = pic.pending \ L
         /\ LowerLines(L).fired = pic.fired \ L
         /\ LowerLines(L).queued = pic.queued
<1> DEFINE p == [pic EXCEPT !.pending = @ \ L]
           q == [p EXCEPT !.fired = @ \ L]
<1>1. p \in PicState /\ p.pending = pic.pending \ L /\ p.fired = pic.fired
      /\ p.queued = pic.queued
  BY DEF PicState
<1> HIDE DEF p
<1>2. q \in PicState /\ q.pending = p.pending /\ q.fired = p.fired \ L
      /\ q.queued = p.queued
  BY <1>1 DEF PicState
<1>3. LowerLines(L) = q
  BY Zenon DEF LowerLines, p
<1> QED
  BY <1>1, <1>2, <1>3

\* The first line of a frame and the last.
LEMMA LinesAreNumbers ==
  /\ LastLine \in Nat /\ 0 \in Lines /\ TveInit \in Lines
  /\ \A l \in Lines : NextLine(l) \in Lines
BY LineAssumption DEF Lines, NextLine

\* The lines of several sources: the encoder's is not among them.
LEMMA LinesOfSources ==
  ASSUME NEW S \in SUBSET Sources
  PROVE  /\ LinesOf(S) \subseteq IRQ /\ TveLine \notin LinesOf(S)
         /\ \A s \in Sources : PpuLine[s] \in LinesOf(S) <=> s \in S
BY LinesAreDistinct DEF LinesOf

\* The values the guest stores are sources.
LEMMA StoresAreSources ==
  /\ Controls \subseteq SUBSET Sources /\ Acks \subseteq SUBSET Sources
  /\ Served \in SUBSET Sources
BY ValueAssumption DEF Served

------------------------------------------------------------------------------
\* What the actions do to the controller.  A tick either raises one line, with
\* its flag, or does nothing but count.
Raises(i) ==
  /\ pic' \in PicState /\ pic'.pending = pic.pending \cup {i}
  /\ \/ pic'.fired = pic.fired /\ pic'.queued = pic.queued
     \/ \E k \in IRQ : pic'.fired = pic.fired \cup {k} /\ pic'.queued = pic.queued \cup {k}

\* SetIRQState(i, TRUE) on any state of the controller raises i.
LEMMA RaisingRaises ==
  ASSUME pic \in PicState, NEW i \in IRQ, pic' = SetIRQState(pic, i, TRUE)
  PROVE  Raises(i)
<1> DEFINE q == SetIRQState(pic, i, TRUE)
<1>1. /\ q \in PicState /\ q.pending = pic.pending \cup {i}
      /\ \/ q.fired = pic.fired /\ q.queued = pic.queued
         \/ \E k \in (pic.pending \cup {i}) \ pic.fired :
              q.fired = pic.fired \cup {k} /\ q.queued = pic.queued \cup {k}
  BY RaiseEffect
<1>2. (pic.pending \cup {i}) \ pic.fired \subseteq IRQ
  BY DEF PicState
<1> HIDE DEF q
<1>3. pic' = q
  BY DEF q
<1> QED
  BY <1>1, <1>2, <1>3 DEF Raises

\* A line of the picture unit raises the event it stands for, or nothing.
LEMMA PPUTickEffect ==
  ASSUME TypeOK, PPUTick
  PROVE  \/ UNCHANGED <<pic, ppuSts, erased>>
         \/ \E e \in Sources : /\ Raises(PpuLine[e]) /\ ppuSts' = ppuSts \cup {e}
                               /\ erased' = erased \ {PpuLine[e]}
<1> DEFINE e == EventAt(line)
<1>1. CASE e \in ppuCtl
  <2>1. /\ pic' = SetIRQState(pic, PpuLine[e], TRUE)
        /\ ppuSts' = ppuSts \cup {e} /\ erased' = erased \ {PpuLine[e]}
    BY <1>1 DEF PPUTick
  <2>2. e \in Sources
    BY <1>1 DEF TypeOK
  <2> HIDE DEF e
  <2>3. PpuLine[e] \in IRQ /\ pic \in PicState
    BY <2>2, LinesAreDistinct DEF TypeOK
  <2>4. Raises(PpuLine[e])
    BY <2>1, <2>3, RaisingRaises
  <2> QED
    BY <2>1, <2>2, <2>4
<1>2. CASE e \notin ppuCtl
  BY <1>2 DEF PPUTick
<1> QED
  BY <1>1, <1>2

\* A line of the TV encoder raises its interrupt, or nothing.
LEMMA TVETickEffect ==
  ASSUME TypeOK, TVETick
  PROVE  \/ UNCHANGED <<pic, tveSts, erased>>
         \/ Raises(TveLine) /\ tveSts' = TRUE /\ erased' = erased \ {TveLine}
<1>1. CASE EventAt(tveLine) \in tveCtl
  <2>1. /\ pic' = SetIRQState(pic, TveLine, TRUE)
        /\ tveSts' = TRUE /\ erased' = erased \ {TveLine}
    BY <1>1 DEF TVETick
  <2>2. pic \in PicState /\ TveLine \in IRQ
    BY ValueAssumption DEF TypeOK
  <2> QED
    BY <2>1, <2>2, RaisingRaises
<1>2. CASE EventAt(tveLine) \notin tveCtl
  BY <1>2 DEF TVETick
<1> QED
  BY <1>1, <1>2

\* A DMA transfer raises its line, if that is enabled.
LEMMA PpuDmaEffect ==
  ASSUME TypeOK, NEW ctl, NEW sts, PpuDma(ctl, sts)
  PROVE  Raises(PpuLine.dma) \/ pic' = pic
<1>1. CASE "dma" \in ctl
  <2>1. pic' = SetIRQState(pic, PpuLine.dma, TRUE)
    BY <1>1 DEF PpuDma
  <2>2. pic \in PicState /\ PpuLine.dma \in IRQ
    BY LinesAreDistinct DEF TypeOK
  <2> QED
    BY <2>1, <2>2, RaisingRaises
<1>2. CASE "dma" \notin ctl
  BY <1>2 DEF PpuDma
<1> QED
  BY <1>1, <1>2

\* The CPU takes one line out of the queue.
LEMMA CpuTakesEffect ==
  ASSUME TypeOK, CpuTakes
  PROVE  \E i \in IRQ :
           /\ pic' \in PicState /\ pic'.pending = pic.pending
           /\ pic'.fired = pic.fired /\ pic'.queued = pic.queued \ {i}
           /\ serving' = serving \cup {i}
<1>1. pic \in PicState /\ pic.queued \in SUBSET IRQ
  BY DEF TypeOK, PicState
<1>2. pic.queued \in SUBSET Nat /\ pic.queued # {}
  BY <1>1, LinesAreNaturals DEF CpuTakes
<1>3. \E i \in pic.queued : \A j \in pic.queued : i <= j
  BY <1>2, LowestExists
<1> DEFINE c == CHOOSE i \in pic.queued : \A j \in pic.queued : i <= j
<1>4. c \in pic.queued
  BY <1>3
<1>5. pic' = [pic EXCEPT !.queued = @ \ {c}] /\ serving' = serving \cup {c}
  BY DEF CpuTakes
<1> HIDE DEF c
<1>6. c \in IRQ
  BY <1>1, <1>4
<1>7. LET q == [pic EXCEPT !.queued = @ \ {c}]
      IN  /\ q \in PicState /\ q.pending = pic.pending
          /\ q.fired = pic.fired /\ q.queued = pic.queued \ {c}
  BY <1>1, DequeueEffect
<1> QED
  BY <1>5, <1>6, <1>7

\* A soft reset empties the queue and keeps intsFired.
LEMMA SoftResetEffect ==
  ASSUME TypeOK, SoftReset
  PROVE  pic' \in PicState /\ pic'.pending = {} /\ pic'.fired = pic.fired
<1>1. pic \in PicState
  BY DEF TypeOK
<1>2. pic' = [IRQDeviceReset(pic) EXCEPT !.queued = {}]
  BY DEF SoftReset
<1> QED
  BY <1>1, <1>2, ResetEffect

\* An acknowledgement, of any source, drops some of the lines.
Drops(L) ==
  /\ pic' \in PicState /\ pic'.pending = pic.pending \ L
  /\ pic'.fired = pic.fired \ L /\ pic'.queued = pic.queued

\* Acknowledging lowers lines and leaves the queue of the CPU alone.
LEMMA LoweringDrops ==
  ASSUME TypeOK, NEW L, pic' = LowerLines(L)
  PROVE  Drops(L)
<1>1. pic \in PicState
  BY DEF TypeOK
<1> QED
  BY <1>1, LowerLinesEffect DEF Drops

------------------------------------------------------------------------------
\* A step is one of these, with the values the guest may store.
LEMMA NextCases ==
  ASSUME TypeOK, [Next]_vars
  PROVE  \/ PPUTick \/ TVETick \/ RestartCount \/ CpuTakes \/ SoftReset
         \/ \E S \in SUBSET Sources : PpuWriteControl(S) \/ PpuWriteStatus(S)
         \/ \E ctl, sts \in SUBSET Sources : PpuDma(ctl, sts)
         \/ PpuWriteDma(FALSE)
         \/ \E S \in TveControls : TveWriteControl(S)
         \/ \E ack \in BOOLEAN : TveWriteStatus(ack)
         \/ UNCHANGED vars
<1>1. ppuCtl \in SUBSET Sources /\ ppuSts \in SUBSET Sources
  BY DEF TypeOK
<1>2. CASE \E S \in Controls : PpuWriteControl(S)
  BY <1>2, StoresAreSources
<1>3. CASE \E S \in Acks : PpuWriteStatus(S)
  BY <1>3, StoresAreSources
<1>4. CASE ServePpu
  <2>1. PpuWriteStatus(Served)
    BY <1>4 DEF ServePpu
  <2> QED
    BY <2>1, StoresAreSources
<1>5. CASE PpuWriteDma(TRUE)
  <2>1. \/ PpuDma(ppuCtl, ppuSts)
        \/ \E ctl \in Controls, sts \in Acks : PpuDma(ctl, sts)
    BY <1>5 DEF PpuWriteDma
  <2> QED
    BY <1>1, <2>1, StoresAreSources
<1>6. CASE ServeTve
  BY <1>6 DEF ServeTve
<1>7. CASE \E enable \in BOOLEAN : PpuWriteDma(enable)
  BY <1>5, <1>7
<1> QED
  BY <1>2, <1>3, <1>4, <1>6, <1>7 DEF Next, MainLoop, Guest

\* What taking back the enable bit of the DMA does.
LEMMA DmaOffEffect ==
  ASSUME TypeOK, PpuWriteDma(FALSE)
  PROVE  /\ Drops({PpuLine.dma}) /\ ppuSts' = ppuSts \ {"dma"}
         /\ serving' = serving \ {PpuLine.dma} /\ erased' = erased \ {PpuLine.dma}
         /\ stale' = stale \ {PpuLine.dma}
         /\ UNCHANGED <<clock, ppuCtl, tve>>
<1>1. /\ pic' = LowerLines({PpuLine.dma}) /\ ppuSts' = ppuSts \ {"dma"}
      /\ serving' = serving \ {PpuLine.dma} /\ erased' = erased \ {PpuLine.dma}
      /\ stale' = stale \ {PpuLine.dma}
      /\ UNCHANGED <<clock, ppuCtl, tve>>
  BY DEF PpuWriteDma
<1> QED
  BY <1>1, LoweringDrops

\* The types are kept by the main loop, the guest's stores, entries and resets.
LEMMA StepTypeOK == TypeOK /\ [Next]_vars => TypeOK'
<1> SUFFICES ASSUME TypeOK, [Next]_vars PROVE TypeOK'
  OBVIOUS
<1> USE DEF TypeOK, clock, ppu, tve
<1>1. pic \in PicState /\ pic.pending \subseteq IRQ /\ pic.fired \subseteq IRQ
  BY DEF PicState
<1>2. CASE PPUTick
  <2>1. line' \in Lines
    BY <1>2, LinesAreNumbers DEF PPUTick
  <2>2. pic' \in PicState /\ ppuSts' \subseteq Sources /\ erased' \subseteq IRQ
    BY <1>2, PPUTickEffect DEF Raises
  <2> QED
    BY <1>2, <2>1, <2>2 DEF PPUTick
<1>3. CASE TVETick
  <2>1. tveLine' \in Lines
    BY <1>3, LinesAreNumbers DEF TVETick
  <2>2. pic' \in PicState /\ tveSts' \in BOOLEAN /\ erased' \subseteq IRQ
    BY <1>3, TVETickEffect DEF Raises
  <2> QED
    BY <1>3, <2>1, <2>2 DEF TVETick
<1>4. CASE RestartCount
  <2>1. shift' \in Lines
    BY <1>4, LinesAreNumbers DEF RestartCount, Lines
  <2> QED
    BY <1>4, <2>1 DEF RestartCount
<1>5. CASE SoftReset
  <2>1. pic' \in PicState /\ stale' \subseteq IRQ
    BY <1>1, <1>5, SoftResetEffect DEF SoftReset
  <2> QED
    BY <1>5, <2>1 DEF SoftReset
<1>6. ASSUME NEW S \in SUBSET Sources, PpuWriteControl(S) PROVE TypeOK'
  BY <1>6 DEF PpuWriteControl
<1>7. ASSUME NEW S \in SUBSET Sources, PpuWriteStatus(S) PROVE TypeOK'
  <2>1. pic' \in PicState
    BY <1>7, LoweringDrops DEF PpuWriteStatus, Drops
  <2>2. erased' \subseteq IRQ
    BY <1>1, <1>7 DEF PpuWriteStatus
  <2> QED
    BY <1>7, <2>1, <2>2 DEF PpuWriteStatus
<1>8. ASSUME NEW ctl \in SUBSET Sources, NEW sts \in SUBSET Sources, PpuDma(ctl, sts)
      PROVE  TypeOK'
  <2>1. pic' \in PicState
    BY <1>8, PpuDmaEffect DEF Raises
  <2>2. ppuSts' \subseteq Sources
    BY <1>8, LinesAreDistinct DEF PpuDma
  <2>3. erased' \subseteq IRQ
    BY <1>1, <1>8 DEF PpuDma
  <2> QED
    BY <1>8, <2>1, <2>2, <2>3 DEF PpuDma
<1>9. CASE PpuWriteDma(FALSE)
  BY <1>9, DmaOffEffect DEF Drops
<1>10. ASSUME NEW S \in TveControls, TveWriteControl(S) PROVE TypeOK'
  BY <1>10, ValueAssumption DEF TveWriteControl
<1>11. ASSUME NEW ack \in BOOLEAN, TveWriteStatus(ack) PROVE TypeOK'
  <2>1. pic' \in PicState
    BY <1>11, LoweringDrops DEF TveWriteStatus, Drops
  <2>2. erased' \subseteq IRQ /\ serving' \subseteq IRQ /\ stale' \subseteq IRQ
    BY <1>11, ValueAssumption DEF TveWriteStatus
  <2> QED
    BY <1>11, <2>1, <2>2 DEF TveWriteStatus
<1>12. CASE CpuTakes
  <2>1. pic' \in PicState /\ serving' \subseteq IRQ
    BY <1>12, CpuTakesEffect
  <2> QED
    BY <1>12, <2>1 DEF CpuTakes
<1>13. CASE UNCHANGED vars
  BY <1>13 DEF vars
<1> HIDE DEF TypeOK
<1> QED
  BY <1>2, <1>3, <1>4, <1>5, <1>6, <1>7, <1>8, <1>9, <1>10, <1>11, <1>12, <1>13, NextCases

\* No step leaves a line up without its flag, or the encoder's flag without its
\* line.
LEMMA StepFlagHasLine == BlankInv /\ [Next]_vars => FlagHasLine'
<1> SUFFICES ASSUME TypeOK, FlagHasLine, [Next]_vars PROVE FlagHasLine'
  BY DEF BlankInv
<1> USE DEF clock, ppu, tve, FlagHasLine
<1>1. ppuSts \in SUBSET Sources
  BY DEF TypeOK
<1>2. CASE PPUTick
  <2>1. UNCHANGED tveSts
    BY <1>2 DEF PPUTick
  <2> QED
    BY <1>2, <2>1, PPUTickEffect, LinesAreDistinct DEF Raises
<1>3. CASE TVETick
  <2>1. UNCHANGED ppuSts
    BY <1>3 DEF TVETick
  <2>2. CASE UNCHANGED <<pic, tveSts, erased>>
    BY <2>1, <2>2
  <2>3. CASE Raises(TveLine) /\ tveSts' = TRUE /\ erased' = erased \ {TveLine}
    <3>1. /\ pic'.pending = pic.pending \cup {TveLine}
          /\ erased' = erased \ {TveLine} /\ ppuSts' = ppuSts
      BY <2>1, <2>3 DEF Raises
    <3>2. \A s \in Sources : PpuLine[s] \in pic'.pending =>
            s \in ppuSts' \/ PpuLine[s] \in erased'
      BY <3>1, LinesAreDistinct
    <3>3. tveSts' /\ TveLine \in pic'.pending
      BY <2>3, <3>1
    <3> QED
      BY <3>2, <3>3
  <2> QED
    BY <1>3, <2>2, <2>3, TVETickEffect
<1>4. CASE RestartCount
  BY <1>4 DEF RestartCount
<1>5. CASE SoftReset
  BY <1>5, SoftResetEffect DEF SoftReset
<1>6. ASSUME NEW S \in SUBSET Sources, PpuWriteControl(S) PROVE FlagHasLine'
  BY <1>6 DEF PpuWriteControl
<1>7. ASSUME NEW S \in SUBSET Sources, PpuWriteStatus(S) PROVE FlagHasLine'
  <2>1. Drops(LinesOf(S))
    BY <1>7, LoweringDrops DEF PpuWriteStatus
  <2>2. /\ erased' = (erased \cup (LinesOf(ppuSts) \cap pic.pending)) \ LinesOf(S)
        /\ ppuSts' = {} /\ tveSts' = tveSts
    BY <1>7 DEF PpuWriteStatus
  <2> QED
    BY <1>1, <2>1, <2>2, LinesOfSources DEF Drops
<1>8. ASSUME NEW ctl \in SUBSET Sources, NEW sts \in SUBSET Sources, PpuDma(ctl, sts)
      PROVE  FlagHasLine'
  <2> DEFINE new == sts \cup {"dma"}
  <2>1. new \in SUBSET Sources /\ "dma" \in new
    BY LinesAreDistinct
  <2>2. /\ erased' = (erased \cup (LinesOf(ppuSts) \cap pic.pending)) \ LinesOf(new)
        /\ ppuSts' = new /\ tveSts' = tveSts
    BY <1>8 DEF PpuDma
  <2> HIDE DEF new
  <2>3. pic'.pending \subseteq pic.pending \cup {PpuLine.dma} /\ pic.pending \subseteq pic'.pending
    BY <1>8, PpuDmaEffect DEF Raises
  <2>4. \A s \in Sources : PpuLine[s] \in pic.pending =>
          PpuLine[s] \in erased \cup (LinesOf(ppuSts) \cap pic.pending)
    BY <1>1, LinesOfSources
  <2> QED
    BY <2>1, <2>2, <2>3, <2>4, LinesOfSources, LinesAreDistinct
<1>9. CASE PpuWriteDma(FALSE)
  <2>1. /\ pic'.pending = pic.pending \ {PpuLine.dma} /\ ppuSts' = ppuSts \ {"dma"}
        /\ erased' = erased \ {PpuLine.dma} /\ tveSts' = tveSts
    BY <1>9, DmaOffEffect DEF Drops
  <2> QED
    BY <2>1, LinesAreDistinct
<1>10. ASSUME NEW S \in TveControls, TveWriteControl(S) PROVE FlagHasLine'
  BY <1>10 DEF TveWriteControl
<1>11. ASSUME NEW ack \in BOOLEAN, TveWriteStatus(ack) PROVE FlagHasLine'
  <2>1. CASE ack
    <3>1. Drops({TveLine})
      BY <1>11, <2>1, LoweringDrops DEF TveWriteStatus
    <3>2. tveSts' = FALSE /\ ppuSts' = ppuSts /\ erased' = erased \ {TveLine}
      BY <1>11, <2>1 DEF TveWriteStatus
    <3> QED
      BY <3>1, <3>2, LinesAreDistinct DEF Drops
  <2>2. CASE ~ack
    <3>1. /\ tveSts' = FALSE /\ ppuSts' = ppuSts /\ pic' = pic
          /\ erased' = IF tveSts THEN erased \cup {TveLine} ELSE erased
      BY <1>11, <2>2 DEF TveWriteStatus
    <3> QED
      BY <3>1
  <2> QED
    BY <2>1, <2>2
<1>12. CASE CpuTakes
  <2>1. UNCHANGED <<ppuSts, tveSts, erased>>
    BY <1>12 DEF CpuTakes
  <2> QED
    BY <1>12, <2>1, CpuTakesEffect
<1>13. CASE UNCHANGED vars
  BY <1>13 DEF vars
<1> HIDE DEF FlagHasLine
<1> QED
  BY <1>2, <1>3, <1>4, <1>5, <1>6, <1>7, <1>8, <1>9, <1>10, <1>11, <1>12, <1>13, NextCases

\* What was handed over stays accounted for.
LEMMA StepFired == TypeOK /\ FiredIsServed /\ [Next]_vars => FiredIsServed'
<1> SUFFICES ASSUME TypeOK, FiredIsServed, [Next]_vars PROVE FiredIsServed'
  OBVIOUS
<1> USE DEF clock, ppu, tve, FiredIsServed
<1>2. CASE PPUTick
  <2>1. UNCHANGED <<serving, stale>>
    BY <1>2 DEF PPUTick
  <2> QED
    BY <1>2, <2>1, PPUTickEffect DEF Raises
<1>3. CASE TVETick
  <2>1. UNCHANGED <<serving, stale>>
    BY <1>3 DEF TVETick
  <2> QED
    BY <1>3, <2>1, TVETickEffect DEF Raises
<1>4. CASE RestartCount
  BY <1>4 DEF RestartCount
<1>5. CASE SoftReset
  BY <1>5, SoftResetEffect DEF SoftReset
<1>6. ASSUME NEW S \in SUBSET Sources, PpuWriteControl(S) PROVE FiredIsServed'
  BY <1>6 DEF PpuWriteControl
<1>7. ASSUME NEW S \in SUBSET Sources, PpuWriteStatus(S) PROVE FiredIsServed'
  <2>1. /\ Drops(LinesOf(S)) /\ serving' = serving \ LinesOf(S)
        /\ stale' = stale \ LinesOf(S)
    BY <1>7, LoweringDrops DEF PpuWriteStatus
  <2> QED
    BY <2>1 DEF Drops
<1>8. ASSUME NEW ctl \in SUBSET Sources, NEW sts \in SUBSET Sources, PpuDma(ctl, sts)
      PROVE  FiredIsServed'
  <2>1. UNCHANGED <<serving, stale>>
    BY <1>8 DEF PpuDma
  <2> QED
    BY <1>8, <2>1, PpuDmaEffect DEF Raises
<1>9. CASE PpuWriteDma(FALSE)
  BY <1>9, DmaOffEffect DEF Drops
<1>10. ASSUME NEW S \in TveControls, TveWriteControl(S) PROVE FiredIsServed'
  BY <1>10 DEF TveWriteControl
<1>11. ASSUME NEW ack \in BOOLEAN, TveWriteStatus(ack) PROVE FiredIsServed'
  <2>1. CASE ack
    <3>1. /\ Drops({TveLine}) /\ serving' = serving \ {TveLine}
          /\ stale' = stale \ {TveLine}
      BY <1>11, <2>1, LoweringDrops DEF TveWriteStatus
    <3> QED
      BY <3>1 DEF Drops
  <2>2. CASE ~ack
    BY <1>11, <2>2 DEF TveWriteStatus
  <2> QED
    BY <2>1, <2>2
<1>12. CASE CpuTakes
  <2>1. UNCHANGED stale
    BY <1>12 DEF CpuTakes
  <2> QED
    BY <1>12, <2>1, CpuTakesEffect
<1>13. CASE UNCHANGED vars
  BY <1>13 DEF vars
<1> HIDE DEF FiredIsServed
<1> QED
  BY <1>2, <1>3, <1>4, <1>5, <1>6, <1>7, <1>8, <1>9, <1>10, <1>11, <1>12, <1>13, NextCases

\* The two counts stay in step.
LEMMA StepLines == TypeOK /\ LinesInStep /\ [Next]_vars => LinesInStep'
<1> SUFFICES ASSUME TypeOK, LinesInStep, [Next]_vars PROVE LinesInStep'
  OBVIOUS
<1>1. LastLine \in Nat /\ line \in Lines /\ tveLine \in Lines /\ shift \in Lines
  BY LinesAreNumbers DEF TypeOK
<1>2. CASE PPUTick
  <2>1. due = "ppu" /\ due' = "tve" /\ line' = NextLine(line) /\ UNCHANGED <<tveLine, shift>>
    BY <1>2 DEF PPUTick
  <2>2. Shifted(NextLine(line)) = NextLine(Shifted(line))
    BY <1>1 DEF Shifted, NextLine, Lines
  <2> QED
    BY <2>1, <2>2 DEF LinesInStep, Shifted, NextLine
<1>3. CASE TVETick
  <2>1. due = "tve" /\ due' = "ppu" /\ tveLine' = NextLine(tveLine) /\ UNCHANGED <<line, shift>>
    BY <1>3 DEF TVETick
  <2> QED
    BY <2>1 DEF LinesInStep, Shifted, NextLine
<1>4. CASE RestartCount
  <2>1. /\ due = "tve" /\ due' = "ppu" /\ UNCHANGED <<line, tveLine>>
        /\ shift' = IF shift = 0 THEN LastLine ELSE shift - 1
    BY <1>4 DEF RestartCount
  <2> QED
    BY <1>1, <2>1 DEF LinesInStep, Shifted, NextLine, Lines
<1>5. CASE UNCHANGED clock
  BY <1>5 DEF LinesInStep, Shifted, NextLine, clock
<1>6. ASSUME NEW S \in SUBSET Sources, PpuWriteControl(S) \/ PpuWriteStatus(S)
      PROVE  UNCHANGED clock
  BY <1>6 DEF PpuWriteControl, PpuWriteStatus
<1>7. ASSUME NEW ctl, NEW sts, PpuDma(ctl, sts) PROVE UNCHANGED clock
  BY <1>7 DEF PpuDma
<1>8. CASE PpuWriteDma(FALSE)
  BY <1>5, <1>8, DmaOffEffect
<1>9. ASSUME NEW S, TveWriteControl(S) PROVE UNCHANGED clock
  BY <1>9 DEF TveWriteControl
<1>10. ASSUME NEW ack \in BOOLEAN, TveWriteStatus(ack) PROVE UNCHANGED clock
  BY <1>10 DEF TveWriteStatus
<1>11. CASE CpuTakes \/ SoftReset
  BY <1>5, <1>11 DEF CpuTakes, SoftReset
<1>12. CASE UNCHANGED vars
  BY <1>5, <1>12 DEF vars
<1> HIDE DEF LinesInStep
<1> QED
  BY <1>2, <1>3, <1>4, <1>5, <1>6, <1>7, <1>8, <1>9, <1>10, <1>11, <1>12, NextCases

------------------------------------------------------------------------------
\* The emulator starts with the types, with no line up and the counts in step.
LEMMA InitHolds == Init => BlankInv /\ FiredIsServed /\ LinesInStep
<1> SUFFICES ASSUME Init PROVE BlankInv /\ FiredIsServed /\ LinesInStep
  OBVIOUS
<1>1. /\ pic \in PicState /\ pic.pending = {} /\ pic.fired = {}
  BY InitialPic, Zenon DEF Init, PicInit
<1>2. TypeOK
  BY <1>1, LinesAreNumbers DEF Init, TypeOK
<1>3. FlagHasLine
  BY <1>1 DEF Init, FlagHasLine
<1>4. FiredIsServed
  BY <1>1 DEF FiredIsServed
<1>5. LinesInStep
  <2>1. TveInit \in Nat /\ LastLine \in Nat /\ ~(TveInit > LastLine)
    BY LineAssumption
  <2>2. due # "tve" /\ line = 0 /\ tveLine = TveInit /\ shift = TveInit
    BY DEF Init
  <2>3. Shifted(line) = TveInit
    BY <2>1, <2>2 DEF Shifted
  <2> QED
    BY <2>2, <2>3 DEF LinesInStep
<1> QED
  BY <1>2, <1>3, <1>4, <1>5 DEF BlankInv

\* Every line that is up has its flag unless the flag was overwritten, and the
\* encoder's flag, which two events share, is up only with its line.
THEOREM FlagsHaveLines == Spec => []BlankInv
<1>1. Init => BlankInv
  BY InitHolds
<1>2. BlankInv /\ [Next]_vars => BlankInv'
  BY StepTypeOK, StepFlagHasLine DEF BlankInv
<1> QED
  BY <1>1, <1>2, PTL DEF Spec

\* intsFired keeps silent only a line that is queued, being served, or was put
\* down by a soft reset.
THEOREM HandedOverIsServed == Spec => []FiredIsServed
<1>1. Init => BlankInv /\ FiredIsServed
  BY InitHolds
<1>2. FiredIsServed /\ BlankInv /\ [Next]_vars => FiredIsServed'
  BY StepFired DEF BlankInv
<1> QED
  BY <1>1, <1>2, FlagsHaveLines, PTL DEF Spec

\* The counts of lines of the two units keep their distance, which only a restart
\* of the instruction count between the two ticks changes.
THEOREM CountsKeepStep == Spec => []LinesInStep
<1>1. Init => LinesInStep
  BY InitHolds
<1>2. LinesInStep /\ BlankInv /\ [Next]_vars => LinesInStep'
  BY StepLines DEF BlankInv
<1> QED
  BY <1>1, <1>2, FlagsHaveLines, PTL DEF Spec

------------------------------------------------------------------------------
(* RenderThread. *)

\* Every step of the two threads keeps the types.
LEMMA RenderStepTypeOK == RenderTypeOK /\ [RenderNext]_renderVars => RenderTypeOK'
<1> SUFFICES ASSUME RenderTypeOK, [RenderNext]_renderVars PROVE RenderTypeOK'
  OBVIOUS
<1> USE DEF RenderTypeOK, MainSteps, RenderSteps, flags, sync, user
<1>1. CASE UserActs
  <2>1. PICK e \in Events : events' = Append(events, e)
    BY <1>1 DEF UserActs
  <2>2. events' \in Seq(Events)
    BY <2>1
  <2> QED
    BY <1>1, <2>2, EventAssumption DEF UserActs
<1>2. CASE RenderStep \/ RenderWakeSpuriously
  <2>1. CASE RenderLoop
    BY <2>1 DEF RenderLoop
  <2>2. CASE RenderLock
    BY <2>2 DEF RenderLock
  <2>3. CASE RenderTest
    BY <2>3 DEF RenderTest
  <2>4. CASE RenderWake
    BY <2>4 DEF RenderWake
  <2>5. CASE RenderWakeSpuriously
    BY <2>5 DEF RenderWakeSpuriously
  <2>6. CASE RenderFinish
    BY <2>6 DEF RenderFinish
  <2>7. CASE RenderUnlock
    BY <2>7 DEF RenderUnlock
  <2> QED
    BY <1>2, <2>1, <2>2, <2>3, <2>4, <2>5, <2>6, <2>7 DEF RenderStep
<1>3. CASE MainStep
  <2>1. CASE BeginTick
    BY <2>1, RenderLineAssumption DEF BeginTick
  <2>2. CASE RequestFrame
    BY <2>2 DEF RequestFrame
  <2>3. CASE NotifyFrame
    BY <2>3 DEF NotifyFrame, Notify
  <2>4. CASE CheckDone
    BY <2>4 DEF CheckDone
  <2>5. CASE PollEvent
    BY <2>5 DEF PollEvent
  <2>6. CASE BeginFlip
    BY <2>6 DEF BeginFlip
  <2>7. CASE EndFlip
    BY <2>7 DEF EndFlip
  <2>8. CASE ClearDone
    BY <2>8 DEF ClearDone
  <2>9. CASE EndTick
    BY <2>9 DEF EndTick
  <2>10. CASE QuitRequest
    BY <2>10 DEF QuitRequest
  <2>11. CASE QuitNotify
    BY <2>11 DEF QuitNotify, Notify
  <2>12. CASE Join
    BY <2>12 DEF Join
  <2>13. CASE JoinTwice
    BY <2>13 DEF JoinTwice
  <2> QED
    BY <1>3, <2>1, <2>2, <2>3, <2>4, <2>5, <2>6, <2>7, <2>8, <2>9, <2>10, <2>11, <2>12, <2>13 DEF MainStep
<1>4. CASE Stopped \/ UNCHANGED renderVars
  BY <1>4 DEF Stopped, renderVars
<1> QED
  BY <1>1, <1>2, <1>3, <1>4 DEF RenderNext

\* Every variable keeps to the values its C++ counterpart can hold.
THEOREM TypeCorrect == RenderSpec => []RenderTypeOK
<1>1. RenderInit => RenderTypeOK
  <2>1. 0 \in 0..MaxLine /\ 0 \in 0..MaxEvents /\ <<>> \in Seq(Events)
    BY RenderLineAssumption, EventAssumption
  <2> QED
    BY <2>1 DEF RenderInit, RenderTypeOK, MainSteps, RenderSteps
<1> QED
  BY <1>1, RenderStepTypeOK, PTL DEF RenderSpec

------------------------------------------------------------------------------
\* The render thread keeps the invariant: it takes a request only with the
\* mutex, and what it finishes leaves it idle.
LEMMA RenderKeepsInv ==
  ASSUME RenderTypeOK, RenderInv, RenderStep \/ RenderWakeSpuriously
  PROVE  RenderInv'
<1> USE DEF RenderInv, LockIsHeld, DrawingUsedRequest, RequestIsLate,
            ShowingIsDone, DoneIsIdle, KilledIsQuitting, UnseenIsLate, RenderTypeOK, Showing,
            flags, sync, user
<1>1. CASE RenderLoop
  BY <1>1 DEF RenderLoop
<1>2. CASE RenderLock
  BY <1>2 DEF RenderLock
<1>3. CASE RenderTest
  BY <1>3 DEF RenderTest
<1>4. CASE RenderWake
  BY <1>4 DEF RenderWake
<1>5. CASE RenderWakeSpuriously
  BY <1>5 DEF RenderWakeSpuriously
<1>6. CASE RenderFinish
  BY <1>6 DEF RenderFinish
<1>7. CASE RenderUnlock
  BY <1>7 DEF RenderUnlock
<1> HIDE DEF RenderInv, LockIsHeld, DrawingUsedRequest, RequestIsLate,
            ShowingIsDone, DoneIsIdle, KilledIsQuitting, UnseenIsLate, RenderTypeOK
<1> QED
  BY <1>1, <1>2, <1>3, <1>4, <1>5, <1>6, <1>7 DEF RenderStep

\* So does the emulation thread: it asks only while the render thread is out of
\* its critical section, and it shows only what is done.
LEMMA MainKeepsInv ==
  ASSUME RenderTypeOK, RenderInv, MainStep
  PROVE  RenderInv'
<1> USE DEF RenderInv, LockIsHeld, DrawingUsedRequest, RequestIsLate,
            ShowingIsDone, DoneIsIdle, KilledIsQuitting, UnseenIsLate, RenderTypeOK, Showing,
            flags, sync, user
<1>1. CASE BeginTick
  BY <1>1, RenderLineAssumption DEF BeginTick
<1>2. CASE RequestFrame
  BY <1>2 DEF RequestFrame
<1>3. CASE NotifyFrame
  BY <1>3 DEF NotifyFrame, Notify
<1>4. CASE CheckDone
  BY <1>4 DEF CheckDone
<1>5. CASE PollEvent
  BY <1>5 DEF PollEvent
<1>6. CASE BeginFlip
  BY <1>6 DEF BeginFlip
<1>7. CASE EndFlip
  BY <1>7 DEF EndFlip
<1>8. CASE ClearDone
  BY <1>8 DEF ClearDone
<1>9. CASE EndTick
  BY <1>9 DEF EndTick
<1>10. CASE QuitRequest
  BY <1>10 DEF QuitRequest
<1>11. CASE QuitNotify
  BY <1>11 DEF QuitNotify, Notify
<1>12. CASE Join
  BY <1>12 DEF Join
<1>13. CASE JoinTwice
  BY <1>13 DEF JoinTwice
<1> HIDE DEF RenderInv, LockIsHeld, DrawingUsedRequest, RequestIsLate,
            ShowingIsDone, DoneIsIdle, KilledIsQuitting, UnseenIsLate, RenderTypeOK
<1> QED
  BY <1>1, <1>2, <1>3, <1>4, <1>5, <1>6, <1>7, <1>8, <1>9, <1>10, <1>11, <1>12, <1>13 DEF MainStep

\* Every step of the two threads keeps the invariant.
LEMMA StepRenderInv == RenderTypeOK /\ RenderInv /\ [RenderNext]_renderVars => RenderInv'
<1> SUFFICES ASSUME RenderTypeOK, RenderInv, [RenderNext]_renderVars PROVE RenderInv'
  OBVIOUS
<1>1. CASE UNCHANGED <<main, render, curr_line, flags, sync, shutdown, unseen>>
  BY <1>1 DEF RenderInv, LockIsHeld, DrawingUsedRequest, RequestIsLate,
       ShowingIsDone, DoneIsIdle, KilledIsQuitting, UnseenIsLate, flags, sync
<1>2. CASE UserActs \/ Stopped \/ UNCHANGED renderVars
  BY <1>1, <1>2 DEF UserActs, Stopped, renderVars
<1> QED
  BY <1>2, RenderKeepsInv, MainKeepsInv DEF RenderNext

\* The hand-over invariant holds throughout.
THEOREM HandOver == RenderSpec => []RenderInv
<1>1. RenderInit => RenderInv
  BY DEF RenderInit, RenderInv, LockIsHeld, DrawingUsedRequest, RequestIsLate, Showing,
         ShowingIsDone, DoneIsIdle, KilledIsQuitting, UnseenIsLate
<1> QED
  BY <1>1, TypeCorrect, StepRenderInv, PTL DEF RenderSpec

\* A picture is torn only when its successor was asked for before it was shown.
THEOREM TornPicturesAreLate == RenderSpec => []TornOnlyWhenLate
<1>1. RenderInv => TornOnlyWhenLate
  BY DEF RenderInv, DrawingUsedRequest, ShowingIsDone, DoneIsIdle, Showing,
         TornOnlyWhenLate
<1> QED
  BY <1>1, HandOver, PTL


\* Torn pictures, and flags of finished pictures that are wiped out before they
\* are shown, occur in the tick that asked for the next picture and nowhere else.
THEOREM LostPicturesAreLate == RenderSpec => LossesAreLate
<1>1. RenderInv => TornOnlyWhenLate
  BY DEF RenderInv, DrawingUsedRequest, ShowingIsDone, DoneIsIdle, Showing,
         TornOnlyWhenLate
<1>2. RenderInv /\ [RenderNext]_renderVars => [TornOnlyWhenLate /\ DroppedOnlyWhenLate]_renderVars
  <2> SUFFICES ASSUME RenderInv, RenderNext, unseen /\ renderDone /\ ~renderDone'
               PROVE  curr_line = RenderLine + 1
    BY <1>1 DEF DroppedOnlyWhenLate
  <2>1. CASE EndFlip \/ ClearDone
    BY <2>1 DEF EndFlip, ClearDone, RenderInv, UnseenIsLate
  <2>2. CASE UNCHANGED renderDone \/ renderDone' = TRUE
    BY <2>2
  <2> QED
    BY <2>1, <2>2 DEF RenderNext, UserActs, Stopped, renderVars, flags, RenderStep, MainStep,
         RenderLoop, RenderLock, RenderTest, RenderWake, RenderWakeSpuriously,
         RenderFinish, RenderUnlock, BeginTick, RequestFrame, NotifyFrame,
         CheckDone, PollEvent, BeginFlip, EndTick, QuitRequest, QuitNotify,
         Join, JoinTwice
<1> QED
  BY <1>2, HandOver, PTL DEF RenderSpec, LossesAreLate

\* The main loop never emulates on without a render thread.
THEOREM NoTickAfterKill == RenderSpec => []NoTickAfterShutdown
<1>1. RenderInv => NoTickAfterShutdown
  BY DEF RenderInv, KilledIsQuitting, NoTickAfterShutdown
<1> QED
  BY <1>1, HandOver, PTL

------------------------------------------------------------------------------
(* BlnDma: pixels and memories. *)

Memory == [Addresses -> Pixel]

\* A pixel is a number of 16 bits.
LEMMA PixelNumbers ==
  /\ Pixel \subseteq Nat
  /\ \A v \in Int : v \in Pixel <=> 0 <= v /\ v <= 65535
<1>1. PixelTop \in Nat /\ PixelTop = 65535
  BY DEF PixelTop
<1>2. \A v \in Int : v \in Pixel <=> 0 <= v /\ v <= PixelTop
  <2> HIDE DEF PixelTop
  <2> QED
    BY <1>1 DEF Pixel
<1>3. Pixel \subseteq Nat
  BY <1>1 DEF Pixel
<1> QED
  BY <1>1, <1>2, <1>3

\* Sixteen bits are a pixel, whichever are ones.
LEMMA NumberIsPixel ==
  ASSUME NEW ones
  PROVE  Number(ones) \in Pixel
<1> DEFINE digit(k) == IF k \in ones THEN Weight[k + 1] ELSE 0
           fits(n, top) == n \in Int /\ 0 <= n /\ n <= top
<1>1. /\ fits(digit(0), 1) /\ fits(digit(1), 2) /\ fits(digit(2), 4)
      /\ fits(digit(3), 8) /\ fits(digit(4), 16) /\ fits(digit(5), 32)
      /\ fits(digit(6), 64) /\ fits(digit(7), 128)
  BY DEF Weight
<1>2. /\ fits(digit(8), 256) /\ fits(digit(9), 512) /\ fits(digit(10), 1024)
      /\ fits(digit(11), 2048) /\ fits(digit(12), 4096) /\ fits(digit(13), 8192)
      /\ fits(digit(14), 16384) /\ fits(digit(15), 32768)
  BY DEF Weight
<1>3. Number(ones) =
        digit(0) + digit(1) + digit(2) + digit(3) + digit(4) + digit(5) + digit(6)
        + digit(7) + digit(8) + digit(9) + digit(10) + digit(11) + digit(12)
        + digit(13) + digit(14) + digit(15)
  BY DEF Number
<1> HIDE DEF digit
<1> DEFINE n0 == digit(0) + digit(1) + digit(2) + digit(3)
           n1 == digit(4) + digit(5) + digit(6) + digit(7)
           n2 == digit(8) + digit(9) + digit(10) + digit(11)
           n3 == digit(12) + digit(13) + digit(14) + digit(15)
<1>4. fits(n0, 15) /\ fits(n1, 240)
  BY <1>1
<1>5. fits(n2, 3840) /\ fits(n3, 61440)
  BY <1>2
<1>6. Number(ones) = n0 + n1 + n2 + n3
  BY <1>1, <1>2, <1>3
<1> HIDE DEF n0, n1, n2, n3
<1> QED
  BY <1>4, <1>5, <1>6, PixelNumbers

\* What a turn loads is a pixel, inside a block and outside.
LEMMA LoadedIsPixel ==
  ASSUME NEW m \in Memory, NEW at \in Addresses \cup {-1}
  PROVE  Load(m, at) \in Pixel
<1>1. 0 \in Pixel
  BY PixelNumbers
<1>2. at # -1 => m[at] \in Pixel
  BY DEF Memory
<1> QED
  BY <1>1, <1>2 DEF Load

\* The channels of a pixel, narrower by one bit for green in ARGB1555.
LEMMA ChannelsOfPixel ==
  ASSUME NEW t \in Transfer, NEW v \in Pixel
  PROVE  LET c == Channels(t, v)
         IN  /\ c.r \in 0..31 /\ c.b \in 0..31
             /\ c.g \in 0..(IF t.argb THEN 31 ELSE 63)
BY PixelNumbers DEF Channels

\* Both factors have six bits.
LEMMA MixedIsNumber ==
  ASSUME NEW t \in Transfer, NEW ca \in 0..63, NEW cb \in 0..63
  PROVE  /\ Mixed(t, ca, cb) \in Int
         /\ \A top \in {31, 63} : ca <= top /\ cb <= top /\ InRange(t)
                                  => Mixed(t, ca, cb) \in 0..top
<1>1. /\ t.fa \in 0..63 /\ t.fb \in 0..63 /\ t.sub \in BOOLEAN
  BY DEF Transfer
<1> DEFINE pa == ca * t.fa
           pb == cb * t.fb
<1>2. pa \in Nat /\ pb \in Nat /\ (t.fb = 0 => pb = 0)
  BY <1>1
<1>3. ASSUME NEW top \in {31, 63}, ca <= top, cb <= top
      PROVE  pa <= top * t.fa /\ pb <= top * t.fb
  BY <1>1, <1>3
<1>4. Mixed(t, ca, cb) = (IF t.sub THEN pa - pb ELSE pa + pb) \div 64
  BY DEF Mixed
<1> HIDE DEF pa, pb
<1>5. ASSUME NEW top \in {31, 63}, ca <= top, cb <= top, InRange(t)
      PROVE  Mixed(t, ca, cb) \in 0..top
  <2>1. CASE t.sub
    <3>1. pb = 0 /\ pa <= top * 63
      BY <1>1, <1>2, <1>3, <1>5, <2>1 DEF InRange
    <3> QED
      BY <1>2, <1>4, <2>1, <3>1
  <2>2. CASE ~t.sub
    <3>1. pa + pb <= top * 64
      <4>1. t.fa + t.fb <= 64
        BY <1>5, <2>2 DEF InRange
      <4>2. CASE top = 31
        BY <1>1, <1>2, <1>3, <1>5, <4>1, <4>2
      <4>3. CASE top = 63
        BY <1>1, <1>2, <1>3, <1>5, <4>1, <4>3
      <4> QED BY <4>2, <4>3
    <3> QED
      BY <1>2, <1>4, <2>2, <3>1
  <2> QED BY <1>1, <2>1, <2>2
<1>6. Mixed(t, ca, cb) \in Int
  BY <1>1, <1>2, <1>4
<1> QED
  BY <1>5, <1>6

\* Whatever is blended, 16 bits hold it.
LEMMA BlendedIsPixel ==
  ASSUME NEW t \in Transfer, NEW va \in Pixel, NEW vb \in Pixel
  PROVE  Blended(t, va, vb) \in Pixel
<1> DEFINE a == Channels(t, va)
           b == Channels(t, vb)
<1>1. \A v \in Pixel : LET c == Channels(t, v)
                       IN  c.r \in 0..63 /\ c.g \in 0..63 /\ c.b \in 0..63
  BY ChannelsOfPixel
<1> DEFINE red == Mixed(t, a.r, b.r) % 32
           green == Mixed(t, a.g, b.g) % 64
           blue == Mixed(t, a.b, b.b) % 32
<1>2. /\ Mixed(t, a.r, b.r) \in Int /\ Mixed(t, a.g, b.g) \in Int /\ Mixed(t, a.b, b.b) \in Int
  BY <1>1, MixedIsNumber
<1>3. red \in 0..31 /\ green \in 0..63 /\ blue \in 0..31
  BY <1>2
<1>4. Blended(t, va, vb) = Pack(t, red, green, blue)
  BY DEF Blended
<1> HIDE DEF red, green, blue
<1>5. CASE t.argb
  <2> DEFINE carry == IF green >= 32 /\ red % 2 = 0 THEN 1 ELSE 0
  <2>1. carry \in 0..1 /\ red + carry \in 0..31
    BY <1>3
  <2>2. green % 32 \in 0..31
    BY <1>3
  <2>3. Pack(t, red, green, blue) = (red + carry) * 1024 + (green % 32) * 32 + blue
    BY <1>5 DEF Pack
  <2> DEFINE r == red + carry
             g == green % 32
  <2>4. r \in 0..31 /\ g \in 0..31 /\ Blended(t, va, vb) = r * 1024 + g * 32 + blue
    BY <1>4, <2>1, <2>2, <2>3
  <2> HIDE DEF r, g
  <2> QED
    BY <1>3, <2>4, PixelNumbers
<1>6. CASE ~t.argb
  <2>1. Blended(t, va, vb) = red * 2048 + green * 32 + blue
    BY <1>4, <1>6 DEF Pack
  <2> QED
    BY <1>3, <2>1, PixelNumbers
<1> QED
  BY <1>5, <1>6

------------------------------------------------------------------------------
(* BlnDma: the loops of blndma_worker. *)

\* The column and the row of the turn with the number n.
ColumnOf(t, n) == Stride(t) * ((n - 1) % Columns(t))
RowOf(t, n) == (n - 1) \div Columns(t)
Turns(t) == Columns(t) * t.h

\* A row has an even column for every turn that descrambles, and else all columns.
LEMMA TurnsMeetPixels ==
  ASSUME NEW t \in Transfer
  PROVE  /\ Columns(t) \in Nat /\ Turns(t) \in Nat
         /\ \A n \in 1..Turns(t) :
              /\ Columns(t) > 0
              /\ ColumnOf(t, n) \in 0..(t.w - 1) /\ RowOf(t, n) \in 0..(t.h - 1)
              /\ Descrambling(t) => ColumnOf(t, n) % 2 = 0
              /\ n - 1 = RowOf(t, n) * Columns(t) + ((n - 1) % Columns(t))
<1> DEFINE c == Columns(t)
<1>1. t.w \in Nat /\ t.h \in Nat
  BY DEF Transfer
<1>2. /\ c \in Nat
      /\ Descrambling(t) => c = (t.w + 1) \div 2 /\ Stride(t) = 2
      /\ ~Descrambling(t) => c = t.w /\ Stride(t) = 1
  BY <1>1 DEF Columns, Stride
<1>3. Turns(t) = c * t.h /\ Turns(t) \in Nat
  BY <1>1, <1>2 DEF Turns
<1>4. ASSUME NEW n \in 1..Turns(t)
      PROVE  /\ c > 0
             /\ ColumnOf(t, n) \in 0..(t.w - 1) /\ RowOf(t, n) \in 0..(t.h - 1)
             /\ Descrambling(t) => ColumnOf(t, n) % 2 = 0
             /\ n - 1 = RowOf(t, n) * c + ((n - 1) % c)
  <2> DEFINE q == (n - 1) \div c
             r == (n - 1) % c
  <2> HIDE DEF c
  <2>1. n - 1 \in Nat /\ n - 1 < c * t.h
    BY <1>1, <1>2, <1>3
  <2>2. c > 0
    BY <1>1, <1>2, <2>1
  <2>3. q \in Nat /\ r \in 0..(c - 1) /\ n - 1 = q * c + r
    BY <1>2, <2>1, <2>2
  <2>4. ColumnOf(t, n) = Stride(t) * r /\ RowOf(t, n) = q
    BY DEF ColumnOf, RowOf, c
  <2> HIDE DEF q, r
  <2>5. q < t.h
    <3> SUFFICES ASSUME q >= t.h PROVE FALSE
      BY <1>1, <2>3
    <3>1. q * c >= t.h * c
      BY <1>1, <1>2, <2>3
    <3> QED
      BY <1>1, <1>2, <2>1, <2>3, <3>1
  <2>6. n - 1 = RowOf(t, n) * c + ((n - 1) % c)
    BY <2>3, <2>4 DEF r
  <2>7. CASE Descrambling(t)
    <3>1. 2 * c <= t.w + 1
      BY <1>1, <1>2, <2>7
    <3>2. 2 * r \in 0..(t.w - 1) /\ (2 * r) % 2 = 0
      BY <1>1, <1>2, <2>3, <3>1
    <3>3. ColumnOf(t, n) = 2 * r
      BY <1>2, <2>4, <2>7
    <3>4. RowOf(t, n) \in 0..(t.h - 1) /\ (n - 1) % c = r
      BY <1>1, <2>3, <2>4, <2>5 DEF r
    <3> QED
      BY <2>2, <2>6, <3>2, <3>3, <3>4
  <2>8. CASE ~Descrambling(t)
    <3>1. ColumnOf(t, n) = r /\ r \in 0..(t.w - 1)
      BY <1>1, <1>2, <2>3, <2>4, <2>8
    <3>2. RowOf(t, n) \in 0..(t.h - 1) /\ (n - 1) % c = r
      BY <1>1, <2>3, <2>4, <2>5 DEF r
    <3> QED
      BY <2>2, <2>6, <2>8, <3>1, <3>2
  <2> QED
    BY <2>7, <2>8
<1> QED
  BY <1>2, <1>3, <1>4

\* Within main RAM a turn makes a memory of a memory.
LEMMA TurnKeepsMemory ==
  ASSUME NEW t \in Transfer, StaysInMemory(t), t.mode # "idle", NEW m \in Memory,
         NEW x \in 0..(t.w - 1), NEW y \in 0..(t.h - 1), Descrambling(t) => x % 2 = 0
  PROVE  Turn(t, m, x, y) \in Memory
<1>1. \A s \in Uses(t) : GetAddress(t, s, x, y) \in Addresses \cup {-1}
  BY DEF StaysInMemory
<1>2. \A at : \A v \in Pixel : [m EXCEPT ![at] = v] \in Memory
  BY DEF Memory
<1>3. \A s, v \in Pixel : PutPixel(t, m, x, y, v) \in Memory
  BY <1>2 DEF PutPixel
<1>4. CASE Descrambling(t)
  <2>1. Turn(t, m, x, y) = DescramblePixels(t, m, x, y)
    BY <1>4 DEF Turn, Descrambling
  <2>2. ASSUME NEW to, NEW word
        PROVE  [m EXCEPT ![to] = LowHalf(word), ![to + 1] = HighHalf(word)] \in Memory
    <3>1. LowHalf(word) \in Pixel /\ HighHalf(word) \in Pixel
      BY NumberIsPixel DEF LowHalf, HighHalf
    <3>2. [m EXCEPT ![to] = LowHalf(word)] \in Memory
      BY <1>2, <3>1
    <3> QED
      BY <3>1, <3>2 DEF Memory
  <2> QED
    BY <2>1, <2>2 DEF DescramblePixels
<1>5. CASE t.mode = "copy" /\ ~Descrambling(t)
  <2>1. Turn(t, m, x, y) = CopyPixel(t, m, x, y)
    BY <1>5 DEF Turn, Descrambling, Transfer
  <2>2. Load(m, GetAddress(t, t.a, x, y)) \in Pixel
    BY <1>1, <1>5, LoadedIsPixel DEF Uses
  <2> QED
    BY <1>3, <2>1, <2>2 DEF CopyPixel
<1>6. CASE t.mode = "blend"
  <2>1. Turn(t, m, x, y) = BlendPixel(t, m, x, y)
    BY <1>6 DEF Turn, Descrambling
  <2>2. /\ Load(m, GetAddress(t, t.a, x, y)) \in Pixel
        /\ Load(m, GetAddress(t, t.b, x, y)) \in Pixel
    BY <1>1, <1>6, LoadedIsPixel DEF Uses
  <2> QED
    BY <1>3, <2>1, <2>2, BlendedIsPixel DEF BlendPixel
<1>7. CASE t.mode = "fill"
  <2>1. Turn(t, m, x, y) = PutPixel(t, m, x, y, t.fill)
    BY <1>7 DEF Turn, Descrambling
  <2> QED
    BY <1>3, <2>1 DEF Transfer
<1> QED
  BY <1>4, <1>5, <1>6, <1>7 DEF Transfer, Descrambling

\* The memory after every turn.
IsPainting(t, m, f) ==
  /\ f[0] = m
  /\ \A n \in 1..Turns(t) : f[n] = Turn(t, f[n - 1], ColumnOf(t, n), RowOf(t, n))

\* The loops make a memory in every turn.
LEMMA PaintedTurnByTurn ==
  ASSUME NEW t \in Transfer, StaysInMemory(t), t.mode # "idle", NEW m \in Memory
  PROVE  \E f \in [0..Turns(t) -> Memory] :
           IsPainting(t, m, f) /\ Painted(t, m) = f[Turns(t)]
<1> DEFINE N == Turns(t)
           After(n, s) == Turn(t, s, ColumnOf(t, n), RowOf(t, n))
           turn == [p \in (1..N) \X Memory |-> After(p[1], p[2])]
           after[n \in 0..(Columns(t) * t.h)] ==
             IF n = 0 THEN m
             ELSE Turn(t, after[n - 1],
                       Stride(t) * ((n - 1) % Columns(t)), (n - 1) \div Columns(t))
<1>1. N \in Nat
  BY TurnsMeetPixels
<1>2. ASSUME NEW n \in 1..N, NEW s \in Memory
      PROVE  After(n, s) \in Memory
  BY TurnsMeetPixels, TurnKeepsMemory
<1>3. after = [n \in 0..N |-> IF n = 0 THEN m ELSE After(n, after[n - 1])]
  <2>1. \E f : f = [n \in 0..N |-> IF n = 0 THEN m ELSE After(n, f[n - 1])]
    <3>1. turn \in [(1..N) \X Memory -> Memory]
      <4> HIDE DEF After, N
      <4> QED
        BY <1>2
    <3>2. \A n \in 1..N, s \in Memory : turn[<<n, s>>] = After(n, s)
      <4> HIDE DEF After, N
      <4> QED
        OBVIOUS
    <3> HIDE DEF N, turn, After
    <3>3. PICK f \in [0..N -> Memory] : Outcomes(f, m, turn, N)
      BY <1>1, <3>1, LoopExists
    <3>4. \A n \in 0..N : n # 0 => n \in 1..N /\ n - 1 \in 0..N
      BY <1>1
    <3>5. \A n \in 0..N : f[n] = IF n = 0 THEN m ELSE After(n, f[n - 1])
      BY <3>2, <3>3, <3>4 DEF Outcomes
    <3>6. f = [n \in 0..N |-> IF n = 0 THEN m ELSE After(n, f[n - 1])]
      BY <3>3, <3>5
    <3> QED
      BY <3>6
  <2> QED
    BY <2>1 DEF Turns, ColumnOf, RowOf
<1>4. Painted(t, m) = after[N]
  <2> HIDE DEF after
  <2> QED
    BY DEF Painted, Turns, after
<1> HIDE DEF after
<1>5. after[0] = m /\ \A n \in 1..N : after[n] = After(n, after[n - 1])
  <2> HIDE DEF After, N
  <2>1. 0 \in 0..N /\ \A n \in 1..N : n \in 0..N /\ n # 0
    BY <1>1
  <2> QED
    BY <1>3, <2>1
<1>6. \A n \in 0..N : after[n] \in Memory
  <2> DEFINE Good == {n \in 0..N : after[n] \in Memory}
  <2>1. 0 \in Good /\ Good \in SUBSET Nat
    BY <1>1, <1>5
  <2>2. \A n \in 1..N : n - 1 \in Good => n \in Good
    <3> HIDE DEF After, N
    <3> QED
      BY <1>1, <1>2, <1>5
  <2>3. 0..N \subseteq Good
    <3> HIDE DEF Good, N
    <3> QED
      BY <1>1, <2>1, <2>2, TurnByTurn
  <2> QED
    BY <2>3
<1>7. after \in [0..N -> Memory]
  <2> HIDE DEF After, N
  <2> QED
    BY <1>3, <1>6
<1> QED
  BY <1>4, <1>5, <1>7 DEF IsPainting

------------------------------------------------------------------------------
(* BlnDma: the bits a guest waits for. *)

\* Every outcome of a transfer is a memory.
LEMMA ResultIsMemory ==
  ASSUME NEW t \in Transfers, NEW m \in Memory
  PROVE  Result(t, m) \in Memory
<1>1. t \in Transfer /\ StaysInMemory(t)
  BY BlnAssumption
<1>2. CASE t.mode = "idle"
  BY <1>2 DEF Result, Painted
<1>3. CASE t.mode # "idle"
  <2>1. PICK f \in [0..Turns(t) -> Memory] : Painted(t, m) = f[Turns(t)]
    BY <1>1, <1>3, PaintedTurnByTurn
  <2>2. Turns(t) \in 0..Turns(t)
    BY <1>1, TurnsMeetPixels
  <2> QED
    BY <2>1, <2>2 DEF Result
<1> QED
  BY <1>2, <1>3

\* The invariant holds at first.
LEMMA BlnInitial == BlnInit => BlnInv
<1>1. PicInit \in PicState /\ PicInit.pending = {}
  BY InitialPic DEF PicInit
<1>2. 0 \in 0..MaxPaints /\ Pictures \subseteq [Addresses -> Pixel]
  BY BlnAssumption
<1> QED
  BY <1>1, <1>2 DEF BlnInit, BlnInv, BlnTypeOK, WaitIsExplained

\* Every store, drawing, entry and reset keeps the invariant.
LEMMA BlnStep == BlnInv /\ [BlnNext]_blnVars => BlnInv'
<1> SUFFICES ASSUME BlnInv, [BlnNext]_blnVars PROVE BlnInv'
  OBVIOUS
<1> USE DEF BlnInv, BlnTypeOK, WaitIsExplained
<1>1. BlnLine \in IRQ /\ blnPic \in PicState /\ MaxPaints \in Nat
  BY BlnAssumption
<1>2. ASSUME NEW t \in Transfers, Go(t) PROVE BlnInv'
  <2>1. mem' \in [Addresses -> Pixel]
    BY <1>2, ResultIsMemory DEF Go, Memory
  <2>2. start' = given' /\ start' \in BOOLEAN /\ intEn' \in BOOLEAN
    BY <1>2 DEF Go, GivenUp
  <2>3. paints' \in 0..MaxPaints
    BY <1>1, <1>2 DEF Go
  <2>4. /\ blnPic' \in PicState /\ finished' \in BOOLEAN
        /\ BlnLine \in blnPic'.pending <=> finished'
    <3>1. CASE intEn /\ ~GivenUp(t)
      <4>1. blnPic' = SetIRQState(blnPic, BlnLine, TRUE) /\ finished'
        BY <1>2, <3>1 DEF Go
      <4>2. blnPic' \in PicState /\ blnPic'.pending = blnPic.pending \cup {BlnLine}
        BY <1>1, <4>1, RaiseEffect
      <4>3. finished' = TRUE
        BY <1>2, <3>1 DEF Go
      <4> QED
        BY <4>2, <4>3
    <3>2. CASE ~(intEn /\ ~GivenUp(t))
      BY <1>2, <3>2 DEF Go
    <3> QED BY <3>1, <3>2
  <2> QED
    BY <2>1, <2>2, <2>3, <2>4
<1>3. CASE Stop
  BY <1>3 DEF Stop
<1>4. ASSUME NEW enable \in BOOLEAN, NEW clear \in BOOLEAN, WriteIrqCtrl(enable, clear)
      PROVE  BlnInv'
  <2>1. intEn' \in BOOLEAN /\ UNCHANGED <<mem, start, given, paints>>
    BY <1>4 DEF WriteIrqCtrl
  <2>2. CASE clear
    <3>1. blnPic' = SetIRQState(blnPic, BlnLine, FALSE) /\ finished' = FALSE
      BY <1>4, <2>2 DEF WriteIrqCtrl
    <3>2. blnPic' \in PicState /\ blnPic'.pending = blnPic.pending \ {BlnLine}
      BY <1>1, <3>1, LowerEffect
    <3> QED
      BY <2>1, <3>1, <3>2
  <2>3. CASE ~clear
    BY <1>4, <2>1, <2>3 DEF WriteIrqCtrl
  <2> QED BY <2>2, <2>3
<1>5. CASE BlnSoftReset
  <2>1. blnPic' \in PicState /\ blnPic'.pending = {}
    BY <1>1, <1>5, ResetEffect DEF BlnSoftReset
  <2> QED
    BY <1>5, <2>1 DEF BlnSoftReset
<1>6. CASE Draw
  BY <1>1, <1>6, BlnAssumption DEF Draw
<1>7. CASE BlnCpuTakes
  <2>1. blnPic' \in PicState /\ blnPic'.pending = blnPic.pending
    BY <1>1, <1>7 DEF BlnCpuTakes, PicState
  <2> QED
    BY <1>7, <2>1 DEF BlnCpuTakes
<1>8. CASE UNCHANGED blnVars
  BY <1>8 DEF blnVars
<1> QED
  BY <1>2, <1>3, <1>4, <1>5, <1>6, <1>7, <1>8 DEF BlnNext

(* The start bit stays on only after a transfer that was given up, and the    *)
(* line is up exactly when one finished with its interrupt enabled: for any   *)
(* transfers blndma_worker is asked for within main RAM, and any memory.      *)
THEOREM WaitsAreExplained == BlnSpec => []BlnInv
<1>1. BlnInit => BlnInv
  BY BlnInitial
<1>2. BlnInv /\ [BlnNext]_blnVars => BlnInv'
  BY BlnStep
<1> QED
  BY <1>1, <1>2, PTL DEF BlnSpec

------------------------------------------------------------------------------
(* BlnDma: halfwords and the pixels they hold. *)

\* The row and the column of a number, and back.
LEMMA CellOfRow ==
  ASSUME NEW w \in Nat, w > 0, NEW x \in Nat, x < w, NEW y \in Nat
  PROVE  (w * y + x) \div w = y /\ (w * y + x) % w = x
OBVIOUS

LEMMA RowOfCell ==
  ASSUME NEW w \in Nat, w > 0, NEW a \in Int
  PROVE  a = w * (a \div w) + (a % w) /\ a % w \in 0..(w - 1) /\ a \div w \in Int
OBVIOUS

\* The halfword of a pixel is in the place of the pixel, and no other is.
LEMMA LinearPlace ==
  ASSUME NEW t \in Transfer, NEW s \in Source, ~s.block,
         NEW x \in 0..(t.w - 1), NEW y \in 0..(t.h - 1)
  PROVE  LET at == GetAddress(t, s, x, y)
         IN  /\ at = s.first + t.w * y + x /\ at \in Nat
             /\ Place(t, s, at) = <<x, y>>
             /\ \A a \in Addresses : Place(t, s, a) = <<x, y>> => a = at
<1> DEFINE w == t.w
           n == w * y + x
           at == s.first + n
<1>1. w \in Nat /\ w > 0 /\ t.h \in Nat /\ s.first \in Nat /\ x \in Nat /\ y \in Nat
      /\ n \in Nat /\ x < w
  BY DEF Transfer, Source
<1>2. GetAddress(t, s, x, y) = at /\ at \in Nat
  BY <1>1 DEF GetAddress
<1>3. n \div w = y /\ n % w = x
  <2> HIDE DEF w
  <2> QED
    BY <1>1, CellOfRow
<1>4. at - s.first = n
  BY <1>1
<1>5. Place(t, s, at) = <<x, y>>
  BY <1>3, <1>4 DEF Place
<1>6. ASSUME NEW a \in Addresses, Place(t, s, a) = <<x, y>>
      PROVE  a = at
  <2> DEFINE b == a - s.first
  <2>1. a \in Int /\ b \in Int
    BY <1>1, BlnAssumption DEF Addresses
  <2>2. b % w = x /\ b \div w = y
    BY <1>6 DEF Place
  <2>3. b = w * (b \div w) + (b % w)
    <3> HIDE DEF w, b
    <3> QED
      BY <1>1, <2>1, RowOfCell
  <2>4. b = n
    BY <2>2, <2>3
  <2> QED
    BY <1>1, <2>1, <2>4
<1> QED
  BY <1>1, <1>2, <1>5, <1>6

\* In a block too, unless the pixel is cut off.
LEMMA BlockPlace ==
  ASSUME NEW t \in Transfer, NEW s \in Source, s.block,
         NEW x \in 0..(t.w - 1), NEW y \in 0..(t.h - 1)
  PROVE  LET at == GetAddress(t, s, x, y)
             end == t.block.base + t.block.w * t.block.h
         IN  /\ at \in Nat \cup {-1}
             /\ at # -1 => Place(t, s, at) = <<x, y>> /\ at < end
             /\ \A a \in Addresses : Place(t, s, a) = <<x, y>> /\ a < end => a = at
<1> DEFINE w == t.block.w
           h == t.block.h
           bx == x + t.block.offx
           by == y + t.block.offy
           n == w * by + bx
           base == t.block.base
           at == GetAddress(t, s, x, y)
<1>1. /\ w \in Nat /\ w > 0 /\ h \in Nat /\ base \in Nat
      /\ t.block.offx \in Nat /\ t.block.offy \in Nat
  BY DEF Transfer, Block
<1>2. t.w \in Nat /\ t.h \in Nat /\ x \in Nat /\ y \in Nat
  BY DEF Transfer
<1>3. bx \in Nat /\ by \in Nat /\ n \in Nat
  BY <1>1, <1>2
<1>4. at = IF bx >= w \/ by >= h THEN -1 ELSE base + n
  <2>1. at = IF bx >= w \/ by >= h THEN -1 ELSE base + w * by + bx
    BY DEF GetAddress
  <2>2. base + w * by + bx = base + n
    BY <1>1, <1>3
  <2> QED
    BY <2>1, <2>2
<1>5. \A k \in Nat : k < h => w * k + w <= w * h
  BY <1>1
<1>6. ASSUME at # -1
      PROVE  Place(t, s, at) = <<x, y>> /\ at < base + w * h
  <2>1. bx < w /\ by < h /\ at = base + n
    BY <1>1, <1>3, <1>4, <1>6
  <2>2. n \div w = by /\ n % w = bx
    <3> HIDE DEF w, bx, by
    <3> QED
      BY <1>1, <1>3, <2>1, CellOfRow
  <2>3. at - base = n
    BY <1>1, <1>3, <2>1
  <2>4. Place(t, s, at) = <<bx - t.block.offx, by - t.block.offy>>
    BY <2>2, <2>3 DEF Place
  <2>5. bx - t.block.offx = x /\ by - t.block.offy = y
    BY <1>1, <1>2
  <2>6. w * by + w <= w * h
    BY <1>3, <1>5, <2>1
  <2> QED
    BY <1>1, <1>3, <2>1, <2>4, <2>5, <2>6
<1>7. ASSUME NEW a \in Addresses, Place(t, s, a) = <<x, y>>, a < base + w * h
      PROVE  a = at
  <2> DEFINE b == a - base
  <2>1. a \in Int /\ b \in Int
    BY <1>1, BlnAssumption DEF Addresses
  <2>2. (b % w) - t.block.offx = x /\ (b \div w) - t.block.offy = y
    BY <1>7 DEF Place
  <2>3. /\ b = w * (b \div w) + (b % w)
        /\ b % w \in 0..(w - 1) /\ b \div w \in Int
    <3> HIDE DEF w, b
    <3> QED
      BY <1>1, <2>1, RowOfCell
  <2>4. b % w = bx /\ b \div w = by
    BY <1>1, <1>2, <2>2, <2>3
  <2>5. b = n /\ bx < w
    BY <1>1, <2>3, <2>4
  <2>6. by < h
    <3> SUFFICES ASSUME by >= h PROVE FALSE
      BY <1>1, <1>3
    <3>1. w * by >= w * h
      BY <1>1, <1>3
    <3> QED
      BY <1>1, <1>3, <1>7, <2>1, <2>5, <3>1
  <2> QED
    BY <1>1, <1>3, <1>4, <2>1, <2>5, <2>6
<1>8. at \in Nat \cup {-1}
  BY <1>1, <1>3, <1>4
<1> QED
  BY <1>6, <1>7, <1>8

\* In both modes.
LEMMA PixelPlace ==
  ASSUME NEW t \in Transfer, NEW s \in Source,
         NEW x \in 0..(t.w - 1), NEW y \in 0..(t.h - 1)
  PROVE  LET at == GetAddress(t, s, x, y)
         IN  /\ at \in Nat \cup {-1}
             /\ at \in Addresses => at \in Cells(t, s) /\ Place(t, s, at) = <<x, y>>
             /\ \A a \in Cells(t, s) : Place(t, s, a) = <<x, y>> => a = at
<1>1. <<x, y>> \in (0..(t.w - 1)) \X (0..(t.h - 1))
  OBVIOUS
<1>2. s.block \in BOOLEAN /\ Addresses \subseteq Nat
  BY BlnAssumption DEF Source, Addresses
<1>3. CASE s.block
  BY <1>1, <1>2, <1>3, BlockPlace DEF Cells
<1>4. CASE ~s.block
  BY <1>1, <1>2, <1>4, LinearPlace DEF Cells
<1> QED
  BY <1>2, <1>3, <1>4

\* A pixel of a picture is what a turn loads for it.
LEMMA PixelIsLoaded ==
  ASSUME NEW t \in Transfer, NEW s \in Source, NEW m,
         NEW x \in 0..(t.w - 1), NEW y \in 0..(t.h - 1),
         GetAddress(t, s, x, y) \in Addresses \cup {-1}
  PROVE  PixelAt(t, s, m, <<x, y>>) = Load(m, GetAddress(t, s, x, y))
<1> DEFINE at == GetAddress(t, s, x, y)
           Held(a) == Place(t, s, a) = <<x, y>>
<1>1. \A a \in Cells(t, s) : Held(a) => a = at
  BY PixelPlace
<1>2. -1 \notin Addresses
  BY BlnAssumption DEF Addresses
<1>3. CASE at = -1
  <2>1. ~ \E a \in Cells(t, s) : Held(a)
    BY <1>1, <1>2, <1>3 DEF Cells
  <2> QED
    BY <1>3, <2>1 DEF PixelAt, Load
<1>4. CASE at # -1
  <2>1. at \in Cells(t, s) /\ Held(at)
    BY <1>4, PixelPlace
  <2> HIDE DEF Held, at
  <2>2. (CHOOSE a \in Cells(t, s) : Held(a)) = at
    BY <1>1, <2>1
  <2> QED
    BY <1>4, <2>1, <2>2 DEF PixelAt, Load, Held, at
<1> QED
  BY <1>3, <1>4

------------------------------------------------------------------------------
(* BlnDma: the order in which a destination is written. *)

\* The number of a halfword of the destination, row by row.
Order(t, a) == t.w * Place(t, t.d, a)[2] + Place(t, t.d, a)[1]

\* The numbers follow the turns, and no two halfwords share one.
LEMMA OrderOfCells ==
  ASSUME NEW t \in Transfer, NEW a \in Cells(t, t.d)
  PROVE  /\ Order(t, a) \in 0..(t.w * t.h - 1)
         /\ \A x \in 0..(t.w - 1), y \in 0..(t.h - 1) :
              Order(t, a) = t.w * y + x <=> a = GetAddress(t, t.d, x, y)
<1>1. t.w \in Nat /\ t.h \in Nat /\ t.d \in Source
  BY DEF Transfer
<1>2. PICK px \in 0..(t.w - 1), py \in 0..(t.h - 1) : Place(t, t.d, a) = <<px, py>>
  BY DEF Cells
<1>3. Order(t, a) = t.w * py + px
  BY <1>2 DEF Order
<1>4. px \in Nat /\ py \in Nat /\ px < t.w /\ py < t.h
  BY <1>1
<1>5. Order(t, a) \in 0..(t.w * t.h - 1)
  <2>1. t.w * py + t.w <= t.w * t.h
    BY <1>1, <1>4
  <2> QED
    BY <1>1, <1>3, <1>4, <2>1
<1>6. a \in Addresses /\ Addresses \subseteq Nat
  BY BlnAssumption DEF Cells, Addresses
<1>7. ASSUME NEW x \in 0..(t.w - 1), NEW y \in 0..(t.h - 1)
      PROVE  Order(t, a) = t.w * y + x <=> a = GetAddress(t, t.d, x, y)
  <2>1. ASSUME Order(t, a) = t.w * y + x PROVE a = GetAddress(t, t.d, x, y)
    <3> DEFINE w == t.w
    <3>1. w * y + x = w * py + px /\ w \in Nat /\ w > 0 /\ x \in Nat /\ x < w /\ y \in Nat
      BY <1>1, <1>3, <1>4, <2>1
    <3>2. px \in Nat /\ px < w /\ py \in Nat
      BY <1>4
    <3> HIDE DEF w
    <3>3. (w * y + x) \div w = y /\ (w * y + x) % w = x
      BY <3>1, CellOfRow
    <3>4. (w * py + px) \div w = py /\ (w * py + px) % w = px
      BY <3>1, <3>2, CellOfRow
    <3>5. x = px /\ y = py
      BY <3>1, <3>3, <3>4
    <3> QED
      BY <1>1, <1>2, <3>5, PixelPlace
  <2>2. ASSUME a = GetAddress(t, t.d, x, y) PROVE Order(t, a) = t.w * y + x
    <3>1. Place(t, t.d, a) = <<x, y>>
      BY <1>1, <1>6, <2>2, PixelPlace
    <3> QED
      BY <3>1 DEF Order
  <2> QED
    BY <2>1, <2>2
<1> QED
  BY <1>5, <1>7

\* What a turn reads of a source that is read in time was not written before it.
LEMMA ReadBeforeWritten ==
  ASSUME NEW t \in Transfer, NEW s \in Source, ReadInTime(t, s),
         NEW x \in 0..(t.w - 1), NEW y \in 0..(t.h - 1),
         GetAddress(t, s, x, y) \in Cells(t, t.d)
  PROVE  Order(t, GetAddress(t, s, x, y)) >= t.w * y + x
<1> DEFINE at == GetAddress(t, s, x, y)
<1>1. /\ t.w \in Nat /\ t.w > 0 /\ t.h \in Nat /\ t.d \in Source
      /\ x \in Nat /\ y \in Nat /\ s.block \in BOOLEAN /\ t.d.block \in BOOLEAN
  BY DEF Transfer, Source
<1>2. at \in Addresses
  BY DEF Cells
<1>3. CASE s.block /\ t.d.block
  <2>1. at = GetAddress(t, t.d, x, y)
    BY <1>3 DEF GetAddress
  <2>2. Order(t, at) = t.w * y + x
    BY <2>1, OrderOfCells
  <2> QED
    BY <1>1, <2>2
<1>4. CASE ~s.block /\ ~t.d.block /\ t.d.first <= s.first
  <2> DEFINE b == at - t.d.first
             w == t.w
             n == w * y + x
  <2>1. s.first \in Nat /\ t.d.first \in Nat /\ w \in Nat /\ w > 0 /\ n \in Nat
    BY <1>1 DEF Source
  <2>2. at = s.first + t.w * y + x
    BY <1>4, LinearPlace
  <2>3. at = s.first + n
    BY <1>1, <2>1, <2>2
  <2>4. Order(t, at) = w * (b \div w) + (b % w)
    BY <1>4 DEF Order, Place
  <2> HIDE DEF w, n, at
  <2>5. b \in Int /\ b >= n
    BY <1>4, <2>1, <2>3
  <2> HIDE DEF b
  <2>6. b = w * (b \div w) + (b % w)
    BY <2>1, <2>5, RowOfCell
  <2>7. Order(t, at) >= n
    BY <2>4, <2>5, <2>6
  <2> QED
    BY <2>7 DEF at, n, w
<1>5. CASE Cells(t, s) \cap Cells(t, t.d) = {}
  BY <1>2, <1>5, PixelPlace
<1> QED
  BY <1>3, <1>4, <1>5 DEF ReadInTime

\* The first k halfwords of the destination are painted, and nothing else is changed.
PaintedUpTo(t, m, g, k) ==
  \A a \in Addresses :
    g[a] = IF a \in Cells(t, t.d) /\ Order(t, a) < k THEN Ideal(t, m, a) ELSE m[a]

\* One pixel more.
LEMMA OneMore ==
  ASSUME NEW t \in Transfer, NEW m \in Memory, NEW g, NEW h,
         NEW x \in 0..(t.w - 1), NEW y \in 0..(t.h - 1),
         PaintedUpTo(t, m, g, t.w * y + x),
         \A a \in Addresses :
           h[a] = IF a = GetAddress(t, t.d, x, y) THEN Ideal(t, m, a) ELSE g[a]
  PROVE  PaintedUpTo(t, m, h, t.w * y + x + 1)
<1> DEFINE k == t.w * y + x
<1>1. k \in Nat /\ t.d \in Source
  BY DEF Transfer
<1> SUFFICES ASSUME NEW a \in Addresses
             PROVE  h[a] = IF a \in Cells(t, t.d) /\ Order(t, a) < k + 1
                             THEN Ideal(t, m, a) ELSE m[a]
  BY DEF PaintedUpTo
<1>2. g[a] = IF a \in Cells(t, t.d) /\ Order(t, a) < k THEN Ideal(t, m, a) ELSE m[a]
  BY DEF PaintedUpTo
<1>3. CASE a = GetAddress(t, t.d, x, y)
  <2>1. a \in Cells(t, t.d)
    BY <1>1, <1>3, PixelPlace
  <2>2. Order(t, a) = k
    BY <1>3, <2>1, OrderOfCells
  <2> HIDE DEF k
  <2> QED
    BY <1>1, <1>3, <2>1, <2>2
<1>4. CASE a # GetAddress(t, t.d, x, y)
  <2>1. a \in Cells(t, t.d) => Order(t, a) \in Nat /\ Order(t, a) # k
    BY <1>4, OrderOfCells
  <2> HIDE DEF k
  <2>2. a \in Cells(t, t.d) => (Order(t, a) < k + 1 <=> Order(t, a) < k)
    BY <1>1, <2>1
  <2> QED
    BY <1>2, <1>4, <2>2
<1> QED
  BY <1>3, <1>4

------------------------------------------------------------------------------
(* BlnDma: a turn paints its pixel. *)

\* With factors in range no channel leaves its width.
LEMMA BlendIsIdeal ==
  ASSUME NEW t \in Transfer, InRange(t), NEW va \in Pixel, NEW vb \in Pixel
  PROVE  Blended(t, va, vb) = IdealBlend(t, va, vb)
<1> DEFINE a == Channels(t, va)
           b == Channels(t, vb)
           red == Mixed(t, a.r, b.r)
           green == Mixed(t, a.g, b.g)
           blue == Mixed(t, a.b, b.b)
           top == IF t.argb THEN 31 ELSE 63
<1>1. /\ a.r \in 0..31 /\ a.b \in 0..31 /\ a.g \in 0..top
      /\ b.r \in 0..31 /\ b.b \in 0..31 /\ b.g \in 0..top
  BY ChannelsOfPixel
<1>2. red \in 0..31 /\ green \in 0..top /\ blue \in 0..31
  <2> HIDE DEF a, b
  <2>1. ASSUME NEW n \in {31, 63}, NEW ca \in 0..n, NEW cb \in 0..n
        PROVE  Mixed(t, ca, cb) \in 0..n
    <3>1. ca \in 0..63 /\ cb \in 0..63 /\ ca <= n /\ cb <= n
      OBVIOUS
    <3> QED
      BY <3>1, MixedIsNumber
  <2>2. top \in {31, 63} /\ 31 \in {31, 63}
    OBVIOUS
  <2> QED
    <3> HIDE DEF top
    <3> QED
      BY <1>1, <2>1, <2>2
<1>3. Blended(t, va, vb) = Pack(t, red % 32, green % 64, blue % 32)
  BY DEF Blended
<1>4. IdealBlend(t, va, vb) =
        Saturated(red, 31) * (IF t.argb THEN 1024 ELSE 2048)
        + Saturated(green, IF t.argb THEN 31 ELSE 63) * 32 + Saturated(blue, 31)
  BY DEF IdealBlend
<1> HIDE DEF red, green, blue
<1>5. red % 32 = red /\ green % 64 = green /\ blue % 32 = blue
  BY <1>2
<1>6. Saturated(red, 31) = red /\ Saturated(green, top) = green /\ Saturated(blue, 31) = blue
  BY <1>2 DEF Saturated
<1>7. CASE t.argb
  <2>1. ~(green >= 32) /\ green % 32 = green
    BY <1>2, <1>7
  <2>2. Pack(t, red, green, blue) = (red + 0) * 1024 + green * 32 + blue
    BY <1>7, <2>1 DEF Pack
  <2>3. red + 0 = red
    BY <1>2
  <2> QED
    BY <1>3, <1>4, <1>5, <1>6, <1>7, <2>2, <2>3
<1>8. CASE ~t.argb
  BY <1>3, <1>4, <1>5, <1>6, <1>8 DEF Pack
<1> QED
  BY <1>7, <1>8

\* A source that is read in time still holds what it held at first.
LEMMA LoadsTheFirst ==
  ASSUME NEW t \in Transfer, StaysInMemory(t), NEW s \in Uses(t), s \in Source,
         ReadInTime(t, s), NEW m \in Memory, NEW g \in Memory,
         NEW x \in 0..(t.w - 1), NEW y \in 0..(t.h - 1),
         NEW k \in Nat, k <= t.w * y + x, PaintedUpTo(t, m, g, k)
  PROVE  /\ Load(g, GetAddress(t, s, x, y)) = PixelAt(t, s, m, <<x, y>>)
         /\ PixelAt(t, s, m, <<x, y>>) \in Pixel
<1> DEFINE at == GetAddress(t, s, x, y)
<1>1. at \in Addresses \cup {-1}
  BY DEF StaysInMemory
<1>2. PixelAt(t, s, m, <<x, y>>) = Load(m, at)
  BY <1>1, PixelIsLoaded
<1>3. Load(m, at) \in Pixel
  BY <1>1, LoadedIsPixel
<1>4. ASSUME at \in Addresses PROVE g[at] = m[at]
  <2>1. at \in Cells(t, t.d) => Order(t, at) \in Int /\ Order(t, at) >= t.w * y + x
    BY ReadBeforeWritten, OrderOfCells
  <2>2. t.w * y + x \in Int
    BY DEF Transfer
  <2>3. at \in Cells(t, t.d) => ~(Order(t, at) < k)
    <3> DEFINE n == t.w * y + x
               o == Order(t, at)
    <3> HIDE DEF n, o, at
    <3> QED
      BY <2>1, <2>2 DEF n, o
  <2> QED
    BY <1>4, <2>3 DEF PaintedUpTo
<1>5. Load(g, at) = Load(m, at)
  BY <1>1, <1>4 DEF Load
<1> QED
  BY <1>2, <1>3, <1>5

\* A turn of a copy, a fill that shows or a blend.
LEMMA TurnPaints ==
  ASSUME NEW t \in Transfer, StaysInMemory(t), Sensible(t), ~GivenUp(t),
         t.mode # "idle", ~Descrambling(t), NEW m \in Memory, NEW g \in Memory,
         NEW x \in 0..(t.w - 1), NEW y \in 0..(t.h - 1),
         PaintedUpTo(t, m, g, t.w * y + x)
  PROVE  PaintedUpTo(t, m, Turn(t, g, x, y), t.w * y + x + 1)
<1> DEFINE to == GetAddress(t, t.d, x, y)
           v == PixelAt(t, t.a, m, <<x, y>>)
           h == Turn(t, g, x, y)
<1>1. t.a \in Source /\ t.b \in Source /\ t.d \in Source /\ t.mode \in {"copy", "blend", "fill"}
  BY DEF Transfer
<1>2. to \in Addresses => Place(t, t.d, to) = <<x, y>> /\ to \in Cells(t, t.d)
  BY <1>1, PixelPlace
<1>3. to \in Addresses => g[to] = m[to]
  <2>1. to \in Addresses => Order(t, to) = t.w * y + x
    BY <1>2, OrderOfCells
  <2>2. t.w * y + x \in Int
    BY DEF Transfer
  <2>3. to \in Addresses => ~(Order(t, to) < t.w * y + x)
    <3> DEFINE k == t.w * y + x
               o == Order(t, to)
    <3> HIDE DEF k, o, to
    <3> QED
      BY <2>1, <2>2 DEF k, o
  <2> QED
    BY <2>3 DEF PaintedUpTo
<1>4. /\ -1 \notin Addresses
      /\ t.w * y + x \in Nat /\ t.w * y + x <= t.w * y + x
  <2>1. -1 \notin Addresses
    BY BlnAssumption DEF Addresses
  <2>2. t.w * y + x \in Nat
    BY DEF Transfer
  <2> QED
    BY <2>1, <2>2
<1>5. ASSUME NEW u
      PROVE  \A a \in Addresses :
               PutPixel(t, g, x, y, u)[a] = IF a = to THEN u ELSE g[a]
  BY <1>4 DEF PutPixel, Memory
<1>6. SUFFICES \A a \in Addresses : h[a] = IF a = to THEN Ideal(t, m, a) ELSE g[a]
  BY OneMore
<1>7. CASE t.mode = "copy"
  <2>1. h = CopyPixel(t, g, x, y)
    BY <1>7 DEF Turn, Descrambling
  <2>2. Load(g, GetAddress(t, t.a, x, y)) = v
    BY <1>1, <1>4, <1>7, LoadsTheFirst DEF Sensible, Uses
  <2>3. to \in Addresses => Ideal(t, m, to) = IF Hidden(t, v) THEN m[to] ELSE v
    BY <1>2, <1>7 DEF Ideal
  <2>4. h = IF Hidden(t, v) THEN g ELSE PutPixel(t, g, x, y, v)
    BY <2>1, <2>2 DEF CopyPixel
  <2> HIDE DEF v, h, to
  <2> QED
    BY <1>3, <1>5, <2>3, <2>4
<1>8. CASE t.mode = "fill"
  <2>1. h = PutPixel(t, g, x, y, t.fill)
    BY <1>8 DEF Turn, Descrambling
  <2>2. ~Hidden(t, t.fill)
    BY <1>8 DEF GivenUp
  <2>3. Ideal(t, m, to) = t.fill
    BY <1>8, <2>2 DEF Ideal
  <2> HIDE DEF h, to
  <2> QED
    BY <1>5, <2>1, <2>3
<1>9. CASE t.mode = "blend"
  <2> DEFINE u == PixelAt(t, t.b, m, <<x, y>>)
  <2>1. h = BlendPixel(t, g, x, y)
    BY <1>9 DEF Turn, Descrambling
  <2>2. ReadInTime(t, t.a) /\ ReadInTime(t, t.b) /\ InRange(t)
    BY <1>9 DEF Sensible
  <2>3. t.a \in Uses(t) /\ t.b \in Uses(t)
    BY <1>9 DEF Uses
  <2>4. Load(g, GetAddress(t, t.a, x, y)) = v /\ v \in Pixel
    BY <1>1, <1>4, <2>2, <2>3, LoadsTheFirst
  <2>5. Load(g, GetAddress(t, t.b, x, y)) = u /\ u \in Pixel
    BY <1>1, <1>4, <2>2, <2>3, LoadsTheFirst
  <2>6. h = PutPixel(t, g, x, y, IdealBlend(t, v, u))
    BY <2>1, <2>2, <2>4, <2>5, BlendIsIdeal DEF BlendPixel
  <2>7. to \in Addresses => Ideal(t, m, to) = IdealBlend(t, v, u)
    BY <1>2, <1>9 DEF Ideal
  <2> HIDE DEF v, u, h, to
  <2> QED
    BY <1>5, <2>6, <2>7
<1> QED
  BY <1>1, <1>7, <1>8, <1>9

\* A turn that descrambles, for the two pixels of a word.
LEMMA TurnDescrambles ==
  ASSUME NEW t \in Transfer, StaysInMemory(t), Sensible(t), Descrambling(t),
         NEW m \in Memory, NEW g \in Memory,
         NEW x \in 0..(t.w - 1), NEW y \in 0..(t.h - 1), x % 2 = 0,
         PaintedUpTo(t, m, g, t.w * y + x)
  PROVE  PaintedUpTo(t, m, Turn(t, g, x, y), t.w * y + x + 2)
<1> DEFINE k == t.w * y + x
           from == GetAddress(t, t.a, x, y)
           to == GetAddress(t, t.d, x, y)
           word == DescrambleWord(WordOf(PixelAt(t, t.a, m, <<x, y>>),
                                         PixelAt(t, t.a, m, <<x + 1, y>>)))
           h1 == [g EXCEPT ![to] = LowHalf(word)]
           h2 == [g EXCEPT ![to] = LowHalf(word), ![to + 1] = HighHalf(word)]
<1>1. /\ t.a \in Source /\ t.d \in Source /\ ~t.a.block /\ ~t.d.block /\ t.mode = "copy"
      /\ ReadInTime(t, t.a) /\ t.w % 2 = 0 /\ t.a \in Uses(t) /\ t.d \in Uses(t)
  BY DEF Transfer, Sensible, Descrambling, Uses
<1>2. t.w \in Nat /\ x \in Nat /\ y \in Nat /\ t.a.first \in Nat /\ t.d.first \in Nat /\ k \in Nat
  BY <1>1 DEF Transfer, Source
<1>3. x + 1 \in 0..(t.w - 1)
  BY <1>1, <1>2
<1>4. /\ from = t.a.first + t.w * y + x /\ to = t.d.first + t.w * y + x
      /\ GetAddress(t, t.a, x + 1, y) = t.a.first + t.w * y + (x + 1)
      /\ GetAddress(t, t.d, x + 1, y) = t.d.first + t.w * y + (x + 1)
  BY <1>1, <1>3, LinearPlace
<1>5. /\ GetAddress(t, t.a, x + 1, y) = from + 1 /\ GetAddress(t, t.d, x + 1, y) = to + 1
      /\ from \in Nat /\ to \in Nat
  <2> DEFINE n == t.w * y
  <2>1. n \in Nat
    BY <1>2
  <2> HIDE DEF n
  <2>2. /\ from = t.a.first + n + x /\ to = t.d.first + n + x
        /\ GetAddress(t, t.a, x + 1, y) = t.a.first + n + (x + 1)
        /\ GetAddress(t, t.d, x + 1, y) = t.d.first + n + (x + 1)
    BY <1>4 DEF n
  <2> HIDE DEF from, to
  <2> QED
    BY <1>2, <2>1, <2>2
<1>6. /\ from \in Addresses /\ from + 1 \in Addresses
      /\ to \in Addresses /\ to + 1 \in Addresses
  <2>1. from # -1 /\ to # -1
    BY <1>5
  <2> QED
    BY <1>1, <2>1 DEF StaysInMemory
<1>7. g[from] = PixelAt(t, t.a, m, <<x, y>>) /\ g[from + 1] = PixelAt(t, t.a, m, <<x + 1, y>>)
  <2>1. Load(g, from) = PixelAt(t, t.a, m, <<x, y>>)
    <3>1. k <= k
      BY <1>2
    <3> QED
      BY <1>1, <1>2, <3>1, LoadsTheFirst
  <2>2. k <= t.w * y + (x + 1)
    BY <1>2
  <2>3. Load(g, GetAddress(t, t.a, x + 1, y)) = PixelAt(t, t.a, m, <<x + 1, y>>)
    BY <1>1, <1>2, <1>3, <2>2, LoadsTheFirst
  <2>4. from # -1 /\ from + 1 # -1
    BY <1>5
  <2> QED
    BY <1>5, <2>1, <2>3, <2>4 DEF Load
<1>8. Turn(t, g, x, y) = h2
  <2>1. Turn(t, g, x, y) = DescramblePixels(t, g, x, y)
    BY <1>1 DEF Turn, Descrambling
  <2>2. from # -1 /\ to # -1
    BY <1>5
  <2> QED
    BY <1>7, <2>1, <2>2 DEF DescramblePixels
<1>9. Ideal(t, m, to) = LowHalf(word)
  <2>1. Place(t, t.d, to) = <<x, y>>
    BY <1>1, LinearPlace
  <2>2. x - (x % 2) = x
    BY <1>2
  <2> HIDE DEF to
  <2> QED
    BY <2>1, <2>2 DEF Ideal
<1>10. Ideal(t, m, to + 1) = HighHalf(word)
  <2>1. Place(t, t.d, to + 1) = <<x + 1, y>>
    BY <1>1, <1>3, <1>5, LinearPlace
  <2>2. (x + 1) % 2 # 0 /\ (x + 1) - ((x + 1) % 2) = x
    BY <1>2
  <2> HIDE DEF to
  <2> QED
    BY <2>1, <2>2 DEF Ideal
<1>11. to + 1 # to
  BY <1>5
<1>12. PaintedUpTo(t, m, h1, k + 1)
  <2>1. \A a \in Addresses : h1[a] = IF a = to THEN Ideal(t, m, a) ELSE g[a]
    <3> HIDE DEF to, word
    <3> QED
      BY <1>9 DEF Memory
  <2> HIDE DEF h1
  <2> QED
    BY <2>1, OneMore
<1>13. PaintedUpTo(t, m, h2, t.w * y + (x + 1) + 1)
  <2>1. \A a \in Addresses : h2[a] = IF a = to + 1 THEN Ideal(t, m, a) ELSE h1[a]
    <3> HIDE DEF to, word
    <3> QED
      BY <1>10, <1>11 DEF Memory
  <2>2. PaintedUpTo(t, m, h1, t.w * y + (x + 1))
    <3>1. t.w * y + (x + 1) = k + 1
      BY <1>2
    <3> HIDE DEF k, h1
    <3> QED
      BY <1>12, <3>1
  <2> HIDE DEF h1, h2
  <2> QED
    BY <1>3, <1>5, <2>1, <2>2, OneMore
<1>14. t.w * y + (x + 1) + 1 = k + 2
  BY <1>2
<1> HIDE DEF h2
<1> QED
  BY <1>8, <1>13, <1>14

------------------------------------------------------------------------------
(* BlnDma: a transfer paints its picture. *)

\* The last turn completes the rectangle.
LEMMA TurnsPaintAll ==
  ASSUME NEW t \in Transfer, StaysInMemory(t), Sensible(t), ~GivenUp(t),
         t.mode # "idle", NEW m \in Memory
  PROVE  PaintedUpTo(t, m, Painted(t, m), t.w * t.h)
<1> DEFINE N == Turns(t)
           c == Columns(t)
           s == Stride(t)
<1>1. PICK f \in [0..N -> Memory] : IsPainting(t, m, f) /\ Painted(t, m) = f[N]
  BY PaintedTurnByTurn
<1>2. t.w \in Nat /\ t.h \in Nat /\ N \in Nat /\ c \in Nat /\ N = c * t.h
  BY TurnsMeetPixels DEF Transfer, Turns
<1>3. s \in {1, 2} /\ t.w = s * c /\ (s = 2 <=> Descrambling(t))
  <2>1. CASE Descrambling(t)
    <3>1. t.w % 2 = 0
      BY <2>1 DEF Sensible, Descrambling
    <3> QED
      BY <1>2, <2>1, <3>1 DEF Columns, Stride
  <2>2. CASE ~Descrambling(t)
    BY <1>2, <2>2 DEF Columns, Stride
  <2> QED BY <2>1, <2>2
<1> DEFINE Good == {n \in 0..N : PaintedUpTo(t, m, f[n], s * n)}
<1>4. 0 \in Good
  <2>1. \A a \in Cells(t, t.d) : ~(Order(t, a) < 0)
    BY OrderOfCells
  <2>2. f[0] = m /\ s * 0 = 0 /\ 0 \in 0..N
    BY <1>1, <1>2, <1>3 DEF IsPainting
  <2> QED
    BY <2>1, <2>2 DEF PaintedUpTo
<1>5. ASSUME NEW n \in 1..N, n - 1 \in Good
      PROVE  n \in Good
  <2> DEFINE x == ColumnOf(t, n)
             y == RowOf(t, n)
             r == (n - 1) % c
             g == f[n - 1]
  <2>1. /\ c > 0 /\ x \in 0..(t.w - 1) /\ y \in 0..(t.h - 1)
        /\ Descrambling(t) => x % 2 = 0
        /\ n - 1 = y * c + r
    BY TurnsMeetPixels
  <2>2. g \in Memory /\ f[n] = Turn(t, g, x, y) /\ PaintedUpTo(t, m, g, s * (n - 1)) /\ n \in 0..N
    <3>1. n - 1 \in 0..N /\ n \in 0..N
      BY <1>2
    <3> QED
      BY <1>1, <1>5, <3>1 DEF IsPainting
  <2>3. r \in Nat /\ x = s * r
    BY <1>2, <2>1 DEF ColumnOf
  <2>4. s * (n - 1) = t.w * y + x /\ s * n = t.w * y + x + s
    <3>1. y \in Nat /\ n \in Nat
      BY <1>2, <2>1
    <3> HIDE DEF r, s, c, x, y
    <3>2. CASE s = 1
      BY <1>2, <1>3, <2>1, <2>3, <3>1, <3>2
    <3>3. CASE s = 2
      BY <1>2, <1>3, <2>1, <2>3, <3>1, <3>3
    <3> QED
      BY <1>3, <3>2, <3>3
  <2>5. PaintedUpTo(t, m, g, t.w * y + x)
    <3> HIDE DEF g, x, y, s
    <3> QED
      BY <2>2, <2>4
  <2>6. PaintedUpTo(t, m, f[n], s * n)
    <3> HIDE DEF g, x, y, s
    <3>1. CASE Descrambling(t)
      BY <1>3, <2>1, <2>2, <2>4, <2>5, <3>1, TurnDescrambles
    <3>2. CASE ~Descrambling(t)
      BY <1>3, <2>1, <2>2, <2>4, <2>5, <3>2, TurnPaints
    <3> QED BY <3>1, <3>2
  <2> QED
    BY <2>2, <2>6
<1>6. N \in Good
  <2>1. Good \in SUBSET Nat
    BY <1>2
  <2>2. \A n \in 1..N : n - 1 \in Good => n \in Good
    BY <1>5
  <2> HIDE DEF Good, N
  <2>3. 0..N \subseteq Good
    BY <1>2, <1>4, <2>1, <2>2, TurnByTurn
  <2> QED
    BY <1>2, <2>3
<1>7. s * N = t.w * t.h
  <2> HIDE DEF s, N, c
  <2>1. CASE s = 1
    BY <1>2, <1>3, <2>1
  <2>2. CASE s = 2
    BY <1>2, <1>3, <2>2
  <2> QED
    BY <1>3, <2>1, <2>2
<1> QED
  BY <1>1, <1>6, <1>7

\* Any transfer, whatever the memory holds.
LEMMA ResultIsPicture ==
  ASSUME NEW t \in Transfers, Sensible(t), NEW m \in Memory
  PROVE  Result(t, m) = Picture(t, m)
<1>1. t \in Transfer /\ StaysInMemory(t)
  BY BlnAssumption
<1>2. m = [a \in Addresses |-> m[a]]
  BY DEF Memory
<1>3. CASE t.mode = "idle"
  BY <1>2, <1>3 DEF Result, Painted, Picture
<1>4. CASE GivenUp(t)
  <2>1. \A a : Ideal(t, m, a) = m[a]
    BY <1>4 DEF GivenUp, Ideal, Descrambling
  <2> QED
    BY <1>2, <1>4, <2>1 DEF Result, Picture
<1>5. CASE t.mode # "idle" /\ ~GivenUp(t)
  <2> DEFINE g == Painted(t, m)
  <2>1. PaintedUpTo(t, m, g, t.w * t.h)
    BY <1>1, <1>5, TurnsPaintAll
  <2>2. g \in Memory /\ Result(t, m) = g
    BY <1>5, ResultIsMemory DEF Result
  <2>3. \A a \in Cells(t, t.d) : Order(t, a) < t.w * t.h
    <3> TAKE a \in Cells(t, t.d)
    <3>1. Order(t, a) \in 0..(t.w * t.h - 1) /\ t.w * t.h \in Nat
      BY <1>1, OrderOfCells DEF Transfer
    <3> DEFINE o == Order(t, a)
               k == t.w * t.h
    <3> HIDE DEF o, k
    <3> QED
      BY <3>1 DEF o, k
  <2> HIDE DEF g
  <2>4. g = [a \in Addresses |-> g[a]]
    BY <2>2 DEF Memory
  <2>5. \A a \in Addresses : g[a] = IF a \in Cells(t, t.d) THEN Ideal(t, m, a) ELSE m[a]
    BY <2>1, <2>3 DEF PaintedUpTo
  <2> QED
    BY <1>5, <2>2, <2>4, <2>5 DEF Picture
<1> QED
  BY <1>3, <1>4, <1>5

(* Every sensible transfer leaves in memory what reading all its pixels,      *)
(* computing without wrapping and writing all at once would: for any          *)
(* rectangle, blocks that clip it, overlap in the right direction, keys,      *)
(* factors in range, and any memory.                                          *)
THEOREM TransfersPaintPictures == BlnSpec => []TransfersPaint
<1>1. BlnInv => TransfersPaint
  BY ResultIsPicture DEF BlnInv, BlnTypeOK, TransfersPaint, Memory
<1> QED
  BY <1>1, WaitsAreExplained, PTL

------------------------------------------------------------------------------
(* BlnDma: descrambling backwards. *)

\* The group of each bit, and its position there.
GroupOf ==
  <<1, 2, 3, 4, 5, 5, 6, 7, 8, 2, 4, 8, 7, 7, 1, 6,
    1, 3, 4, 2, 3, 1, 6, 8, 7, 4, 5, 2, 3, 8, 6, 5>>

PositionOf ==
  <<1, 1, 1, 1, 1, 2, 1, 1, 1, 2, 2, 2, 2, 3, 2, 2,
    3, 2, 3, 3, 3, 4, 3, 3, 4, 4, 3, 4, 4, 4, 4, 4>>

\* The tables read the other way.
Back ==
  <<<<10, 4, 9, 7, 0, 14, 3, 13, 8, 6, 11, 5, 2, 12, 1, 15>>,
    <<4, 6, 2, 14, 11, 5, 1, 12, 9, 3, 0, 13, 8, 15, 10, 7>>,
    <<11, 6, 15, 9, 14, 4, 8, 5, 0, 2, 12, 7, 1, 3, 13, 10>>,
    <<3, 2, 13, 14, 9, 7, 12, 1, 4, 0, 8, 15, 10, 5, 11, 6>>,
    <<13, 7, 10, 4, 9, 3, 0, 6, 5, 1, 2, 11, 8, 14, 15, 12>>,
    <<7, 3, 15, 13, 11, 1, 5, 2, 9, 10, 14, 12, 6, 8, 4, 0>>,
    <<5, 11, 8, 10, 2, 15, 0, 13, 4, 3, 7, 12, 9, 14, 6, 1>>,
    <<3, 2, 6, 9, 15, 0, 8, 12, 10, 7, 13, 11, 5, 14, 4, 1>>>>

Undoes(back, lut) ==
  \A n \in 0..15 : /\ lut[n + 1] \in 0..15 /\ back[lut[n + 1] + 1] = n
                   /\ back[n + 1] \in 0..15 /\ lut[back[n + 1] + 1] = n

\* Each table of lut_table has its inverse.
LEMMA TablesArePermutations == \A g \in 1..8 : Undoes(Back[g], Luts[g])
<1>1. Undoes(Back[1], Luts[1])
  <2>1. Luts[1] = <<4, 14, 12, 6, 1, 11, 9, 3, 8, 2, 0, 10, 13, 7, 5, 15>>
    BY DEF Luts
  <2>2. Back[1] = <<10, 4, 9, 7, 0, 14, 3, 13, 8, 6, 11, 5, 2, 12, 1, 15>>
    BY DEF Back
  <2> QED
    BY <2>1, <2>2 DEF Undoes
<1>2. Undoes(Back[2], Luts[2])
  <2>1. Luts[2] = <<10, 6, 2, 9, 0, 5, 1, 15, 12, 8, 14, 4, 7, 11, 3, 13>>
    BY DEF Luts
  <2>2. Back[2] = <<4, 6, 2, 14, 11, 5, 1, 12, 9, 3, 0, 13, 8, 15, 10, 7>>
    BY DEF Back
  <2> QED
    BY <2>1, <2>2 DEF Undoes
<1>3. Undoes(Back[3], Luts[3])
  <2>1. Luts[3] = <<8, 12, 9, 13, 5, 7, 1, 11, 6, 3, 15, 0, 10, 14, 4, 2>>
    BY DEF Luts
  <2>2. Back[3] = <<11, 6, 15, 9, 14, 4, 8, 5, 0, 2, 12, 7, 1, 3, 13, 10>>
    BY DEF Back
  <2> QED
    BY <2>1, <2>2 DEF Undoes
<1>4. Undoes(Back[4], Luts[4])
  <2>1. Luts[4] = <<9, 7, 1, 0, 8, 13, 15, 5, 10, 4, 12, 14, 6, 2, 3, 11>>
    BY DEF Luts
  <2>2. Back[4] = <<3, 2, 13, 14, 9, 7, 12, 1, 4, 0, 8, 15, 10, 5, 11, 6>>
    BY DEF Back
  <2> QED
    BY <2>1, <2>2 DEF Undoes
<1>5. Undoes(Back[5], Luts[5])
  <2>1. Luts[5] = <<6, 9, 10, 5, 3, 8, 7, 1, 12, 4, 2, 11, 15, 0, 13, 14>>
    BY DEF Luts
  <2>2. Back[5] = <<13, 7, 10, 4, 9, 3, 0, 6, 5, 1, 2, 11, 8, 14, 15, 12>>
    BY DEF Back
  <2> QED
    BY <2>1, <2>2 DEF Undoes
<1>6. Undoes(Back[6], Luts[6])
  <2>1. Luts[6] = <<15, 5, 7, 1, 14, 6, 12, 0, 13, 8, 9, 4, 11, 3, 10, 2>>
    BY DEF Luts
  <2>2. Back[6] = <<7, 3, 15, 13, 11, 1, 5, 2, 9, 10, 14, 12, 6, 8, 4, 0>>
    BY DEF Back
  <2> QED
    BY <2>1, <2>2 DEF Undoes
<1>7. Undoes(Back[7], Luts[7])
  <2>1. Luts[7] = <<6, 15, 4, 9, 8, 0, 14, 10, 2, 12, 3, 1, 11, 7, 13, 5>>
    BY DEF Luts
  <2>2. Back[7] = <<5, 11, 8, 10, 2, 15, 0, 13, 4, 3, 7, 12, 9, 14, 6, 1>>
    BY DEF Back
  <2> QED
    BY <2>1, <2>2 DEF Undoes
<1>8. Undoes(Back[8], Luts[8])
  <2>1. Luts[8] = <<5, 15, 1, 0, 14, 12, 2, 9, 6, 3, 8, 11, 7, 10, 13, 4>>
    BY DEF Luts
  <2>2. Back[8] = <<3, 2, 6, 9, 15, 0, 8, 12, 10, 7, 13, 11, 5, 14, 4, 1>>
    BY DEF Back
  <2> QED
    BY <2>1, <2>2 DEF Undoes
<1> QED
  BY <1>1, <1>2, <1>3, <1>4, <1>5, <1>6, <1>7, <1>8

\* The groups share out the bits of a word.
LEMMA GroupsShareBits ==
  /\ \A g \in 1..8, k \in 1..4 :
       /\ Groups[g][k] \in 0..31
       /\ GroupOf[Groups[g][k] + 1] = g /\ PositionOf[Groups[g][k] + 1] = k
  /\ \A b \in 0..31 :
       /\ GroupOf[b + 1] \in 1..8 /\ PositionOf[b + 1] \in 1..4
       /\ Groups[GroupOf[b + 1]][PositionOf[b + 1]] = b
<1>1. \A k \in 1..4 : /\ Groups[1][k] \in 0..31
                    /\ GroupOf[Groups[1][k] + 1] = 1 /\ PositionOf[Groups[1][k] + 1] = k
  <2>1. Groups[1] = <<0, 14, 16, 21>>
    BY DEF Groups
  <2>2. \A k \in 1..4 : k = 1 \/ k = 2 \/ k = 3 \/ k = 4
    OBVIOUS
  <2> QED
    BY <2>1, <2>2 DEF GroupOf, PositionOf
<1>2. \A k \in 1..4 : /\ Groups[2][k] \in 0..31
                    /\ GroupOf[Groups[2][k] + 1] = 2 /\ PositionOf[Groups[2][k] + 1] = k
  <2>1. Groups[2] = <<1, 9, 19, 27>>
    BY DEF Groups
  <2>2. \A k \in 1..4 : k = 1 \/ k = 2 \/ k = 3 \/ k = 4
    OBVIOUS
  <2> QED
    BY <2>1, <2>2 DEF GroupOf, PositionOf
<1>3. \A k \in 1..4 : /\ Groups[3][k] \in 0..31
                    /\ GroupOf[Groups[3][k] + 1] = 3 /\ PositionOf[Groups[3][k] + 1] = k
  <2>1. Groups[3] = <<2, 17, 20, 28>>
    BY DEF Groups
  <2>2. \A k \in 1..4 : k = 1 \/ k = 2 \/ k = 3 \/ k = 4
    OBVIOUS
  <2> QED
    BY <2>1, <2>2 DEF GroupOf, PositionOf
<1>4. \A k \in 1..4 : /\ Groups[4][k] \in 0..31
                    /\ GroupOf[Groups[4][k] + 1] = 4 /\ PositionOf[Groups[4][k] + 1] = k
  <2>1. Groups[4] = <<3, 10, 18, 25>>
    BY DEF Groups
  <2>2. \A k \in 1..4 : k = 1 \/ k = 2 \/ k = 3 \/ k = 4
    OBVIOUS
  <2> QED
    BY <2>1, <2>2 DEF GroupOf, PositionOf
<1>5. \A k \in 1..4 : /\ Groups[5][k] \in 0..31
                    /\ GroupOf[Groups[5][k] + 1] = 5 /\ PositionOf[Groups[5][k] + 1] = k
  <2>1. Groups[5] = <<4, 5, 26, 31>>
    BY DEF Groups
  <2>2. \A k \in 1..4 : k = 1 \/ k = 2 \/ k = 3 \/ k = 4
    OBVIOUS
  <2> QED
    BY <2>1, <2>2 DEF GroupOf, PositionOf
<1>6. \A k \in 1..4 : /\ Groups[6][k] \in 0..31
                    /\ GroupOf[Groups[6][k] + 1] = 6 /\ PositionOf[Groups[6][k] + 1] = k
  <2>1. Groups[6] = <<6, 15, 22, 30>>
    BY DEF Groups
  <2>2. \A k \in 1..4 : k = 1 \/ k = 2 \/ k = 3 \/ k = 4
    OBVIOUS
  <2> QED
    BY <2>1, <2>2 DEF GroupOf, PositionOf
<1>7. \A k \in 1..4 : /\ Groups[7][k] \in 0..31
                    /\ GroupOf[Groups[7][k] + 1] = 7 /\ PositionOf[Groups[7][k] + 1] = k
  <2>1. Groups[7] = <<7, 12, 13, 24>>
    BY DEF Groups
  <2>2. \A k \in 1..4 : k = 1 \/ k = 2 \/ k = 3 \/ k = 4
    OBVIOUS
  <2> QED
    BY <2>1, <2>2 DEF GroupOf, PositionOf
<1>8. \A k \in 1..4 : /\ Groups[8][k] \in 0..31
                    /\ GroupOf[Groups[8][k] + 1] = 8 /\ PositionOf[Groups[8][k] + 1] = k
  <2>1. Groups[8] = <<8, 11, 23, 29>>
    BY DEF Groups
  <2>2. \A k \in 1..4 : k = 1 \/ k = 2 \/ k = 3 \/ k = 4
    OBVIOUS
  <2> QED
    BY <2>1, <2>2 DEF GroupOf, PositionOf
<1>9. \A b \in 0..31 : /\ GroupOf[b + 1] \in 1..8 /\ PositionOf[b + 1] \in 1..4
                       /\ Groups[GroupOf[b + 1]][PositionOf[b + 1]] = b
  BY DEF GroupOf, PositionOf, Groups
<1> QED
  BY <1>1, <1>2, <1>3, <1>4, <1>5, <1>6, <1>7, <1>8, <1>9

\* Four bits are their number.
LEMMA NumberOfNibble ==
  ASSUME NEW ones \in SUBSET (0..3)
  PROVE  /\ Number(ones) \in 0..15
         /\ \A k \in 0..3 : Bit(Number(ones), k) <=> k \in ones
<1> DEFINE digit(k) == IF k \in ones THEN Weight[k + 1] ELSE 0
<1>1. /\ digit(4) = 0 /\ digit(5) = 0 /\ digit(6) = 0 /\ digit(7) = 0 /\ digit(8) = 0
      /\ digit(9) = 0 /\ digit(10) = 0 /\ digit(11) = 0 /\ digit(12) = 0
      /\ digit(13) = 0 /\ digit(14) = 0 /\ digit(15) = 0
  OBVIOUS
<1>2. Weight[1] = 1 /\ Weight[2] = 2 /\ Weight[3] = 4 /\ Weight[4] = 8
  BY DEF Weight
<1>3. /\ digit(0) = IF 0 \in ones THEN 1 ELSE 0
      /\ digit(1) = IF 1 \in ones THEN 2 ELSE 0
      /\ digit(2) = IF 2 \in ones THEN 4 ELSE 0
      /\ digit(3) = IF 3 \in ones THEN 8 ELSE 0
  BY <1>2
<1>4. Number(ones) =
        digit(0) + digit(1) + digit(2) + digit(3) + digit(4) + digit(5) + digit(6)
        + digit(7) + digit(8) + digit(9) + digit(10) + digit(11) + digit(12)
        + digit(13) + digit(14) + digit(15)
  BY DEF Number
<1> HIDE DEF digit
<1>5. Number(ones) = digit(0) + digit(1) + digit(2) + digit(3)
  BY <1>1, <1>3, <1>4
<1>6. \A v : /\ Bit(v, 0) <=> (v \div 1) % 2 = 1
             /\ Bit(v, 1) <=> (v \div 2) % 2 = 1
             /\ Bit(v, 2) <=> (v \div 4) % 2 = 1
             /\ Bit(v, 3) <=> (v \div 8) % 2 = 1
  BY <1>2 DEF Bit
<1>7. /\ Number(ones) \in 0..15
      /\ (Number(ones) \div 1) % 2 = 1 <=> 0 \in ones
      /\ (Number(ones) \div 2) % 2 = 1 <=> 1 \in ones
      /\ (Number(ones) \div 4) % 2 = 1 <=> 2 \in ones
      /\ (Number(ones) \div 8) % 2 = 1 <=> 3 \in ones
  BY <1>3, <1>5
<1>8. \A k \in 0..3 : k = 0 \/ k = 1 \/ k = 2 \/ k = 3
  OBVIOUS
<1> QED
  BY <1>6, <1>7, <1>8

\* And a number is its bits.
LEMMA NibbleOfNumber ==
  ASSUME NEW v \in 0..15
  PROVE  Number({k \in 0..3 : Bit(v, k)}) = v
<1> DEFINE ones == {k \in 0..3 : Bit(v, k)}
           u == Number(ones)
<1>1. u \in 0..15 /\ \A k \in 0..3 : Bit(u, k) <=> Bit(v, k)
  BY NumberOfNibble
<1> HIDE DEF u
<1>2. \A n : /\ Bit(n, 0) <=> (n \div 1) % 2 = 1
             /\ Bit(n, 1) <=> (n \div 2) % 2 = 1
             /\ Bit(n, 2) <=> (n \div 4) % 2 = 1
             /\ Bit(n, 3) <=> (n \div 8) % 2 = 1
  BY DEF Bit, Weight
<1>3. /\ (u \div 1) % 2 = 1 <=> (v \div 1) % 2 = 1
      /\ (u \div 2) % 2 = 1 <=> (v \div 2) % 2 = 1
      /\ (u \div 4) % 2 = 1 <=> (v \div 4) % 2 = 1
      /\ (u \div 8) % 2 = 1 <=> (v \div 8) % 2 = 1
  <2>1. 0 \in 0..3 /\ 1 \in 0..3 /\ 2 \in 0..3 /\ 3 \in 0..3
    OBVIOUS
  <2> QED
    BY <1>1, <1>2, <2>1
<1>4. u = v
  BY <1>1, <1>3
<1> QED
  BY <1>4 DEF u

\* The bits of a group, and the positions of those that a word has.
BitsOf(g) == {Groups[g][k] : k \in 1..4}
Lane(g, word) == {k \in 0..3 : Groups[g][k + 1] \in word}

\* No bit is in two groups.
LEMMA BitsAreShared ==
  /\ \A g \in 1..8 : \A b \in BitsOf(g) : GroupOf[b + 1] = g
  /\ \A b \in 0..31 : GroupOf[b + 1] \in 1..8 /\ b \in BitsOf(GroupOf[b + 1])
<1>1. ASSUME NEW g \in 1..8, NEW b \in BitsOf(g)
      PROVE  GroupOf[b + 1] = g
  <2>1. PICK k \in 1..4 : b = Groups[g][k]
    BY DEF BitsOf
  <2> QED
    BY <2>1, GroupsShareBits
<1>2. ASSUME NEW b \in 0..31
      PROVE  GroupOf[b + 1] \in 1..8 /\ b \in BitsOf(GroupOf[b + 1])
  BY GroupsShareBits DEF BitsOf
<1> QED
  BY <1>1, <1>2

LEMMA GroupOfWord ==
  ASSUME NEW g \in 1..8, NEW word
  PROVE  LET u == Luts[g][Number(Lane(g, word)) + 1]
         IN  /\ u \in 0..15
             /\ DescrambleGroup(g, word) = {Groups[g][k] : k \in {k \in 1..4 : Bit(u, k - 1)}}
             /\ \A k \in 0..3 : Groups[g][k + 1] \in DescrambleGroup(g, word) <=> Bit(u, k)
             /\ DescrambleGroup(g, word) \subseteq BitsOf(g)
<1> DEFINE n == Number(Lane(g, word))
           u == Luts[g][n + 1]
           ones == {k \in 1..4 : Bit(u, k - 1)}
<1>1. n \in 0..15
  BY NumberOfNibble DEF Lane
<1>2. u \in 0..15
  <2> HIDE DEF n
  <2> QED
    BY <1>1, TablesArePermutations DEF Undoes
<1>3. DescrambleGroup(g, word) = {Groups[g][k] : k \in ones}
  BY DEF DescrambleGroup, Lane
<1> HIDE DEF u
<1>4. ASSUME NEW k \in 0..3
      PROVE  Groups[g][k + 1] \in DescrambleGroup(g, word) <=> Bit(u, k)
  <2>1. k + 1 \in 1..4 /\ (k + 1) - 1 = k
    OBVIOUS
  <2>2. k + 1 \in ones <=> Bit(u, k)
    BY <2>1
  <2>3. ASSUME NEW j \in ones, Groups[g][j] = Groups[g][k + 1] PROVE j = k + 1
    BY <2>1, <2>3, GroupsShareBits
  <2> HIDE DEF ones
  <2> QED
    BY <1>3, <2>2, <2>3
<1>5. DescrambleGroup(g, word) \subseteq BitsOf(g)
  BY <1>3 DEF BitsOf
<1> QED
  BY <1>2, <1>3, <1>4, <1>5 DEF u

\* What a word becomes, group by group.
LEMMA WordByGroups ==
  ASSUME NEW word
  PROVE  /\ \A g \in 1..8 : DescrambleWord(word) \cap BitsOf(g) = DescrambleGroup(g, word)
         /\ \A b \in DescrambleWord(word) : \E g \in 1..8 : b \in DescrambleGroup(g, word)
<1>1. DOMAIN Groups = 1..8
  BY DEF Groups
<1>2. DescrambleWord(word) = UNION {DescrambleGroup(g, word) : g \in 1..8}
  BY <1>1 DEF DescrambleWord
<1>3. \A g \in 1..8 : DescrambleGroup(g, word) \subseteq BitsOf(g)
  BY GroupOfWord
<1>4. \A g, h \in 1..8 : \A b \in BitsOf(g) \cap BitsOf(h) : g = h
  BY BitsAreShared
<1> QED
  BY <1>2, <1>3, <1>4

\* Each group is a permutation: two words that it makes the same agree in it.
LEMMA GroupIsInjective ==
  ASSUME NEW g \in 1..8, NEW v, NEW w, DescrambleGroup(g, v) = DescrambleGroup(g, w)
  PROVE  v \cap BitsOf(g) = w \cap BitsOf(g)
<1> DEFINE nv == Number(Lane(g, v))
           nw == Number(Lane(g, w))
           uv == Luts[g][nv + 1]
           uw == Luts[g][nw + 1]
<1>1. uv \in 0..15 /\ uw \in 0..15 /\ \A k \in 0..3 : Bit(uv, k) <=> Bit(uw, k)
  BY GroupOfWord
<1>2. uv = uw
  <2> HIDE DEF uv, uw
  <2>1. {k \in 0..3 : Bit(uv, k)} = {k \in 0..3 : Bit(uw, k)}
    BY <1>1
  <2> QED
    BY <1>1, <2>1, NibbleOfNumber
<1>3. nv \in 0..15 /\ nw \in 0..15
  BY NumberOfNibble DEF Lane
<1>4. nv = nw
  <2> HIDE DEF nv, nw
  <2>1. Back[g][uv + 1] = nv /\ Back[g][uw + 1] = nw
    BY <1>3, TablesArePermutations DEF Undoes
  <2> QED
    BY <1>2, <2>1
<1>5. \A k \in 0..3 : k \in Lane(g, v) <=> k \in Lane(g, w)
  BY <1>4, NumberOfNibble DEF Lane
<1>6. \A k \in 1..4 : k - 1 \in 0..3 /\ (k - 1) + 1 = k
  OBVIOUS
<1>7. \A k \in 1..4 : Groups[g][k] \in v <=> Groups[g][k] \in w
  BY <1>5, <1>6 DEF Lane
<1> QED
  BY <1>7 DEF BitsOf

\* So the whole word can be read back.
LEMMA WordIsInjective ==
  ASSUME NEW v \in SUBSET (0..31), NEW w \in SUBSET (0..31),
         DescrambleWord(v) = DescrambleWord(w)
  PROVE  v = w
<1>1. \A g \in 1..8 : v \cap BitsOf(g) = w \cap BitsOf(g)
  <2> TAKE g \in 1..8
  <2>1. DescrambleGroup(g, v) = DescrambleGroup(g, w)
    BY WordByGroups
  <2> QED
    BY <2>1, GroupIsInjective
<1>2. \A b \in 0..31 : \E g \in 1..8 : b \in BitsOf(g)
  BY BitsAreShared
<1> QED
  BY <1>1, <1>2

\* Each group takes every value and leaves the others alone.
LEMMA GroupsArePermuted == GroupsPermute
<1>1. DOMAIN Groups = 1..8
  BY DEF Groups
<1> SUFFICES ASSUME NEW g \in 1..8
             PROVE  /\ {DescrambleWord(w) \cap BitsOf(g) : w \in SUBSET BitsOf(g)}
                         = SUBSET BitsOf(g)
                    /\ \A w \in SUBSET BitsOf(g) :
                         DescrambleWord(w) \ BitsOf(g) = DescrambleWord({}) \ BitsOf(g)
  BY <1>1 DEF GroupsPermute, BitsOf
<1>2. ASSUME NEW to \in SUBSET BitsOf(g)
      PROVE  \E w \in SUBSET BitsOf(g) : DescrambleWord(w) \cap BitsOf(g) = to
  <2> DEFINE n == Number(Lane(g, to))
             v == Back[g][n + 1]
             ones == {k \in 0..3 : Bit(v, k)}
             w == {Groups[g][k + 1] : k \in ones}
  <2>1. n \in 0..15 /\ \A k \in 0..3 : Bit(n, k) <=> Groups[g][k + 1] \in to
    BY NumberOfNibble DEF Lane
  <2>2. v \in 0..15 /\ Luts[g][v + 1] = n
    <3> HIDE DEF n
    <3> QED
      BY <2>1, TablesArePermutations DEF Undoes
  <2>3. Number(ones) = v
    <3> HIDE DEF v
    <3> QED
      BY <2>2, NibbleOfNumber
  <2>4. \A k \in 0..3 : k + 1 \in 1..4
    OBVIOUS
  <2>5. w \in SUBSET BitsOf(g)
    BY <2>4 DEF BitsOf
  <2>6. Lane(g, w) = ones
    <3> HIDE DEF v
    <3>1. ASSUME NEW k \in 0..3, NEW j \in 0..3, Groups[g][k + 1] = Groups[g][j + 1]
          PROVE  k = j
      <4>1. k + 1 = j + 1
        BY <2>4, <3>1, GroupsShareBits
      <4> QED
        BY <4>1
    <3> QED
      BY <3>1 DEF Lane
  <2>7. \A k \in 0..3 : Groups[g][k + 1] \in DescrambleGroup(g, w) <=> Groups[g][k + 1] \in to
    <3> HIDE DEF w, ones, v, n
    <3> QED
      BY <2>1, <2>2, <2>3, <2>6, GroupOfWord
  <2>8. DescrambleGroup(g, w) \subseteq BitsOf(g)
    BY GroupOfWord
  <2>9. \A k \in 1..4 : k - 1 \in 0..3 /\ (k - 1) + 1 = k
    OBVIOUS
  <2> HIDE DEF w
  <2>10. \A b \in BitsOf(g) : b \in DescrambleGroup(g, w) <=> b \in to
    BY <2>7, <2>9 DEF BitsOf
  <2> QED
    BY <2>5, <2>8, <2>10, WordByGroups
<1>3. ASSUME NEW w \in SUBSET BitsOf(g)
      PROVE  DescrambleWord(w) \ BitsOf(g) = DescrambleWord({}) \ BitsOf(g)
  <2>1. \A h \in 1..8 : h # g => DescrambleGroup(h, w) = DescrambleGroup(h, {})
    <3> TAKE h \in 1..8
    <3>1. h # g => BitsOf(h) \cap BitsOf(g) = {}
      BY BitsAreShared
    <3>2. \A k \in 0..3 : Groups[h][k + 1] \in BitsOf(h)
      BY DEF BitsOf
    <3>3. h # g => Lane(h, w) = Lane(h, {})
      BY <3>1, <3>2 DEF Lane
    <3> QED
      BY <3>3 DEF DescrambleGroup, Lane
  <2>2. \A v : DescrambleGroup(g, v) \subseteq BitsOf(g)
    BY GroupOfWord
  <2>3. \A v, u : (\A h \in 1..8 : h # g => DescrambleGroup(h, v) = DescrambleGroup(h, u))
                  => \A b \in DescrambleWord(v) \ BitsOf(g) : b \in DescrambleWord(u)
    BY <1>1, <2>2, WordByGroups DEF DescrambleWord
  <2> QED
    BY <2>1, <2>3
<1> QED
  BY <1>2, <1>3

(* No picture is lost by descrambling: descrambleWord's tables are            *)
(* permutations of groups that share out the 32 bits, so different words      *)
(* stay different, whatever the memory holds.                                 *)
THEOREM DescramblingIsInvertible == BlnSpec => []DescrambleIsInvertible
<1>1. DescrambleIsInvertible
  <2> DEFINE words == {WordOf(mem[at], mem[at + 1]) : at \in 0..(MemTop - 1)}
             images == {DescrambleWord(w) : w \in words}
             f == [w \in words |-> DescrambleWord(w)]
  <2>1. words \subseteq SUBSET (0..31)
    BY DEF WordOf
  <2>2. IsFiniteSet(words)
    <3>1. IsFiniteSet(SUBSET (0..31))
      <4> DEFINE last == 31
                 bits == 0..last
      <4>1. last \in Int
        OBVIOUS
      <4> HIDE DEF last
      <4>2. IsFiniteSet(bits)
        BY <4>1, FS_Interval
      <4> HIDE DEF bits
      <4>3. IsFiniteSet(SUBSET bits)
        BY <4>2, FS_SUBSET, Zenon
      <4> QED
        BY <4>3 DEF bits, last
    <3> HIDE DEF words
    <3> QED
      BY <2>1, <3>1, FS_Subset
  <2>3. f \in Bijection(words, images)
    BY <2>1, WordIsInjective DEF Bijection, Injection, Surjection, IsInjective
  <2>4. Cardinality(images) = Cardinality(words)
    <3> HIDE DEF f, words, images
    <3> QED
      BY <2>2, <2>3, FS_Bijection DEF ExistsBijection
  <2> QED
    BY <2>4, GroupsArePermuted DEF DescrambleIsInvertible
<1> QED
  BY <1>1, PTL
==============================================================================
