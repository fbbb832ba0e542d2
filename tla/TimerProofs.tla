----------------------------- MODULE TimerProofs -----------------------------
(* Proofs about the timers of Timers, for every set of timers, every set of   *)
(* stored values and every set of interrupt lines.                            *)
EXTENDS Timers, PicProofs, FiniteSetTheorems

------------------------------------------------------------------------------
\* Raising the line for n overflows leaves it up, and none leaves it alone; what
\* the controller hands over it also queues.
LEMMA RaiseLineEffect ==
  ASSUME pic \in PicState, NEW n \in Nat
  PROVE  /\ RaiseLine(n) \in PicState
         /\ n = 0 => RaiseLine(n) = pic
         /\ n # 0 => TimerIrq \in RaiseLine(n).pending
         /\ RaiseLine(n).fired \ pic.fired \subseteq RaiseLine(n).queued
         /\ pic.queued \subseteq RaiseLine(n).queued
<1> DEFINE p == [pic EXCEPT !.pending = @ \cup {TimerIrq}]
           handed == {i \in Waiting(p) :
                        Cardinality({j \in Waiting(p) : j > i}) < n}
           q == [p EXCEPT !.fired = @ \cup handed]
           r == [q EXCEPT !.queued = @ \cup handed]
<1>1. /\ p \in PicState /\ TimerIrq \in p.pending
      /\ p.fired = pic.fired /\ p.queued = pic.queued
  BY TimerAssumption DEF PicState
<1>2. handed \subseteq p.pending
  BY DEF Waiting
<1>3. /\ r \in PicState /\ r.pending = p.pending
      /\ r.fired = p.fired \cup handed /\ r.queued = p.queued \cup handed
  <2> HIDE DEF p, handed
  <2>1. handed \subseteq IRQ
    BY <1>1, <1>2 DEF PicState
  <2>2. /\ q \in PicState /\ q.pending = p.pending
        /\ q.fired = p.fired \cup handed /\ q.queued = p.queued
    BY <1>1, <2>1 DEF PicState
  <2> HIDE DEF q
  <2> QED
    BY <2>1, <2>2 DEF PicState
<1>4. n # 0 => RaiseLine(n) = r
  <2> HIDE DEF handed, p
  <2>1. r = [p EXCEPT !.fired = @ \cup handed, !.queued = @ \cup handed]
    BY <1>1, Zenon DEF PicState
  <2> QED
    BY <2>1, Zenon DEF RaiseLine, p, handed
<1>5. n = 0 => RaiseLine(n) = pic
  BY Zenon DEF RaiseLine
<1> HIDE DEF r, p, handed
<1>6. r.fired \ pic.fired \subseteq r.queued /\ pic.queued \subseteq r.queued
  BY <1>1, <1>3
<1> QED
  BY <1>1, <1>3, <1>4, <1>5, <1>6

\* The overflows of one tick are finitely many: they are counted by a number,
\* and that number is zero only if there is none.
LEMMA DueIsFinite ==
  ASSUME TypeOK, NEW is32
  PROVE  /\ Cardinality(Overflowing(is32) \cap irqEn) \in Nat
         /\ Cardinality(Overflowing(is32) \cap irqEn) = 0
              <=> Overflowing(is32) \cap irqEn = {}
<1> DEFINE due == Overflowing(is32) \cap irqEn
<1>1. due \subseteq Timer
  BY DEF Overflowing, Ticking, TypeOK
<1> HIDE DEF due
<1>2. IsFiniteSet(due)
  BY <1>1, FS_Subset, TimerAssumption
<1>3. Cardinality(due) \in Nat /\ (Cardinality(due) = 0 <=> due = {})
  BY <1>2, FS_CardinalityType, FS_EmptySet
<1> QED
  BY <1>3 DEF due

\* A tick that brings no interrupt due leaves lines, flags and history alone;
\* any other one flags its timers, leaves the line up and queues what it hands
\* over.
LEMMA AdvanceEffect ==
  ASSUME TypeOK, NEW is32, Advance(is32)
  PROVE  /\ pic' \in PicState
         /\ upcount' \in [Timer -> 0..(MaxCount + 1) \cup Preloads]
         /\ UNCHANGED <<en, irqEn, compare, preload, clk, serving, erased, stale>>
         /\ \/ pic' = pic /\ flag' = flag /\ covered' = covered
            \/ /\ TimerIrq \in pic'.pending
               /\ pic'.fired \ pic.fired \subseteq pic'.queued
               /\ pic.queued \subseteq pic'.queued
               /\ flag' \subseteq Timer /\ flag' # {}
               /\ covered' = {}
<1> DEFINE due == Overflowing(is32) \cap irqEn
<1> DEFINE n == Cardinality(due)
<1>1. n \in Nat /\ (n = 0 <=> due = {})
  BY DueIsFinite
<1>2. due \subseteq Timer
  BY DEF Overflowing, Ticking, TypeOK
<1>3. /\ pic' = RaiseLine(n)
      /\ flag' = flag \cup due
      /\ covered' = IF due = {} THEN covered ELSE {}
      /\ UNCHANGED <<en, irqEn, compare, preload, clk, serving, erased, stale>>
  BY Zenon DEF Advance
<1>4. upcount' \in [Timer -> 0..(MaxCount + 1) \cup Preloads]
  <2> DEFINE R == 0..(MaxCount + 1) \cup Preloads
             next(t) == IF t \in Overflowing(is32) THEN preload[t]
                        ELSE IF t \in Ticking(is32) THEN upcount[t] + 1
                        ELSE upcount[t]
  <2>1. ASSUME NEW t \in Timer PROVE next(t) \in R
    <3>1. preload[t] \in R
      <4>1. preload[t] \in Preloads \cup {0} /\ 0 \in 0..(MaxCount + 1)
        BY TimerAssumption DEF TypeOK
      <4> QED BY <4>1
    <3>2. upcount[t] \in R /\ upcount[t] \in Nat
      <4>1. upcount[t] \in R
        BY DEF TypeOK
      <4>2. R \subseteq Nat
        BY TimerAssumption
      <4> QED BY <4>1, <4>2
    <3>3. CASE t \in Ticking(is32) \ Overflowing(is32)
      <4>1. ~(upcount[t] > MaxCount)
        BY <3>3 DEF Overflowing
      <4>2. upcount[t] + 1 \in 0..(MaxCount + 1)
        BY <3>2, <4>1, TimerAssumption
      <4> QED BY <3>3, <4>2
    <3> QED BY <3>1, <3>2, <3>3
  <2>2. upcount' = [t \in Timer |-> next(t)]
    BY Zenon DEF Advance
  <2> HIDE DEF next
  <2> QED BY <2>1, <2>2
<1> HIDE DEF due, n
<1>5. pic \in PicState /\ flag \subseteq Timer
  BY DEF TypeOK
<1>6. CASE due = {}
  BY <1>1, <1>3, <1>4, <1>5, <1>6, RaiseLineEffect
<1>7. CASE due # {}
  BY <1>1, <1>2, <1>3, <1>4, <1>5, <1>7, RaiseLineEffect
<1> QED
  BY <1>6, <1>7

------------------------------------------------------------------------------
\* The inductive invariant joins the three that relate flags, line and handler.
\* What was handed over is up, unless a soft reset cleared the line: so a handler
\* that finds no flag leaves a line that has lost its cause.
FiredIsUp == TimerIrq \in pic.fired => TimerIrq \in pic.pending \/ stale

FlagsAndLine == LineHasCause /\ FlagHoldsLine /\ FiredIsUp /\ FiredIsServed

LEMMA InitTypeOK == Init => TypeOK
<1> SUFFICES ASSUME Init PROVE TypeOK
  OBVIOUS
<1>1. pic \in PicState
  BY InitialPic DEF Init
<1>2. /\ preload \in [Timer -> Preloads \cup {0}]
      /\ upcount \in [Timer -> 0..(MaxCount + 1) \cup Preloads]
  <2>1. 0 \in 0..(MaxCount + 1)
    BY TimerAssumption
  <2> QED BY <2>1 DEF Init
<1>3. \E d \in Dividers \cup {1} : divCount \in 0..(d - 1)
  <2>1. 1 \in Dividers \cup {1} /\ 0 \in 0..(1 - 1)
    OBVIOUS
  <2> QED BY <2>1 DEF Init
<1>4. /\ en \subseteq Timer /\ irqEn \subseteq Timer /\ flag \subseteq Timer
      /\ compare \subseteq Timer /\ slow \subseteq Timer
      /\ divider \in Dividers \cup {0}
      /\ covered \subseteq Timer
      /\ serving \in BOOLEAN /\ erased \in BOOLEAN /\ stale \in BOOLEAN
  BY DEF Init
<1> QED
  BY <1>1, <1>2, <1>3, <1>4, Zenon DEF TypeOK

\* What a tick of either clock keeps.
LEMMA AdvanceKeeps ==
  ASSUME TypeOK, FlagsAndLine, NEW is32, Advance(is32),
         (\E d \in Dividers \cup {1} : divCount \in 0..(d - 1))'
  PROVE  TypeOK' /\ FlagsAndLine'
<1>1. FlagsAndLine'
  BY AdvanceEffect DEF FlagsAndLine, LineHasCause, FlagHoldsLine, FiredIsUp,
     FiredIsServed
<1>2. /\ flag' \subseteq Timer /\ covered' \subseteq Timer
      /\ serving' \in BOOLEAN /\ erased' \in BOOLEAN /\ stale' \in BOOLEAN
  BY AdvanceEffect DEF TypeOK
<1>3. /\ en' \subseteq Timer /\ irqEn' \subseteq Timer /\ compare' \subseteq Timer
      /\ preload' \in [Timer -> Preloads \cup {0}]
      /\ slow' \subseteq Timer /\ divider' \in Dividers \cup {0}
  BY AdvanceEffect DEF TypeOK, clk
<1> QED
  BY <1>1, <1>2, <1>3, AdvanceEffect, Zenon DEF TypeOK

\* The divider lets its count grow up to itself and starts it again.
LEMMA TicksKeep ==
  ASSUME TypeOK, FlagsAndLine, TickMain \/ Tick32k
  PROVE  TypeOK' /\ FlagsAndLine'
<1>1. CASE TickMain /\ divCount + 1 < divider
  <2>1. divCount' = divCount + 1 /\ UNCHANGED held
    BY <1>1 DEF TickMain
  <2>2. divCount \in Nat
    BY TimerAssumption DEF TypeOK
  <2>3. divider \in Dividers /\ divCount' \in 0..(divider - 1)
    <3>1. divider \in Nat
      BY TimerAssumption DEF TypeOK
    <3>2. divider # 0
      BY <1>1, <2>2, <3>1
    <3> QED
      BY <1>1, <2>1, <2>2, <3>1, <3>2 DEF TypeOK
  <2>4. (\E d \in Dividers \cup {1} : divCount \in 0..(d - 1))'
    BY <2>1, <2>3 DEF held, clk
  <2>5. TypeOK'
    BY <2>1, <2>4 DEF TypeOK, held, ctrl, hist, clk
  <2> QED
    BY <2>1, <2>5 DEF FlagsAndLine, LineHasCause, FlagHoldsLine,
       FiredIsUp, FiredIsServed, held, ctrl, hist
<1>2. CASE TickMain /\ ~(divCount + 1 < divider)
  <2>1. divCount' = 0 /\ Advance(FALSE)
    BY <1>2 DEF TickMain
  <2>2. (\E d \in Dividers \cup {1} : divCount \in 0..(d - 1))'
    <3>1. 1 \in Dividers \cup {1} /\ 0 \in 0..(1 - 1)
      OBVIOUS
    <3> QED BY <2>1, <3>1
  <2> QED
    BY <2>1, <2>2, AdvanceKeeps
<1>3. CASE Tick32k
  <2>1. Advance(TRUE) /\ divCount' = divCount
    BY <1>3 DEF Tick32k
  <2>2. (\E d \in Dividers \cup {1} : divCount \in 0..(d - 1))'
    BY <2>1 DEF TypeOK
  <2> QED
    BY <2>1, <2>2, AdvanceKeeps
<1> QED
  BY <1>1, <1>2, <1>3

\* A store to a control register, from the handler or from elsewhere, drops the
\* line only when it acknowledges.
LEMMA WriteCtrlKeeps ==
  ASSUME TypeOK, FlagsAndLine, NEW t \in Timer,
         NEW e \in BOOLEAN, NEW i \in BOOLEAN, NEW f \in BOOLEAN,
         WriteCtrl(t, e, i, f),
         \/ UNCHANGED serving
         \/ f /\ serving' = FALSE
  PROVE  TypeOK' /\ FlagsAndLine'
<1> DEFINE acks == f \/ ~e \/ ~i
<1>1. /\ en' = SetBit(en, t, e) /\ irqEn' = SetBit(irqEn, t, i)
      /\ flag' = flag \ {t}
      /\ pic' = IF acks THEN SetIRQState(pic, TimerIrq, FALSE) ELSE pic
      /\ covered' = IF acks THEN flag \ {t} ELSE covered \ {t}
      /\ erased' = (~acks /\ (erased \/ (t \in flag /\ TimerIrq \in pic.pending)))
      /\ stale' = (stale /\ ~acks)
      /\ UNCHANGED <<compare, preload, upcount, clk, divCount>>
  BY Zenon DEF WriteCtrl
<1>0. f => acks
  OBVIOUS
<1> HIDE DEF acks
<1>2. TimerIrq \in IRQ /\ pic \in PicState
  BY TimerAssumption DEF TypeOK
<1>3. /\ pic' \in PicState
      /\ acks => TimerIrq \notin pic'.pending \cup pic'.fired
      /\ ~acks => pic' = pic
  BY <1>1, <1>2, LowerEffect
<1>4. TypeOK'
  BY <1>1, <1>3 DEF TypeOK, SetBit, clk
<1>5. CASE acks
  BY <1>1, <1>3, <1>4, <1>5
     DEF FlagsAndLine, LineHasCause, FlagHoldsLine, FiredIsUp, FiredIsServed
<1>6. CASE ~acks
  BY <1>0, <1>1, <1>3, <1>4, <1>6
     DEF FlagsAndLine, LineHasCause, FlagHoldsLine, FiredIsUp, FiredIsServed
<1> QED
  BY <1>5, <1>6

\* The other stores change neither flags nor line.
LEMMA OtherStoresKeep ==
  ASSUME TypeOK, FlagsAndLine,
         \/ \E t \in Timer : WriteCcp(t)
         \/ \E t \in Timer, v \in Preloads : WritePreload(t, v) \/ WriteUpcount(t, v)
         \/ \E S \in SUBSET Timer, d \in Dividers : WriteClkSel(S, d),
         UNCHANGED serving
  PROVE  TypeOK' /\ FlagsAndLine'
<1>1. UNCHANGED <<en, irqEn, flag, divCount, pic, serving, covered, erased, stale>>
  BY DEF WriteCcp, WritePreload, WriteUpcount, WriteClkSel, ctrl, hist
<1>2. FlagsAndLine'
  BY <1>1
     DEF FlagsAndLine, LineHasCause, FlagHoldsLine, FiredIsUp, FiredIsServed
<1>3. CASE \E t \in Timer : WriteCcp(t)
  BY <1>1, <1>2, <1>3 DEF TypeOK, WriteCcp, SetBit, clk
<1>4. CASE \E t \in Timer, v \in Preloads : WritePreload(t, v) \/ WriteUpcount(t, v)
  BY <1>1, <1>2, <1>4 DEF TypeOK, WritePreload, WriteUpcount, clk
<1>5. CASE \E S \in SUBSET Timer, d \in Dividers : WriteClkSel(S, d)
  BY <1>1, <1>2, <1>5 DEF TypeOK, WriteClkSel
<1> QED
  BY <1>3, <1>4, <1>5

LEMMA ResetKeeps ==
  ASSUME TypeOK, FlagsAndLine, SoftReset
  PROVE  TypeOK' /\ FlagsAndLine'
<1>1. pic \in PicState
  BY DEF TypeOK
<1>2. pic' = [IRQDeviceReset(pic) EXCEPT !.queued = {}]
  BY DEF SoftReset
<1>3. pic' \in PicState /\ pic'.pending = {} /\ pic'.fired = pic.fired
  BY <1>1, <1>2, ResetEffect
<1>4. 0 \in 0..(MaxCount + 1)
  BY TimerAssumption
<1>5. /\ preload' \in [Timer -> Preloads \cup {0}]
      /\ upcount' \in [Timer -> 0..(MaxCount + 1) \cup Preloads]
  BY <1>4 DEF SoftReset
<1>6. /\ en' = {} /\ irqEn' = {} /\ flag' = {} /\ compare' = {} /\ slow' = {}
      /\ divider' = 0 /\ covered' = {} /\ divCount' = divCount
      /\ serving' = FALSE /\ erased' = FALSE /\ stale' = (TimerIrq \in pic.fired)
  BY DEF SoftReset
<1>7. serving' \in BOOLEAN /\ erased' \in BOOLEAN /\ stale' \in BOOLEAN
  <2>1. (TimerIrq \in pic.fired) \in BOOLEAN
    BY SMT
  <2> QED BY <1>6, <2>1
<1>8. TypeOK'
  BY <1>3, <1>5, <1>6, <1>7 DEF TypeOK
<1> QED
  BY <1>3, <1>6, <1>8
     DEF FlagsAndLine, LineHasCause, FlagHoldsLine, FiredIsUp, FiredIsServed

LEMMA CpuKeeps ==
  ASSUME TypeOK, FlagsAndLine, CpuTakes
  PROVE  TypeOK' /\ FlagsAndLine'
<1>1. pic' = [pic EXCEPT !.queued = @ \ {TimerIrq}] /\ serving' = TRUE
      /\ UNCHANGED <<ctrl, compare, preload, upcount, clk, divCount, hist>>
  BY DEF CpuTakes
<1>2. pic \in PicState
  BY DEF TypeOK
<1>3. pic' \in PicState /\ pic'.pending = pic.pending /\ pic'.fired = pic.fired
  BY <1>1, <1>2, DequeueEffect
<1>4. TypeOK'
  BY <1>1, <1>3 DEF TypeOK, ctrl, clk, hist
<1> QED
  BY <1>1, <1>3, <1>4 DEF FlagsAndLine, LineHasCause, FlagHoldsLine,
     FiredIsUp, FiredIsServed, ctrl, hist

\* A handler that finds a timer flagged acknowledges it; one that finds none
\* leaves a line that is down or has lost its cause.
LEMMA ServeKeeps ==
  ASSUME TypeOK, FlagsAndLine, Serve
  PROVE  TypeOK' /\ FlagsAndLine'
<1>1. serving' = FALSE
  BY DEF Serve
<1>2. CASE \E t \in flag : WriteCtrl(t, TRUE, TRUE, TRUE)
  <2>1. PICK t \in Timer : WriteCtrl(t, TRUE, TRUE, TRUE)
    BY <1>2 DEF TypeOK
  <2> QED
    BY <1>1, <2>1, WriteCtrlKeeps
<1>3. CASE /\ flag = {}
           /\ UNCHANGED <<ctrl, compare, preload, upcount, clk, divCount, pic, hist>>
  <2>1. TypeOK'
    BY <1>1, <1>3 DEF TypeOK, ctrl, clk, hist
  <2> QED
    BY <1>1, <1>3, <2>1 DEF FlagsAndLine, LineHasCause, FlagHoldsLine,
       FiredIsUp, FiredIsServed, ctrl, hist
<1> QED
  BY <1>2, <1>3 DEF Serve

LEMMA StepKeeps == TypeOK /\ FlagsAndLine /\ [Next]_vars => (TypeOK /\ FlagsAndLine)'
<1> SUFFICES ASSUME TypeOK, FlagsAndLine, [Next]_vars
             PROVE  TypeOK' /\ FlagsAndLine'
  OBVIOUS
<1>1. CASE TickMain \/ Tick32k
  BY <1>1, TicksKeep
<1>2. CASE /\ \E t \in Timer, e, i, f \in BOOLEAN : WriteCtrl(t, e, i, f)
           /\ UNCHANGED serving
  BY <1>2, WriteCtrlKeeps
<1>3. CASE SoftReset
  BY <1>3, ResetKeeps
<1>4. CASE CpuTakes
  BY <1>4, CpuKeeps
<1>5. CASE /\ \/ \E t \in Timer : WriteCcp(t)
              \/ \E t \in Timer, v \in Preloads : WritePreload(t, v) \/ WriteUpcount(t, v)
              \/ \E S \in SUBSET Timer, d \in Dividers : WriteClkSel(S, d)
           /\ UNCHANGED serving
  BY <1>5, OtherStoresKeep, Zenon
<1>6. CASE Serve
  BY <1>6, ServeKeeps
<1>7. CASE UNCHANGED vars
  BY <1>7 DEF vars, held, ctrl, clk, hist, TypeOK,
     FlagsAndLine, LineHasCause, FlagHoldsLine, FiredIsUp, FiredIsServed
<1> QED
  BY <1>1, <1>2, <1>3, <1>4, <1>5, <1>6, <1>7, Zenon DEF Next, GuestStep

LEMMA InductiveTimers == Spec => [](TypeOK /\ FlagsAndLine)
<1>1. Init => FlagsAndLine
  BY DEF Init, PicInit, FlagsAndLine, LineHasCause, FlagHoldsLine, FiredIsUp,
     FiredIsServed
<1> QED
  BY <1>1, InitTypeOK, StepKeeps, PTL DEF Spec

\* An interrupt of the timers has a cause and a handler: while the line is up
\* some timer is flagged, unless a store erased its flag without acknowledging,
\* and what was handed over is queued or being served, unless that store or a
\* soft reset came between.
THEOREM LinesHaveCauses == Spec => []TimerInv
<1>1. TypeOK /\ FlagsAndLine => TimerInv
  BY DEF TimerInv, FlagsAndLine
<1> QED
  BY <1>1, InductiveTimers, PTL

\* And no flag is forgotten: a timer is flagged without its line only after a
\* store to another timer dropped it.
THEOREM FlagsHoldTheLine == Spec => []FlagHoldsLine
<1>1. TypeOK /\ FlagsAndLine => FlagHoldsLine
  BY DEF FlagsAndLine
<1> QED
  BY <1>1, InductiveTimers, PTL
==============================================================================
