------------------------------- MODULE Timers --------------------------------
(***************************************************************************)
(* The timers of sys/timer.cpp with the clock selection register of the    *)
(* same file.  The timers share one interrupt line: every overflow raises  *)
(* it and every write of a control register that acknowledges or disables  *)
(* its own timer drops it for all of them.                                 *)
(*                                                                         *)
(* The main loop calls TimerTick after every fourth instruction and, on    *)
(* its own schedule, for the 32 kHz clock; the guest's stores fall between *)
(* two ticks.                                                              *)
(***************************************************************************)
EXTENDS Pic, FiniteSets

CONSTANTS
  Timer,      \* the timers: 0..5
  MaxCount,   \* the last value TIMER_UPCOUNT is incremented from: 16^^FFFF
  Preloads,   \* values the guest stores to TIMER_PRELOAD and TIMER_UPCOUNT
  Dividers    \* values of the low byte of CKG_TMR_CLKSEL

TimerIrq == 56

ASSUME TimerAssumption ==
  /\ TimerIrq \in IRQ
  /\ IsFiniteSet(Timer)
  /\ MaxCount \in Nat
  /\ Preloads \subseteq Nat
  /\ Dividers \subseteq 0..255

VARIABLES
  en, irqEn, flag,  \* the timers whose control register has EN, IRQ_EN, FLAG
  compare,          \* the timers in a capture or compare mode: they stand still
  preload, upcount, \* TIMER_PRELOAD, TIMER_UPCOUNT
  slow,             \* the timers that run on the 32 kHz clock
  divider,          \* low byte of CKG_TMR_CLKSEL
  divCount,         \* div_count
  pic,
  serving,          \* the guest's handler was entered and has not come to its store
  covered,          \* history: flagged timers whose line another one dropped
  erased,           \* history: a store cleared a FLAG and kept the line, which
                    \* has not dropped since
  stale             \* history: a soft reset came behind intsFired, and the line
                    \* was not acknowledged since

ctrl == <<en, irqEn, flag>>
clk  == <<slow, divider>>
hist == <<covered, erased, stale>>
held == <<ctrl, compare, preload, upcount, clk, pic, serving, hist>>
vars == <<held, divCount>>

TypeOK ==
  /\ en \subseteq Timer /\ irqEn \subseteq Timer /\ flag \subseteq Timer
  /\ compare \subseteq Timer
  /\ preload \in [Timer -> Preloads \cup {0}]
  /\ upcount \in [Timer -> 0..(MaxCount + 1) \cup Preloads]
  /\ slow \subseteq Timer
  /\ divider \in Dividers \cup {0}
  /\ \E d \in Dividers \cup {1} : divCount \in 0..(d - 1)
  /\ pic \in PicState
  /\ covered \subseteq Timer
  /\ serving \in BOOLEAN /\ erased \in BOOLEAN /\ stale \in BOOLEAN

Init ==
  /\ en = {} /\ irqEn = {} /\ flag = {} /\ compare = {}
  /\ preload = [t \in Timer |-> 0]
  /\ upcount = [t \in Timer |-> 0]
  /\ slow = {} /\ divider = 0 /\ divCount = 0
  /\ pic = PicInit
  /\ serving = FALSE
  /\ covered = {} /\ erased = FALSE /\ stale = FALSE

------------------------------------------------------------------------------
(* TimerTick. *)

\* Timers the tick of a clock advances, and those of them that overflow.
Ticking(is32) == {t \in en \ compare : (t \in slow) = is32}
Overflowing(is32) == {t \in Ticking(is32) : upcount[t] > MaxCount}

\* SetIRQState(56, true), once per overflow: each call hands over the highest
\* line that still waits.
RaiseLine(n) ==
  LET p == [pic EXCEPT !.pending = @ \cup {TimerIrq}]
      handed == {i \in Waiting(p) : Cardinality({j \in Waiting(p) : j > i}) < n}
  IN  IF n = 0 THEN pic
      ELSE [p EXCEPT !.fired = @ \cup handed, !.queued = @ \cup handed]

Advance(is32) ==
  LET due == Overflowing(is32) \cap irqEn
  IN  /\ upcount' = [t \in Timer |->
                       IF t \in Overflowing(is32) THEN preload[t]
                       ELSE IF t \in Ticking(is32) THEN upcount[t] + 1
                       ELSE upcount[t]]
      /\ pic' = RaiseLine(Cardinality(due))
      /\ flag' = flag \cup due
      /\ covered' = IF due = {} THEN covered ELSE {}
      /\ UNCHANGED <<en, irqEn, compare, preload, clk, serving, erased, stale>>

\* Wrong variant: the count of calls is never started again.
TickMainKeepsCounting ==
  /\ divCount' = divCount + 1
  /\ IF divCount + 1 < divider THEN UNCHANGED held
     ELSE Advance(FALSE)

\* The divider counts calls for the main clock: a divider of 0 or 1 lets all
\* of them through.
TickMain ==
  /\ IF divCount + 1 < divider
       THEN divCount' = divCount + 1 /\ UNCHANGED held
       ELSE divCount' = 0 /\ Advance(FALSE)

Tick32k == Advance(TRUE) /\ UNCHANGED divCount

------------------------------------------------------------------------------
(* The guest's stores: TimerDeviceWriteHandler and CKGDeviceWriteHandler. *)

SetBit(S, t, b) == IF b THEN S \cup {t} ELSE S \ {t}

\* Wrong variant: every store drops the line.
WriteCtrlAlwaysAcks(t, e, i, f) ==
  LET acks == f \/ ~e \/ ~i
  IN  /\ en' = SetBit(en, t, e)
      /\ irqEn' = SetBit(irqEn, t, i)
      /\ flag' = flag \ {t}
      /\ pic' = SetIRQState(pic, TimerIrq, FALSE)
      /\ covered' = IF acks THEN flag \ {t} ELSE covered \ {t}
      /\ erased' = (~acks /\ (erased \/ (t \in flag /\ TimerIrq \in pic.pending)))
      /\ stale' = (stale /\ ~acks)
      /\ UNCHANGED <<compare, preload, upcount, clk, divCount>>

\* The register takes the value; FLAG written as one, or either enable as zero,
\* acknowledges: the line drops and FLAG is cleared.
WriteCtrl(t, e, i, f) ==
  LET acks == f \/ ~e \/ ~i
  IN  /\ en' = SetBit(en, t, e)
      /\ irqEn' = SetBit(irqEn, t, i)
      /\ flag' = flag \ {t}
      /\ pic' = IF acks THEN SetIRQState(pic, TimerIrq, FALSE) ELSE pic
      /\ covered' = IF acks THEN flag \ {t} ELSE covered \ {t}
      /\ erased' = (~acks /\ (erased \/ (t \in flag /\ TimerIrq \in pic.pending)))
      /\ stale' = (stale /\ ~acks)
      /\ UNCHANGED <<compare, preload, upcount, clk, divCount>>

WriteCcp(t) ==
  /\ compare' = SetBit(compare, t, t \notin compare)
  /\ UNCHANGED <<ctrl, preload, upcount, clk, divCount, pic, hist>>

\* A preload takes effect at once.
WritePreload(t, v) ==
  /\ preload' = [preload EXCEPT ![t] = v]
  /\ upcount' = [upcount EXCEPT ![t] = v]
  /\ UNCHANGED <<ctrl, compare, clk, divCount, pic, hist>>

WriteUpcount(t, v) ==
  /\ upcount' = [upcount EXCEPT ![t] = v]
  /\ UNCHANGED <<ctrl, compare, preload, clk, divCount, pic, hist>>

WriteClkSel(S, d) ==
  /\ slow' = S
  /\ divider' = d
  /\ UNCHANGED <<ctrl, compare, preload, upcount, divCount, pic, hist>>

\* Soft reset: the registers of the timers, the clocks and the controller, and
\* the CPU's queue; not div_count.
SoftReset ==
  /\ en' = {} /\ irqEn' = {} /\ flag' = {} /\ compare' = {}
  /\ preload' = [t \in Timer |-> 0]
  /\ upcount' = [t \in Timer |-> 0]
  /\ slow' = {} /\ divider' = 0
  /\ pic' = [IRQDeviceReset(pic) EXCEPT !.queued = {}]
  /\ serving' = FALSE
  /\ covered' = {} /\ erased' = FALSE /\ stale' = (TimerIrq \in pic.fired)
  /\ UNCHANGED divCount

\* The CPU enters the interrupt.
CpuTakes ==
  /\ TimerIrq \in pic.queued
  /\ pic' = [pic EXCEPT !.queued = @ \ {TimerIrq}]
  /\ serving' = TRUE
  /\ UNCHANGED <<ctrl, compare, preload, upcount, clk, divCount, hist>>

\* The guest's handler acknowledges a timer it finds flagged; it does nothing if
\* it finds none.
Serve ==
  /\ serving
  /\ serving' = FALSE
  /\ \/ \E t \in flag : WriteCtrl(t, TRUE, TRUE, TRUE)
     \/ /\ flag = {}
        /\ UNCHANGED <<ctrl, compare, preload, upcount, clk, divCount, pic, hist>>

\* Stores from elsewhere in the guest.
GuestStep ==
  /\ \/ \E t \in Timer, e, i, f \in BOOLEAN : WriteCtrl(t, e, i, f)
     \/ \E t \in Timer : WriteCcp(t)
     \/ \E t \in Timer, v \in Preloads : WritePreload(t, v) \/ WriteUpcount(t, v)
     \/ \E S \in SUBSET Timer, d \in Dividers : WriteClkSel(S, d)
  /\ UNCHANGED serving

Next == TickMain \/ Tick32k \/ GuestStep \/ CpuTakes \/ Serve \/ SoftReset

Spec == Init /\ [][Next]_vars

\* The main loop ticks the main clock, the CPU enters what is queued, and a
\* handler that was entered comes to its store.
LiveSpec ==
  Spec /\ WF_vars(TickMain) /\ WF_vars(CpuTakes) /\ WF_vars(Serve)

------------------------------------------------------------------------------
\* While a timer is flagged the line is up, so its interrupt can still come; the
\* one exception is a timer whose line a write to another timer dropped, until
\* any timer next overflows.
FlagHoldsLine == flag # {} /\ TimerIrq \notin pic.pending => flag \subseteq covered

\* While the line is up some timer is flagged, so the handler finds its cause;
\* the one exception is a control store that erased FLAG without acknowledging.
LineHasCause == TimerIrq \in pic.pending => flag # {} \/ erased

\* What the controller has handed over is on its way to the CPU or is being
\* served, so intsFired, which keeps the line from interrupting again, is taken
\* back by an acknowledgement to come.  Two things leave it set with nobody to
\* take it back: a store that erases FLAG, since the handler finds nothing to
\* acknowledge, and a soft reset, which forgets the queue.
FiredIsServed ==
  TimerIrq \in pic.fired => TimerIrq \in pic.queued \/ serving \/ erased \/ stale

TimerInv == TypeOK /\ LineHasCause /\ FiredIsServed

\* A running timer interrupts for ever although its handler acknowledges only
\* when it was entered: no order of overflows, entries and acknowledgements, of
\* this timer and the others, leaves the line up or handed over with no handler
\* to come, the two exceptions of FiredIsServed apart.  Those can end the
\* interrupts for good.
Steady == TickMain \/ Tick32k \/ CpuTakes \/ Serve
Running(t) == t \in (en \cap irqEn) \ (compare \cup slow)
RunningTimerInterrupts ==
  \A t \in Timer :
    (<>[](Running(t) /\ ~erased /\ ~stale) /\ <>[][Steady]_vars)
      => []<>(TimerIrq \in pic.queued)
==============================================================================
