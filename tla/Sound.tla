-------------------------------- MODULE Sound --------------------------------
(***************************************************************************)
(* The sound unit of audio/spu.cpp: channels and beat interrupt, as the    *)
(* emulation thread's SPUUpdate advances them, and the queue of samples    *)
(* and the sample period it shares with SDL's audio thread.                *)
(*                                                                         *)
(* SPUUpdate and audio_callback touch audio_buf under spu_buf_mutex, but   *)
(* the callback changes samp_period without it; each of its accesses is a  *)
(* step.  Guest and main loop run between two calls of SPUUpdate.          *)
(*                                                                         *)
(* A channel's data and its envelope may end at any tick.  Left out: what  *)
(* is heard, the software channel, stores to the channels' status and      *)
(* saved states.                                                           *)
(***************************************************************************)
EXTENDS Pic

CONSTANTS
  Channel,           \* 0..23
  MaxBuf, Dropped,   \* max_buf_size and what an overflow drops: 4096, 100
  Low,               \* what the callback leaves in the queue: 8
  Samples,           \* samples of a callback: 256
  FirstPeriod, MinPeriod, MaxPeriod, PeriodStep,   \* 20833, 20700, 20920, 20
  BeatPeriods,       \* ticks of a beat the guest may choose
  Beats              \* beats the guest may ask for

SoundIrq == 62       \* spu_beat_irq

ASSUME SoundAssumption ==
  /\ SoundIrq \in IRQ
  /\ {MaxBuf, Dropped, Low} \subseteq Nat /\ Dropped + Low + 1 < MaxBuf
  /\ Samples \in Nat \ {0}
  /\ {FirstPeriod, MinPeriod, MaxPeriod} \subseteq Nat /\ PeriodStep \in Nat \ {0}
  /\ FirstPeriod \in MinPeriod..MaxPeriod
  /\ BeatPeriods \subseteq Nat /\ Beats \subseteq Nat

VARIABLES
  chan,              \* registers of the channels
  beat,              \* spu_beatcnt: enable bit, status bit, count
  beatPeriod, base,  \* four times spu_beatbasecnt; beat_base_count
  pic,
  buf, period,       \* size of audio_buf; samp_period
  mutex,             \* spu_buf_mutex; the callback holds it within one step
  main, mainSaw,     \* the emulation thread and the period it has read
  audio, taken, dry, audioSaw,   \* the callback: samples done, underflow
  erased             \* history: a store overwrote the beat's status bit

guest == <<beatPeriod, chan, beat>>
queue == <<buf, mutex>>
mainVars == <<main, mainSaw>>
audioVars == <<audio, taken, dry, audioSaw>>
vars == <<guest, base, pic, queue, period, mainVars, audioVars, erased>>

\* Bits of chen, chsts, ch_rampdown and ch_tonerel, and the tone mode; again: the
\* loop was started again in the tick that disabled the channel (history).
ChannelState ==
  [chen : BOOLEAN, chsts : BOOLEAN, rampdown : BOOLEAN, tonerel : BOOLEAN,
   tone : {"soft", "once", "loop"}, again : BOOLEAN]
Silent == [chen |-> FALSE, chsts |-> FALSE, rampdown |-> FALSE,
           tonerel |-> FALSE, tone |-> "soft", again |-> FALSE]
NoBeat == [en |-> FALSE, st |-> FALSE, cnt |-> 0]

Init ==
  /\ chan = [c \in Channel |-> Silent]
  /\ beat = NoBeat /\ beatPeriod = 0 /\ base = 0
  /\ pic = PicInit
  /\ buf = 0 /\ period = FirstPeriod /\ mutex = "free"
  /\ main = "guest" /\ mainSaw = 0
  /\ audio = "fill" /\ taken = 0 /\ dry = FALSE /\ audioSaw = 0
  /\ erased = FALSE

------------------------------------------------------------------------------
(* Channels. *)

start_channel(c) == [c EXCEPT !.chsts = TRUE]

\* Wrong variant: the channel goes on being busy.
stop_channel_busy(c) == [c EXCEPT !.chen = FALSE, !.rampdown = FALSE]

stop_channel(c) ==
  [c EXCEPT !.chen = FALSE, !.chsts = FALSE, !.rampdown = FALSE]

\* The data ended.
EndOfData(c) ==
  IF c.tonerel THEN [c EXCEPT !.tonerel = FALSE]
  ELSE IF c.tone = "loop" THEN [start_channel(c) EXCEPT !.again = ~c.chen]
  ELSE stop_channel(c)

\* What tick_channel may leave.  It goes on to the sample after ramp or envelope
\* have stopped the channel.
tick_channel(c) ==
  LET ramped == {c} \cup (IF c.rampdown THEN {stop_channel(c)} ELSE {})
      enveloped == ramped \cup {stop_channel(d) : d \in ramped}
      sampled == {IF d.tone = "soft" THEN stop_channel(d) ELSE d : d \in enveloped}
  IN  IF c.chen THEN enveloped \cup sampled \cup {EndOfData(d) : d \in sampled}
      ELSE {c}

------------------------------------------------------------------------------
(* SPUUpdate, in the emulation thread. *)

\* A period has passed.
UpdateBegins ==
  /\ main = "guest" /\ main' = "lock"
  /\ UNCHANGED <<guest, base, pic, queue, period, mainSaw, audioVars, erased>>

PushSample ==
  /\ main = "lock" /\ mutex = "free"
  /\ mutex' = "main"
  /\ IF buf + 1 >= MaxBuf THEN buf' = MaxBuf - Dropped - 1 /\ main' = "test"
     ELSE buf' = buf + 1 /\ main' = "unlock"
  /\ UNCHANGED <<guest, base, pic, period, mainSaw, audioVars, erased>>

TestSlower ==
  /\ main = "test"
  /\ main' = IF period < MaxPeriod THEN "load" ELSE "unlock"
  /\ UNCHANGED <<guest, base, pic, queue, period, mainSaw, audioVars, erased>>

LoadSlower ==
  /\ main = "load" /\ main' = "store" /\ mainSaw' = period
  /\ UNCHANGED <<guest, base, pic, queue, period, audioVars, erased>>

StoreSlower ==
  /\ main = "store" /\ main' = "unlock"
  /\ period' = mainSaw + PeriodStep /\ mainSaw' = 0
  /\ UNCHANGED <<guest, base, pic, queue, audioVars, erased>>

Unlock ==
  /\ main = "unlock" /\ main' = "ticks" /\ mutex' = "free"
  /\ UNCHANGED <<guest, base, pic, buf, period, mainSaw, audioVars, erased>>

\* The beat counts down once a beat period and interrupts when it gets to zero.
Beat ==
  LET due == beat.en /\ base + 1 >= beatPeriod
      last == due /\ beat.cnt = 1
  IN  /\ base' = IF beat.en /\ ~due THEN base + 1 ELSE 0
      /\ beat' = [beat EXCEPT !.cnt = IF due /\ @ > 0 THEN @ - 1 ELSE @,
                              !.st = @ \/ last]
      /\ pic' = IF last THEN SetIRQState(pic, SoundIrq, TRUE) ELSE pic
      /\ erased' = (erased /\ ~last)

\* One round of the loop; the code has five or six of them for each sample.
SpuTick ==
  /\ main = "ticks" /\ main' \in {"ticks", "guest"}
  /\ \E next \in [Channel -> UNION {tick_channel(chan[c]) : c \in Channel}] :
       /\ \A c \in Channel : next[c] \in tick_channel(chan[c])
       /\ chan' = next
  /\ Beat
  /\ UNCHANGED <<beatPeriod, queue, period, mainSaw, audioVars>>

------------------------------------------------------------------------------
(* audio_callback, in SDL's thread. *)

Filled == taken + 1 = Samples

\* One round of its loop.  A callback that never ran dry leaves the period alone,
\* and the next callback begins.
TakeSample ==
  /\ audio = "fill" /\ mutex = "free"
  /\ buf' = IF buf > Low THEN buf - 1 ELSE buf
  /\ taken' = IF Filled THEN 0 ELSE taken + 1
  /\ LET ranDry == dry \/ buf <= Low
     IN  IF Filled THEN dry' = FALSE /\ audio' = IF ranDry THEN "test" ELSE "fill"
         ELSE dry' = ranDry /\ UNCHANGED audio
  /\ UNCHANGED <<guest, base, pic, mutex, period, mainVars, audioSaw, erased>>

\* Wrong variant: the period has no lower limit.
TestFasterAlways ==
  /\ audio = "test" /\ audio' = "load"
  /\ UNCHANGED <<guest, base, pic, queue, period, mainVars, taken, dry, audioSaw,
                 erased>>

TestFaster ==
  /\ audio = "test"
  /\ audio' = IF period > MinPeriod THEN "load" ELSE "fill"
  /\ UNCHANGED <<guest, base, pic, queue, period, mainVars, taken, dry, audioSaw,
                 erased>>

LoadFaster ==
  /\ audio = "load" /\ audio' = "store" /\ audioSaw' = period
  /\ UNCHANGED <<guest, base, pic, queue, period, mainVars, taken, dry, erased>>

StoreFaster ==
  /\ audio = "store" /\ audio' = "fill"
  /\ period' = audioSaw - PeriodStep /\ audioSaw' = 0
  /\ UNCHANGED <<guest, base, pic, queue, mainVars, taken, dry, erased>>

------------------------------------------------------------------------------
(* The guest, while the emulation thread is not in SPUUpdate. *)

OnlyRegisters ==
  main = "guest" /\ UNCHANGED <<base, queue, period, mainVars, audioVars>>

\* A store to chen: enabling a channel starts it, disabling stops it.
WriteEnable(S) ==
  /\ OnlyRegisters
  /\ chan' = [c \in Channel |->
       LET d == chan[c]
           e == IF c \in S /\ ~d.chen THEN start_channel(d)
                ELSE IF c \notin S /\ d.chen THEN stop_channel(d) ELSE d
       IN  [e EXCEPT !.chen = c \in S, !.again = @ /\ c \notin S]]
  /\ UNCHANGED <<beat, beatPeriod, pic, erased>>

\* Stores to chan_mode, ch_rampdown and ch_tonerel.
WriteChannel(c, tone, ramp, rel) ==
  /\ OnlyRegisters
  /\ chan' = [chan EXCEPT ![c].tone = tone, ![c].rampdown = ramp, ![c].tonerel = rel]
  /\ UNCHANGED <<beat, beatPeriod, pic, erased>>

\* Wrong variant: an acknowledgement leaves the line up.
WriteBeatKeepsLine(en, ack, cnt) ==
  /\ OnlyRegisters
  /\ beat' = [en |-> en, st |-> FALSE, cnt |-> cnt]
  /\ erased' = (~ack /\ (erased \/ beat.st))
  /\ UNCHANGED <<pic, chan, beatPeriod>>

\* A store to spu_beatcnt: the status bit as one acknowledges, as zero it is
\* overwritten and the line stays up.
WriteBeat(en, ack, cnt) ==
  /\ OnlyRegisters
  /\ beat' = [en |-> en, st |-> FALSE, cnt |-> cnt]
  /\ pic' = IF ack THEN SetIRQState(pic, SoundIrq, FALSE) ELSE pic
  /\ erased' = (~ack /\ (erased \/ beat.st))
  /\ UNCHANGED <<chan, beatPeriod>>

WriteBeatPeriod(p) ==
  /\ OnlyRegisters
  /\ beatPeriod' = p
  /\ UNCHANGED <<chan, beat, pic, erased>>

CpuTakes ==
  /\ OnlyRegisters
  /\ SoundIrq \in pic.queued
  /\ pic' = [pic EXCEPT !.queued = @ \ {SoundIrq}]
  /\ UNCHANGED <<guest, erased>>

\* Registers and channels; not beat_base_count.
SoftReset ==
  /\ OnlyRegisters
  /\ chan' = [c \in Channel |-> Silent]
  /\ beat' = NoBeat /\ beatPeriod' = 0
  /\ pic' = [IRQDeviceReset(pic) EXCEPT !.queued = {}]
  /\ erased' = FALSE

Emulation ==
  \/ UpdateBegins \/ PushSample \/ TestSlower \/ LoadSlower \/ StoreSlower
  \/ Unlock \/ SpuTick
  \/ \E S \in SUBSET Channel : WriteEnable(S)
  \/ \E c \in Channel, tone \in {"soft", "once", "loop"}, ramp, rel \in BOOLEAN :
       WriteChannel(c, tone, ramp, rel)
  \/ \E en, ack \in BOOLEAN, cnt \in Beats : WriteBeat(en, ack, cnt)
  \/ \E p \in BeatPeriods : WriteBeatPeriod(p)
  \/ CpuTakes
  \/ SoftReset

AudioCallback == TakeSample \/ TestFaster \/ LoadFaster \/ StoreFaster

Next == Emulation \/ AudioCallback

Spec == Init /\ [][Next]_vars

------------------------------------------------------------------------------
(* Properties. *)

TypeOK ==
  /\ chan \in [Channel -> ChannelState]
  /\ beat \in [en : BOOLEAN, st : BOOLEAN, cnt : Nat] /\ base \in Nat
  /\ pic \in PicState
  /\ main \in {"guest", "lock", "test", "load", "store", "unlock", "ticks"}
  /\ audio \in {"fill", "test", "load", "store"}
  /\ buf \in 0..(MaxBuf - 1)
  /\ {period, mainSaw, audioSaw} \subseteq Int
  /\ erased \in BOOLEAN

\* The range samp_period may leave by less than one step.
Near(p) == MinPeriod - PeriodStep < p /\ p < MaxPeriod + PeriodStep

\* While a thread is between its test and its store, the other one cannot move
\* the period to where the test would have failed.
TestsHold ==
  /\ main = "load" => period < MaxPeriod
  /\ main = "store" => Near(mainSaw) /\ mainSaw < MaxPeriod
  /\ audio = "load" => period > MinPeriod
  /\ audio = "store" => Near(audioSaw) /\ audioSaw > MinPeriod

\* The queue stays below its limit, and samp_period leaves its range by less than
\* one step, though both threads test, load and store it without a common lock.
AudioInv ==
  /\ TypeOK
  /\ mutex = "main" <=> main \in {"test", "load", "store", "unlock"}
  /\ Near(period)
  /\ TestsHold

\* The line is up exactly while the status bit of spu_beatcnt tells why, but for
\* one case: a store without that bit erased it and left the line up.
BeatLineHasCause == SoundIrq \in pic.pending <=> (beat.st \/ erased)

\* A channel that plays is busy, and a busy one plays, but for a loop that is
\* started again in the tick whose ramp or envelope had disabled the channel.
BusyMeansEnabled ==
  \A c \in Channel : /\ chan[c].chen => chan[c].chsts
                     /\ chan[c].chsts => (chan[c].chen \/ chan[c].again)
==============================================================================
