----------------------------- MODULE SoundProofs -----------------------------
(* Proofs about Sound, for any channels, queue, limits and step of the period. *)
EXTENDS Sound, PicProofs

------------------------------------------------------------------------------
(* Queue and period. *)

\* The parts of AudioInv that both threads work on.
ThreadsInv ==
  /\ main \in {"guest", "lock", "test", "load", "store", "unlock", "ticks"}
  /\ audio \in {"fill", "test", "load", "store"}
  /\ buf \in 0..(MaxBuf - 1)
  /\ period \in Int /\ mainSaw \in Int /\ audioSaw \in Int
  /\ mutex = "main" <=> main \in {"test", "load", "store", "unlock"}
  /\ Near(period) /\ TestsHold

LEMMA Limits ==
  /\ MaxBuf \in Nat /\ Dropped \in Nat /\ Low \in Nat /\ Dropped + Low + 1 < MaxBuf
  /\ FirstPeriod \in Nat /\ MinPeriod \in Nat /\ MaxPeriod \in Nat
  /\ MinPeriod <= FirstPeriod /\ FirstPeriod <= MaxPeriod
  /\ PeriodStep \in Nat /\ PeriodStep > 0
BY SoundAssumption

\* SPUUpdate's part: the queue is cut at its limit, and the stored period is a
\* step above one that was below the greatest.
LEMMA EmulationKeepsThreads ==
  ASSUME ThreadsInv, Emulation
  PROVE  ThreadsInv'
<1> USE Limits DEF ThreadsInv, TestsHold, Near, queue, audioVars, mainVars
<1>1. CASE UpdateBegins
  BY <1>1 DEF UpdateBegins
<1>2. CASE PushSample
  BY <1>2 DEF PushSample
<1>3. CASE TestSlower
  BY <1>3 DEF TestSlower
<1>4. CASE LoadSlower
  BY <1>4 DEF LoadSlower
<1>5. CASE StoreSlower
  BY <1>5 DEF StoreSlower
<1>6. CASE Unlock
  BY <1>6 DEF Unlock
<1>7. CASE SpuTick
  BY <1>7 DEF SpuTick
<1>8. CASE OnlyRegisters
  BY <1>8 DEF OnlyRegisters
<1> QED
  BY <1>1, <1>2, <1>3, <1>4, <1>5, <1>6, <1>7, <1>8
  DEF Emulation, WriteEnable, WriteChannel, WriteBeat, WriteBeatPeriod, CpuTakes,
      SoftReset

\* The callback's part, with the mirror image of the argument.
LEMMA CallbackKeepsThreads ==
  ASSUME ThreadsInv, AudioCallback
  PROVE  ThreadsInv'
<1> USE Limits DEF ThreadsInv, TestsHold, Near, queue, audioVars, mainVars
<1>1. CASE TakeSample
  BY <1>1 DEF TakeSample
<1>2. CASE TestFaster
  BY <1>2 DEF TestFaster
<1>3. CASE LoadFaster
  BY <1>3 DEF LoadFaster
<1>4. CASE StoreFaster
  BY <1>4 DEF StoreFaster
<1> QED
  BY <1>1, <1>2, <1>3, <1>4 DEF AudioCallback

LEMMA ThreadsStay == Spec => []ThreadsInv
<1>1. Init => ThreadsInv
  BY Limits DEF Init, ThreadsInv, TestsHold, Near
<1>2. ThreadsInv /\ [Next]_vars => ThreadsInv'
  <2> SUFFICES ASSUME ThreadsInv, [Next]_vars PROVE ThreadsInv'
    OBVIOUS
  <2>1. CASE UNCHANGED vars
    BY <2>1 DEF ThreadsInv, TestsHold, Near, vars, queue, audioVars, mainVars
  <2> QED
    BY <2>1, EmulationKeepsThreads, CallbackKeepsThreads DEF Next
<1> QED
  BY <1>1, <1>2, PTL DEF Spec

------------------------------------------------------------------------------
(* Channels. *)

\* What BusyMeansEnabled says of a channel.
Good == {c \in ChannelState : (c.chen => c.chsts) /\ (c.chsts => (c.chen \/ c.again))}

LEMMA StopKeepsGood == ASSUME NEW c \in Good PROVE stop_channel(c) \in Good
BY DEF Good, ChannelState, stop_channel

LEMMA EndKeepsGood == ASSUME NEW c \in Good PROVE EndOfData(c) \in Good
<1>1. CASE c.tonerel
  BY <1>1 DEF EndOfData, Good, ChannelState
<1>2. CASE ~c.tonerel /\ c.tone = "loop"
  BY <1>2 DEF EndOfData, start_channel, Good, ChannelState
<1>3. CASE ~c.tonerel /\ c.tone # "loop"
  BY <1>3, StopKeepsGood DEF EndOfData
<1> QED
  BY <1>1, <1>2, <1>3

\* Whichever of ramp, envelope and data end in a tick.
LEMMA TickKeepsGood ==
  ASSUME NEW c \in Good, NEW d \in tick_channel(c)
  PROVE  d \in Good
<1> DEFINE ramped == {c} \cup (IF c.rampdown THEN {stop_channel(c)} ELSE {})
           enveloped == ramped \cup {stop_channel(e) : e \in ramped}
           sampled == {IF e.tone = "soft" THEN stop_channel(e) ELSE e : e \in enveloped}
<1>1. ramped \subseteq Good
  BY StopKeepsGood
<1>2. enveloped \subseteq Good
  <2> HIDE DEF ramped
  <2> QED BY <1>1, StopKeepsGood
<1>3. sampled \subseteq Good
  <2> HIDE DEF enveloped
  <2> QED BY <1>2, StopKeepsGood
<1>4. \/ d = c
      \/ d \in enveloped \cup sampled \cup {EndOfData(e) : e \in sampled}
  BY DEF tick_channel
<1> HIDE DEF enveloped, sampled
<1> QED
  BY <1>2, <1>3, <1>4, EndKeepsGood

\* A store to chen.
LEMMA EnableKeepsGood ==
  ASSUME NEW c \in Good, NEW on \in BOOLEAN, NEW e,
         e = IF on /\ ~c.chen THEN start_channel(c)
             ELSE IF ~on /\ c.chen THEN stop_channel(c) ELSE c
  PROVE  [e EXCEPT !.chen = on, !.again = @ /\ ~on] \in Good
<1>1. CASE on /\ ~c.chen
  BY <1>1 DEF start_channel, Good, ChannelState
<1>2. CASE ~on /\ c.chen
  BY <1>2 DEF stop_channel, Good, ChannelState
<1>3. CASE on <=> c.chen
  BY <1>3 DEF Good, ChannelState
<1> QED
  BY <1>1, <1>2, <1>3

ChannelsInv == chan \in [Channel -> Good]

LEMMA EnablesKeepChannels ==
  ASSUME ChannelsInv, NEW S \in SUBSET Channel, WriteEnable(S)
  PROVE  ChannelsInv'
<1> DEFINE e(c) == IF c \in S /\ ~chan[c].chen THEN start_channel(chan[c])
                   ELSE IF c \notin S /\ chan[c].chen THEN stop_channel(chan[c])
                   ELSE chan[c]
           next(c) == [e(c) EXCEPT !.chen = c \in S, !.again = @ /\ c \notin S]
<1>1. ASSUME NEW c \in Channel PROVE next(c) \in Good
  <2>1. chan[c] \in Good /\ (c \in S) \in BOOLEAN
    BY DEF ChannelsInv
  <2> QED
    BY <2>1, EnableKeepsGood
<1>2. chan' = [c \in Channel |-> next(c)]
  BY DEF WriteEnable
<1> HIDE DEF next
<1> QED
  BY <1>1, <1>2 DEF ChannelsInv

LEMMA SilentIsGood == Silent \in Good
BY DEF Silent, Good, ChannelState

LEMMA StepKeepsChannels ==
  ASSUME ChannelsInv, [Next]_vars
  PROVE  ChannelsInv'
<1>1. CASE UNCHANGED chan
  BY <1>1 DEF ChannelsInv
<1>2. CASE SpuTick
  <2>1. \A c \in Channel : chan'[c] \in tick_channel(chan[c])
    BY <1>2 DEF SpuTick
  <2>2. \A c \in Channel : chan'[c] \in Good
    BY <2>1, TickKeepsGood DEF ChannelsInv
  <2>3. chan' \in [Channel -> UNION {tick_channel(chan[c]) : c \in Channel}]
    BY <1>2 DEF SpuTick
  <2> QED
    BY <2>2, <2>3 DEF ChannelsInv
<1>3. ASSUME NEW S \in SUBSET Channel, WriteEnable(S) PROVE ChannelsInv'
  BY <1>3, EnablesKeepChannels
<1>4. ASSUME NEW c \in Channel, NEW tone \in {"soft", "once", "loop"},
             NEW ramp \in BOOLEAN, NEW rel \in BOOLEAN,
             WriteChannel(c, tone, ramp, rel)
      PROVE  ChannelsInv'
  <2> DEFINE d == [chan[c] EXCEPT !.tone = tone, !.rampdown = ramp, !.tonerel = rel]
  <2>1. chan' = [chan EXCEPT ![c] = d]
    BY <1>4, Zenon DEF WriteChannel, ChannelsInv
  <2>2. d \in Good
    BY DEF ChannelsInv, Good, ChannelState
  <2> HIDE DEF d
  <2> QED
    BY <2>1, <2>2 DEF ChannelsInv
<1>5. CASE SoftReset
  BY <1>5, SilentIsGood DEF SoftReset, ChannelsInv
<1>6. UpdateBegins \/ PushSample \/ TestSlower \/ LoadSlower \/ StoreSlower \/ Unlock
      => UNCHANGED chan
  BY DEF UpdateBegins, PushSample, TestSlower, LoadSlower, StoreSlower, Unlock, guest
<1>7. AudioCallback \/ CpuTakes \/ UNCHANGED vars => UNCHANGED chan
  BY DEF AudioCallback, TakeSample, TestFaster, LoadFaster, StoreFaster, CpuTakes,
         vars, guest
<1>8. (\E en, ack \in BOOLEAN, cnt \in Beats : WriteBeat(en, ack, cnt))
        \/ (\E p \in BeatPeriods : WriteBeatPeriod(p))
      => UNCHANGED chan
  BY DEF WriteBeat, WriteBeatPeriod
<1> QED
  BY <1>1, <1>2, <1>3, <1>4, <1>5, <1>6, <1>7, <1>8 DEF Next, Emulation

LEMMA ChannelsStay == Spec => []ChannelsInv
<1>1. Init => ChannelsInv
  BY SilentIsGood DEF Init, ChannelsInv
<1>2. ChannelsInv /\ [Next]_vars => ChannelsInv'
  BY StepKeepsChannels
<1> QED
  BY <1>1, <1>2, PTL DEF Spec

\* Busy channels play and channels that play are busy, the one exception apart: for
\* any number of channels.
THEOREM BusyChannelsPlay == Spec => []BusyMeansEnabled
<1>1. ChannelsInv => BusyMeansEnabled
  BY DEF ChannelsInv, Good, BusyMeansEnabled
<1> QED
  BY <1>1, ChannelsStay, PTL

------------------------------------------------------------------------------
(* The beat. *)

BeatInv ==
  /\ beat \in [en : BOOLEAN, st : BOOLEAN, cnt : Nat] /\ base \in Nat
  /\ pic \in PicState /\ erased \in BOOLEAN
  /\ BeatLineHasCause

LEMMA SoundLine == SoundIrq \in IRQ
BY SoundAssumption

\* A beat is counted down, and the last one raises the line.
LEMMA BeatKeepsCause ==
  ASSUME BeatInv, Beat
  PROVE  BeatInv'
<1> DEFINE due == beat.en /\ base + 1 >= beatPeriod
           last == due /\ beat.cnt = 1
           cnt == IF due /\ beat.cnt > 0 THEN beat.cnt - 1 ELSE beat.cnt
<1>1. beat.en \in BOOLEAN /\ beat.st \in BOOLEAN /\ beat.cnt \in Nat
  BY DEF BeatInv
<1>2. cnt \in Nat /\ last \in BOOLEAN /\ (beat.st \/ last) \in BOOLEAN
  BY <1>1
<1>3. base' \in Nat
  BY DEF Beat, BeatInv
<1>4. /\ beat' = [beat EXCEPT !.cnt = cnt, !.st = beat.st \/ last]
      /\ pic' = IF last THEN SetIRQState(pic, SoundIrq, TRUE) ELSE pic
      /\ erased' = (erased /\ ~last)
  BY Zenon DEF Beat
<1> HIDE DEF cnt, last
<1>5. /\ beat' \in [en : BOOLEAN, st : BOOLEAN, cnt : Nat]
      /\ beat'.st <=> (beat.st \/ last)
  BY <1>2, <1>4, Zenon DEF BeatInv
<1>6. CASE last
  <2>1. /\ pic' \in PicState /\ pic'.pending = pic.pending \cup {SoundIrq}
    BY <1>4, <1>6, SoundLine, RaiseEffect DEF BeatInv
  <2> QED
    BY <1>3, <1>4, <1>5, <1>6, <2>1 DEF BeatInv, BeatLineHasCause
<1>7. CASE ~last
  <2>1. pic' = pic /\ erased' = erased /\ (beat'.st <=> beat.st)
    BY <1>2, <1>4, <1>5, <1>7 DEF BeatInv
  <2> QED
    BY <1>3, <1>5, <2>1 DEF BeatInv, BeatLineHasCause
<1> QED
  BY <1>6, <1>7

\* A store with the status bit drops line and status, one without keeps the line.
LEMMA StoreKeepsCause ==
  ASSUME BeatInv, NEW en \in BOOLEAN, NEW ack \in BOOLEAN, NEW cnt \in Beats,
         WriteBeat(en, ack, cnt)
  PROVE  BeatInv'
<1>1. beat' \in [en : BOOLEAN, st : BOOLEAN, cnt : Nat] /\ ~beat'.st
  BY SoundAssumption DEF WriteBeat
<1>2. base' = base
  BY DEF WriteBeat, OnlyRegisters
<1>3. CASE ack
  <2>1. pic' \in PicState /\ pic'.pending = pic.pending \ {SoundIrq}
    BY <1>3, SoundLine, LowerEffect DEF WriteBeat, BeatInv
  <2>2. ~erased' /\ erased' \in BOOLEAN
    BY <1>3 DEF WriteBeat
  <2> QED
    BY <1>1, <1>2, <2>1, <2>2 DEF BeatInv, BeatLineHasCause
<1>4. CASE ~ack
  <2>1. pic' = pic /\ (erased' <=> (erased \/ beat.st)) /\ erased' \in BOOLEAN
    BY <1>4 DEF WriteBeat
  <2> QED
    BY <1>1, <1>2, <2>1 DEF BeatInv, BeatLineHasCause
<1> QED
  BY <1>3, <1>4

LEMMA StepKeepsBeat ==
  ASSUME BeatInv, [Next]_vars
  PROVE  BeatInv'
<1>1. CASE UNCHANGED <<beat, base, pic, erased>>
  BY <1>1 DEF BeatInv, BeatLineHasCause
<1>2. CASE SpuTick
  BY <1>2, BeatKeepsCause DEF SpuTick
<1>3. ASSUME NEW en \in BOOLEAN, NEW ack \in BOOLEAN, NEW cnt \in Beats,
             WriteBeat(en, ack, cnt)
      PROVE  BeatInv'
  BY <1>3, StoreKeepsCause
<1>4. CASE CpuTakes
  <2>1. pic' \in PicState /\ pic'.pending = pic.pending
    BY <1>4, DequeueEffect DEF CpuTakes, BeatInv
  <2>2. UNCHANGED <<beat, base, erased>>
    BY <1>4 DEF CpuTakes, OnlyRegisters, guest
  <2> QED
    BY <2>1, <2>2 DEF BeatInv, BeatLineHasCause
<1>5. CASE SoftReset
  <2>1. pic' \in PicState /\ pic'.pending = {}
    BY <1>5, ResetEffect DEF SoftReset, BeatInv
  <2>2. beat' = NoBeat /\ base' = base /\ erased' = FALSE
    BY <1>5 DEF SoftReset, OnlyRegisters
  <2> QED
    BY <2>1, <2>2 DEF BeatInv, BeatLineHasCause, NoBeat
<1>6. UpdateBegins \/ PushSample \/ TestSlower \/ LoadSlower \/ StoreSlower \/ Unlock
      => UNCHANGED <<beat, base, pic, erased>>
  BY DEF UpdateBegins, PushSample, TestSlower, LoadSlower, StoreSlower, Unlock, guest
<1>7. AudioCallback \/ UNCHANGED vars => UNCHANGED <<beat, base, pic, erased>>
  BY DEF AudioCallback, TakeSample, TestFaster, LoadFaster, StoreFaster, vars, guest
<1>8. ASSUME NEW S \in SUBSET Channel, WriteEnable(S)
      PROVE  UNCHANGED <<beat, base, pic, erased>>
  BY <1>8, Zenon DEF WriteEnable, OnlyRegisters
<1>9. ASSUME NEW c, NEW tone, NEW ramp, NEW rel, WriteChannel(c, tone, ramp, rel)
      PROVE  UNCHANGED <<beat, base, pic, erased>>
  BY <1>9, Zenon DEF WriteChannel, OnlyRegisters
<1>10. ASSUME NEW p, WriteBeatPeriod(p) PROVE UNCHANGED <<beat, base, pic, erased>>
  BY <1>10 DEF WriteBeatPeriod, OnlyRegisters
<1> QED
  BY <1>1, <1>2, <1>3, <1>4, <1>5, <1>6, <1>7, <1>8, <1>9, <1>10
  DEF Next, Emulation

LEMMA BeatStays == Spec => []BeatInv
<1>1. Init => BeatInv
  <2> SUFFICES ASSUME Init PROVE BeatInv
    OBVIOUS
  <2>1. pic \in PicState /\ pic.pending = {}
    BY InitialPic DEF Init, PicInit
  <2>2. /\ beat \in [en : BOOLEAN, st : BOOLEAN, cnt : Nat] /\ ~beat.st
        /\ base \in Nat /\ ~erased /\ erased \in BOOLEAN
    BY DEF Init, NoBeat
  <2> QED
    BY <2>1, <2>2 DEF BeatInv, BeatLineHasCause
<1>2. BeatInv /\ [Next]_vars => BeatInv'
  BY StepKeepsBeat
<1> QED
  BY <1>1, <1>2, PTL DEF Spec

\* The line of the beat is up exactly while there is a cause, for any beats.
THEOREM BeatLinesHaveCauses == Spec => []BeatLineHasCause
<1>1. BeatInv => BeatLineHasCause
  BY DEF BeatInv
<1> QED
  BY <1>1, BeatStays, PTL

\* Queue and period keep their bounds in spite of the race, for any limits and any
\* step of the period.
THEOREM QueueAndPeriodStayInRange == Spec => []AudioInv
<1>1. ThreadsInv /\ ChannelsInv /\ BeatInv => AudioInv
  BY DEF ThreadsInv, ChannelsInv, Good, BeatInv, AudioInv, TypeOK
<1> QED
  BY <1>1, ThreadsStay, ChannelsStay, BeatStays, PTL
==============================================================================
