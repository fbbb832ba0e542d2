----------------------------- MODULE InputProofs -----------------------------
(***************************************************************************)
(* What comes in from outside the machine: the infrared gamepads of        *)
(* Gamepad and the camera of CsiCapture.                                   *)
(*                                                                         *)
(* The gamepads, for any number of keys, any timing GamepadAssumption      *)
(* admits and any number of packets: every packet arrives whole, in order, *)
(* and every edge the guest misses is one it may miss.  The camera, for    *)
(* any number of lines, frame buffers and interrupt lines.                 *)
(***************************************************************************)
EXTENDS Gamepad, CsiCapture, PicProofs

------------------------------------------------------------------------------
(* THE GAMEPADS *)

\* The constants of the gamepads as numbers: what every proof about marks uses.
LEMMA PadNumbers ==
  /\ Keys \in Nat /\ Keys >= 2 /\ Width = Keys + 2 /\ Width \in Nat
  /\ TZero \in Nat /\ TOne \in Nat /\ TStart \in Nat /\ TStop \in Nat
  /\ Latency \in Nat /\ MaxEvents \in Nat
  /\ Latency <= TZero /\ TZero + 2 * Latency < TOne
  /\ TOne + 2 * Latency < TStart /\ TStart + 2 * Latency < TStop
  /\ Top = TStop + Latency + 2
  /\ Select \in 1..(Keys - 1)
BY GamepadAssumption DEF Width, Top

\* The lengths of the marks of the packet in the transmitter.
LEMMA MarkLengths ==
  ASSUME NEW n \in Int
  PROVE  /\ MarkLength(n) \in {TZero, TOne, TStart, TStop}
         /\ n = 0 => MarkLength(n) = TStart
         /\ n \in 1..Width => MarkLength(n) = IF Sent[n] THEN TOne ELSE TZero
         /\ n > Width => MarkLength(n) = TStop
BY PadNumbers DEF MarkLength

\* A mark is at least as long as the guest may be late.
LEMMA MarksAreLong ==
  ASSUME NEW n \in Int
  PROVE  /\ MarkLength(n) \in Nat
         /\ Latency <= MarkLength(n) /\ MarkLength(n) <= TStop
BY MarkLengths, PadNumbers

\* A measured mark is taken for what it is and for nothing else.
LEMMA MarksAreTold ==
  ASSUME PadTypeOK, NEW t \in {TZero, TOne, TStart, TStop}, Measured(t),
         NEW u \in {TZero, TOne, TStart, TStop}
  PROVE  Marks(u) <=> u = t
<1>1. since - waits \in (t + 1 - Latency)..(t + 1) /\ since \in Int /\ waits \in 0..Latency
  BY PadNumbers DEF Measured, PadTypeOK
<1>2. since \in (t + 1 - Latency)..(t + 1 + Latency)
  BY <1>1, PadNumbers
<1> QED
  BY <1>1, <1>2, PadNumbers DEF Marks

\* A guest that has not seen an edge yet takes nothing for a mark.
LEMMA NothingIsMeasured ==
  ASSUME since = Top, NEW u \in {TZero, TOne, TStart, TStop}
  PROVE  ~Marks(u)
BY PadNumbers DEF Marks

\* What has been measured stays measured while the interrupt waits.
LEMMA TimePasses ==
  ASSUME PadTypeOK, NEW t \in {TZero, TOne, TStart, TStop}, Measured(t),
         waits < Latency, waits' = waits + 1,
         since' = IF since < Top THEN since + 1 ELSE since
  PROVE  Measured(t)'
<1>1. since - waits \in (t + 1 - Latency)..(t + 1) /\ since \in Int /\ waits \in 0..Latency
  BY PadNumbers DEF Measured, PadTypeOK
<1>2. since < Top /\ since' - waits' = since - waits
  BY <1>1, PadNumbers
<1> QED
  BY <1>1, <1>2 DEF Measured

------------------------------------------------------------------------------
(* The interrupt. *)

\* FireInterrupt leaves the pin's interrupt queued exactly if the pin interrupts.
LEMMA FireEffect ==
  ASSUME PadTypeOK, PinIsQueued, FireInterrupt, pinEn' = pinEn
  PROVE  /\ padPic' \in PicState /\ pinSt' \in BOOLEAN /\ PinIsQueued'
         /\ Queued' <=> pinEn \/ Queued
<1> DEFINE i == GPIOInterrupt
           r == [padPic EXCEPT !.pending = @ \cup {i}]
<1>1. padPic \in PicState /\ i \in IRQ /\ pinEn \in BOOLEAN /\ pinSt \in BOOLEAN
  BY GamepadAssumption DEF PadTypeOK
<1>2. CASE ~pinEn
  BY <1>1, <1>2 DEF FireInterrupt, PinIsQueued, Queued
<1>3. CASE pinEn
  <2>1. pinSt' = TRUE /\ padPic' = ProcessInterrupts(r)
    BY <1>3 DEF FireInterrupt, SetIRQState
  <2>2. /\ r \in PicState /\ r.pending = {i} /\ r.mask = {}
        /\ r.fired = padPic.queued /\ r.queued = padPic.queued
        /\ padPic.queued = {} \/ padPic.queued = {i}
    BY <1>1, <1>3 DEF PinIsQueued, PicState
  <2> HIDE DEF r
  <2>3. CASE padPic.queued = {i}
    <3>1. padPic' = r
      BY <2>1, <2>2, <2>3 DEF ProcessInterrupts, Waiting
    <3> QED
      BY <1>3, <2>1, <2>2, <2>3, <3>1 DEF PinIsQueued, Queued
  <2>4. CASE padPic.queued = {}
    <3>1. Waiting(r) = {i}
      BY <2>2, <2>4 DEF Waiting
    <3>2. First(Waiting(r)) = i
      BY <1>1, <3>1, FirstIsHighest
    <3>3. padPic' = [r EXCEPT !.fired = @ \cup {i}, !.queued = @ \cup {i}]
      BY <2>1, <3>1, <3>2 DEF ProcessInterrupts
    <3>4. /\ padPic' \in PicState /\ padPic'.pending = {i} /\ padPic'.mask = {}
          /\ padPic'.fired = {i} /\ padPic'.queued = {i}
      BY <1>1, <2>2, <2>4, <3>3 DEF PicState
    <3> QED
      BY <1>3, <2>1, <3>4 DEF PinIsQueued, Queued
  <2> QED
    BY <2>2, <2>3, <2>4
<1> QED
  BY <1>1, <1>2, <1>3

\* Taking the interrupt leaves nothing of it on the line or in the queue.
LEMMA TakeEffect ==
  ASSUME PadTypeOK, PinIsQueued, GuestTakesEdge
  PROVE  padPic' \in PicState /\ PinIsQueued' /\ ~Queued' /\ pinEn
<1> DEFINE i == GPIOInterrupt
           r == [padPic EXCEPT !.queued = @ \ {i}]
<1>1. padPic \in PicState /\ i \in IRQ
  BY GamepadAssumption DEF PadTypeOK
<1>2. i \in padPic.queued /\ padPic' = SetIRQState(r, i, FALSE) /\ pinEn' = pinEn
  BY DEF GuestTakesEdge, Acknowledged
<1>3. pinEn /\ padPic.queued = {i} /\ padPic.pending = {i} /\ padPic.fired = {i}
      /\ padPic.mask = {}
  BY <1>2 DEF PinIsQueued
<1>4. r \in PicState /\ r.pending = {i} /\ r.fired = {i} /\ r.queued = {} /\ r.mask = {}
  BY <1>1, <1>3 DEF PicState
<1> HIDE DEF r
<1>5. /\ padPic' \in PicState /\ padPic'.pending = {} /\ padPic'.fired = {}
      /\ padPic'.queued = {} /\ padPic'.mask = {}
  BY <1>1, <1>2, <1>4 DEF SetIRQState, PicState
<1> QED
  BY <1>2, <1>3, <1>5 DEF PinIsQueued, Queued

\* When the guest lets the pin interrupt, nothing of an earlier edge is left.
LEMMA EnableEffect ==
  ASSUME PadTypeOK, PinIsQueued, GuestEnables
  PROVE  padPic' \in PicState /\ PinIsQueued' /\ ~Queued'
<1> DEFINE i == GPIOInterrupt
<1>1. padPic \in PicState /\ i \in IRQ
  BY GamepadAssumption DEF PadTypeOK
<1>2. ~pinEn /\ pinEn' /\ padPic' = SetIRQState(padPic, i, FALSE)
  BY DEF GuestEnables, Acknowledged
<1>3. padPic.queued = {} /\ padPic.pending = {} /\ padPic.fired \subseteq {i}
      /\ padPic.mask = {}
  BY <1>2 DEF PinIsQueued
<1>4. /\ padPic' \in PicState /\ padPic'.pending = {} /\ padPic'.fired = {}
      /\ padPic'.queued = {} /\ padPic'.mask = {}
  BY <1>1, <1>2, <1>3 DEF SetIRQState, PicState
<1> QED
  BY <1>2, <1>4 DEF PinIsQueued, Queued

\* A reset forgets the interrupt and disables the pin.
LEMMA ResetQueueEffect ==
  ASSUME PadTypeOK, PinIsQueued, PadSoftReset
  PROVE  padPic' \in PicState /\ PinIsQueued' /\ ~Queued'
<1>1. padPic \in PicState
  BY DEF PadTypeOK
<1>2. ~pinEn' /\ padPic' = [[padPic EXCEPT !.pending = {}, !.mask = {}] EXCEPT !.queued = {}]
  BY DEF PadSoftReset, IRQDeviceReset
<1>3. /\ padPic' \in PicState /\ padPic'.pending = {} /\ padPic'.fired = padPic.fired
      /\ padPic'.queued = {} /\ padPic'.mask = {}
  BY <1>1, <1>2 DEF PicState
<1> QED
  BY <1>2, <1>3 DEF PinIsQueued, Queued

------------------------------------------------------------------------------
(* The ticks. *)

ClockTicks ==
  /\ Queued => waits < Latency
  /\ since' = IF since < Top THEN since + 1 ELSE since
  /\ waits' = IF Queued THEN waits + 1 ELSE 0

\* What one tick does to the guest's timer and to its delay.
LEMMA ClockEffect ==
  ASSUME PadTypeOK, ClockTicks
  PROVE  /\ since' \in 0..Top /\ waits' \in 0..Latency
         /\ since = Top => since' = Top
         /\ since < Top => since' = since + 1
         /\ ~Queued => waits' = 0
         /\ Queued => waits' = waits + 1
BY PadNumbers DEF PadTypeOK, ClockTicks

\* A tick without an edge: the transmitter rests or counts down.
LEMMA QuietTick ==
  ASSUME PadTypeOK, TransmissionInv, ClockTicks, Rest \/ CountDown,
         UNCHANGED <<pinEn, rxState>>
  PROVE  TransmissionInv' /\ timer' \in 0..TStop
<1> USE DEF TransmissionInv
<1>1. /\ UNCHANGED <<packets, active, bits, sr, pinEn, pinSt, padPic, owed, disturbed, inPacket, rx>>
      /\ active => timer \in 1..TStop /\ timer' = timer - 1
      /\ ~active => timer' = timer
      /\ timer \in 0..TStop /\ bits \in -1..Width /\ timer' \in 0..TStop
      /\ since \in 0..Top /\ waits \in 0..Latency
  BY PadNumbers DEF Rest, CountDown, tx, padHist, rxState, PadTypeOK
<1>2. PinIsQueued' /\ Queued' = Queued /\ Ended' = Ended /\ Heard' = Heard /\ Idle' = Idle
      /\ Sent' = Sent
  BY <1>1 DEF PinIsQueued, Queued, Ended, Heard, Idle, Sent
<1>3. \A n : MarkLength(n)' = MarkLength(n)
  BY <1>2 DEF MarkLength
<1>4. Ended \in Int /\ Width - bits \in Int
  BY <1>1, PadNumbers DEF Ended
<1>5. active => Elapsed' = Elapsed + 1 /\ Elapsed \in Int /\ Elapsed < TStop
  BY <1>1, <1>3, <1>4, MarksAreLong, PadNumbers DEF Elapsed
<1>6. SenderSendsLast'
  <2> SUFFICES ASSUME active
               PROVE  /\ owed # <<>>
                      /\ timer' <= MarkLength(Width - bits)
                      /\ \A k \in 1..bits : sr[k] = Sent[k + Width - bits]
    BY <1>1, <1>2, <1>3 DEF SenderSendsLast
  <2>1. /\ owed # <<>> /\ timer <= MarkLength(Width - bits)
        /\ \A k \in 1..bits : sr[k] = Sent[k + Width - bits]
    BY DEF SenderSendsLast
  <2>2. MarkLength(Width - bits) \in Nat
    BY <1>4, MarksAreLong
  <2> QED
    BY <1>1, <2>1, <2>2
<1>7. DeafIsUnaware'
  BY <1>1, <1>2, ClockEffect DEF DeafIsUnaware
<1>8. ASSUME NEW t \in {TZero, TOne, TStart, TStop}, Queued, Measured(t)
      PROVE  Measured(t)'
  BY <1>8, TimePasses DEF ClockTicks
<1>9. GuestMeasures'
  <2>1. active /\ Queued => Elapsed' <= waits'
    BY <1>1, <1>5, ClockEffect DEF GuestMeasures
  <2>2. active /\ ~Queued /\ pinEn =>
          since' \in (Elapsed' - Latency)..Elapsed' \/ (disturbed /\ since' = Top)
    <3> SUFFICES ASSUME active, ~Queued, pinEn, ~(disturbed /\ since = Top)
                 PROVE  since' \in (Elapsed' - Latency)..Elapsed'
      BY ClockEffect
    <3>1. since \in (Elapsed - Latency)..Elapsed
      BY DEF GuestMeasures
    <3>2. since < Top
      BY <1>1, <1>5, <3>1, PadNumbers
    <3> QED
      BY <1>1, <1>5, <3>1, <3>2, ClockEffect, PadNumbers
  <2>3. active /\ disturbed /\ bits = Width => ~Queued /\ since' = Top
    BY ClockEffect DEF GuestMeasures
  <2>4. Queued /\ Ended >= 0 =>
          \/ Measured(MarkLength(Ended))' /\ (disturbed => Ended # 0)
          \/ disturbed /\ since' = Top
    <3> SUFFICES ASSUME Queued, Ended >= 0, Measured(MarkLength(Ended))
                 PROVE  Measured(MarkLength(Ended))'
      BY ClockEffect DEF GuestMeasures
    <3> QED
      BY <1>2, <1>3, <1>4, <1>8, MarkLengths DEF Measured
  <2> QED
    BY <1>1, <1>2, <1>3, <2>1, <2>2, <2>3, <2>4 DEF GuestMeasures
<1>10. GuestFollows'
  <2>1. InStep => InStep'
    BY <1>1, <1>2 DEF InStep
  <2>2. TwoInOne => TwoInOne'
    BY <1>1, <1>2, <1>8 DEF TwoInOne
  <2> QED
    BY <1>1, <1>2, <2>1, <2>2 DEF GuestFollows
<1> QED
  BY <1>1, <1>2, <1>6, <1>7, <1>9, <1>10

\* No edge is raised while the guest still waits to take the one before.
LEMMA EdgeFindsQueueEmpty ==
  ASSUME PadTypeOK, TransmissionInv, ClockTicks, active, timer = 0
  PROVE  ~Queued
<1> SUFFICES ASSUME Queued PROVE FALSE
  OBVIOUS
<1>1. Width - bits \in Int /\ waits \in Nat
  BY PadNumbers DEF PadTypeOK
<1>2. MarkLength(Width - bits) <= waits
  BY <1>1, MarksAreLong DEF TransmissionInv, GuestMeasures, Elapsed
<1> QED
  BY <1>1, <1>2, MarksAreLong, PadNumbers DEF ClockTicks

\* What an edge does to the transmitter: the next mark begins, if there is one.
LEMMA EdgeEffect ==
  ASSUME PadTypeOK, SenderSendsLast, Edge
  PROVE  /\ active' => /\ bits > -1 /\ bits' = bits - 1
                       /\ timer' = MarkLength(Width - bits')
                       /\ \A k \in 1..bits' : sr'[k] = Sent[k + Width - bits']
         /\ ~active' => bits = -1 /\ bits' = bits
         /\ Ended' = Width - bits
         /\ bits' \in -1..Width /\ timer' \in 0..TStop /\ sr' \in Words
         /\ active' \in BOOLEAN /\ owed' = owed /\ packets' = packets
         /\ disturbed' <=> disturbed \/ ~pinEn
<1>1. /\ active /\ timer = 0 /\ bits \in -1..Width /\ sr \in Words /\ Width \in Nat
      /\ \A k \in 1..bits : sr[k] = Sent[k + Width - bits]
      /\ owed' = owed /\ packets' = packets /\ (disturbed' <=> disturbed \/ ~pinEn)
  BY PadNumbers DEF PadTypeOK, Edge, SenderSendsLast
<1>2. CASE bits > 0
  <2>1. /\ timer' = IF sr[1] THEN TOne ELSE TZero
        /\ bits' = bits - 1 /\ sr' = Shifted /\ UNCHANGED active
    <3>1. NextMark /\ bits > 0 /\ bits # 0
      BY <1>1, <1>2 DEF Edge
    <3> QED
      BY <3>1, Zenon DEF NextMark
  <2>2. sr[1] = Sent[1 + Width - bits] /\ Width - bits' \in 1..Width
        /\ Width - bits' = 1 + Width - bits
    BY <1>1, <1>2, <2>1
  <2>3. timer' = MarkLength(Width - bits')
    BY <2>1, <2>2, MarkLengths
  <2>4. sr' \in Words
    BY <1>1, <2>1 DEF Shifted, Words
  <2>5. ASSUME NEW k \in 1..bits'
        PROVE  sr'[k] = Sent[k + Width - bits']
    <3>1. k \in 1..Width /\ k < Width /\ k + 1 \in 1..bits /\ k + 1 + Width - bits = k + Width - bits'
      BY <1>1, <1>2, <2>1
    <3>2. sr'[k] = sr[k + 1]
      BY <1>1, <2>1, <3>1 DEF Shifted, Words
    <3> QED
      BY <1>1, <3>1, <3>2
  <2>6. Ended' = Width - bits /\ bits' \in -1..Width
    BY <1>1, <1>2, <2>1 DEF Ended
  <2>7. timer' \in 0..TStop
    BY <2>1, PadNumbers
  <2> QED
    BY <1>1, <1>2, <2>1, <2>3, <2>4, <2>5, <2>6, <2>7
<1>3. CASE bits = 0
  <2>1. timer' = TStop /\ bits' = -1 /\ UNCHANGED <<sr, active>>
    BY <1>3 DEF Edge, NextMark
  <2>2. timer' = MarkLength(Width - bits')
    <3>1. Width - bits' \in Int /\ Width - bits' > Width
      BY <1>1, <2>1
    <3> QED
      BY <2>1, <3>1, MarkLengths
  <2>3. Ended' = Width - bits
    BY <1>1, <1>3, <2>1 DEF Ended
  <2> QED
    BY <1>1, <1>3, <2>1, <2>2, <2>3, PadNumbers
<1>4. CASE bits = -1
  <2>1. active' = FALSE /\ UNCHANGED <<timer, bits, sr>>
    BY <1>4 DEF Edge, NextMark
  <2>2. Ended' = Width - bits
    BY <1>1, <1>4, <2>1 DEF Ended
  <2>3. 0 \in 0..TStop
    BY PadNumbers
  <2> QED
    BY <1>1, <1>4, <2>1, <2>2, <2>3
<1> QED
  BY <1>1, <1>2, <1>3, <1>4

\* A tick that ends a mark.
LEMMA EdgeTick ==
  ASSUME PadTypeOK, TransmissionInv, ClockTicks, Edge, UNCHANGED <<pinEn, rxState>>
  PROVE  TransmissionInv'
<1> USE DEF TransmissionInv
<1>1. /\ active /\ timer = 0 /\ UNCHANGED <<inPacket, rx, owed, pinEn>>
      /\ bits \in -1..Width /\ Width \in Nat /\ Latency \in Nat /\ TStop \in Nat
      /\ Ended' = Width - bits /\ (disturbed' <=> disturbed \/ ~pinEn)
      /\ Width - bits \in Int
  BY EdgeEffect, PadNumbers DEF Edge, rxState, PadTypeOK
<1>2. ~Queued
  BY <1>1, EdgeFindsQueueEmpty
<1>3. PinIsQueued' /\ (Queued' <=> pinEn)
  BY <1>1, <1>2, FireEffect DEF Edge
<1>4. since = Top => since' = Top
  BY ClockEffect
<1>5. waits' = 0
  BY <1>2, ClockEffect
<1>6. Sent' = Sent /\ \A n : MarkLength(n)' = MarkLength(n)
  BY <1>1 DEF Sent, MarkLength
<1>7. SenderSendsLast'
  <2> SUFFICES ASSUME active'
               PROVE  /\ owed # <<>> /\ timer' <= MarkLength(Width - bits')
                      /\ \A k \in 1..bits' : sr'[k] = Sent[k + Width - bits']
    BY <1>1, <1>6 DEF SenderSendsLast
  <2>1. timer' \in Nat /\ timer' = MarkLength(Width - bits')
    BY EdgeEffect, PadNumbers
  <2> QED
    BY <1>1, <2>1, EdgeEffect DEF SenderSendsLast
<1>8. DeafIsUnaware'
  BY <1>1, <1>3, <1>4, <1>5 DEF DeafIsUnaware
<1>9. GuestMeasures'
  <2> DEFINE t == MarkLength(Width - bits)
  <2>1. active' => Elapsed' = 0 /\ bits' # Width
    <3> SUFFICES ASSUME active' PROVE Elapsed' = 0 /\ bits' # Width
      OBVIOUS
    <3>1. timer' = MarkLength(Width - bits') /\ bits' = bits - 1 /\ bits' \in Int
      BY <1>1, EdgeEffect
    <3>2. MarkLength(Width - bits') \in Nat
      BY <1>1, <3>1, MarksAreLong
    <3>3. Elapsed' = MarkLength(Width - bits') - timer'
      BY <1>6 DEF Elapsed
    <3> QED
      BY <1>1, <3>1, <3>2, <3>3
  <2>2. pinEn => \/ since' - waits' \in (t + 1 - Latency)..(t + 1) /\ (disturbed' => Ended' # 0)
                 \/ disturbed' /\ since' = Top
    <3> SUFFICES ASSUME pinEn, ~(disturbed /\ since = Top)
                 PROVE  /\ since' - waits' \in (t + 1 - Latency)..(t + 1)
                        /\ disturbed' => Ended' # 0
      BY <1>1, <1>4
    <3>1. t \in Nat /\ t <= TStop
      BY <1>1, MarksAreLong
    <3>2. since \in (t - Latency)..t
      BY <1>1, <1>2, <3>1, PadNumbers DEF GuestMeasures, Elapsed
    <3>3. since' = since + 1
      <4>1. since < Top
        BY <1>1, <3>1, <3>2, PadNumbers
      <4> QED
        BY <4>1, ClockEffect
    <3>4. since' - waits' \in (t + 1 - Latency)..(t + 1)
      BY <1>1, <1>5, <3>1, <3>2, <3>3
    <3>5. disturbed' => Ended' # 0
      <4>1. disturbed' <=> disturbed
        BY <1>1
      <4>2. disturbed /\ bits = Width => since = Top
        BY <1>1 DEF GuestMeasures
      <4> QED
        BY <1>1, <4>1, <4>2
    <3> QED
      BY <3>4, <3>5
  <2>3. MarkLength(Ended)' = t
    BY <1>1, <1>6 DEF MarkLength
  <2>4. Measured(MarkLength(Ended))' <=> since' - waits' \in (t + 1 - Latency)..(t + 1)
    BY <2>3 DEF Measured
  <2>5. active' /\ Queued' => Elapsed' <= waits'
    BY <1>5, <2>1
  <2> HIDE DEF t
  <2> QED
    BY <1>1, <1>3, <2>1, <2>2, <2>4, <2>5 DEF GuestMeasures
<1>10. GuestFollows'
  <2> SUFFICES ASSUME ~disturbed' PROVE InStep' /\ ~Idle'
    BY DEF GuestFollows
  <2>1. ~disturbed /\ pinEn /\ Queued' /\ ~Idle /\ ~Idle'
    BY <1>1, <1>3 DEF Idle
  <2>2. InStep
    BY <1>2, <2>1 DEF GuestFollows, TwoInOne
  <2>3. Heard = Width - bits - 1 /\ Heard' = Heard
    BY <1>1, <1>2, <2>1 DEF Heard, Ended
  <2> QED
    BY <1>1, <1>6, <2>1, <2>2, <2>3 DEF InStep
<1> QED
  BY <1>3, <1>7, <1>8, <1>9, <1>10

\* Two packets with the same bits are the same.
LEMMA WordsAreEqual ==
  ASSUME NEW f \in Words, NEW g \in Words, \A k \in 1..Width : f[k] = g[k]
  PROVE  f = g
<1>1. f = [k \in 1..Width |-> f[k]] /\ g = [k \in 1..Width |-> g[k]]
  BY DEF Words
<1> QED
  BY <1>1, Zenon

\* A packet that begins is the last one owed.
LEMMA LastIsAppended ==
  ASSUME NEW s \in Seq(Words), NEW w \in Words
  PROVE  LET t == s \o <<w>>
         IN  /\ t \in Seq(Words) /\ Len(t) = Len(s) + 1 /\ t[Len(t)] = w
             /\ Len(s) = 1 => Head(t) = s[1]
OBVIOUS

\* The packets owed: when one is, and when the first is gone.
LEMMA TheOneIsHead ==
  ASSUME NEW s \in Seq(Words), Len(s) = 1
  PROVE  s[1] = Head(s) /\ s # <<>> /\ s[1] \in Words
OBVIOUS

LEMMA RestIsShorter ==
  ASSUME NEW s \in Seq(Words), s # <<>>
  PROVE  Tail(s) \in Seq(Words) /\ (Len(s) <= 2 => Len(Tail(s)) <= 2)
OBVIOUS

\* What BeginPacket does to the transmitter and to the packets owed.
LEMMA BeginEffect ==
  ASSUME PadTypeOK, GuestFollows, BeginPacket
  PROVE  /\ active' /\ bits' = Width /\ timer' = TStart
         /\ sr' \in Words /\ packets' \in Seq(Words) /\ Len(packets') < Len(packets)
         /\ owed' \in Seq(Words) /\ owed' # <<>> /\ Sent' = sr'
         /\ disturbed \/ Idle => Len(owed') = 1
         /\ ~disturbed /\ ~Idle => Len(owed') = 2 /\ Head(owed') = Sent /\ InStep
<1> DEFINE s == IF disturbed THEN <<>> ELSE owed
           w == Head(packets)
<1>1. /\ ~active /\ packets # <<>> /\ packets \in Seq(Words) /\ owed \in Seq(Words)
      /\ active' = TRUE /\ bits' = Width /\ timer' = TStart
      /\ sr' = w /\ packets' = Tail(packets) /\ owed' = s \o <<w>>
  BY DEF BeginPacket, PadTypeOK
<1>2. w \in Words /\ packets' \in Seq(Words) /\ Len(packets') < Len(packets)
  BY <1>1
<1>3. s \in Seq(Words)
  BY <1>1
<1>4. disturbed \/ Idle => Len(s) = 0
  BY DEF GuestFollows
<1>5. ~disturbed /\ ~Idle => Len(s) = 1 /\ s[1] = Sent /\ InStep
  BY <1>1 DEF GuestFollows, TwoInOne, InStep, Sent
<1> HIDE DEF s, w
<1>6. /\ owed' \in Seq(Words) /\ Len(owed') = Len(s) + 1 /\ owed'[Len(owed')] = w
      /\ Len(s) = 1 => Head(owed') = s[1]
  BY <1>1, <1>2, <1>3, LastIsAppended
<1>7. Len(s) \in Nat
  BY <1>3
<1>8. Sent' = w
  BY <1>6 DEF Sent
<1>9. owed' # <<>>
  BY <1>6, <1>7
<1> QED
  BY <1>1, <1>2, <1>4, <1>5, <1>6, <1>7, <1>8, <1>9

\* A tick that begins a packet.
LEMMA StartTick ==
  ASSUME PadTypeOK, TransmissionInv, ClockTicks, BeginPacket,
         UNCHANGED <<pinEn, rxState>>
  PROVE  TransmissionInv'
<1> USE DEF TransmissionInv
<1>1. /\ ~active /\ active' /\ bits' = Width /\ timer' = TStart /\ Sent' = sr'
      /\ owed' # <<>> /\ (disturbed' <=> ~pinEn)
      /\ UNCHANGED <<pinEn, inPacket, rx>>
      /\ Width \in Nat /\ Latency \in Nat /\ waits' \in Nat
  <2>1. disturbed' = ~pinEn /\ ~active /\ UNCHANGED <<pinEn, inPacket, rx>>
    BY DEF BeginPacket, rxState
  <2>2. waits' \in Nat
    BY PadNumbers, ClockEffect
  <2>3. /\ active' /\ bits' = Width /\ timer' = TStart /\ Sent' = sr' /\ owed' # <<>>
    BY BeginEffect
  <2> QED
    BY <2>1, <2>2, <2>3, PadNumbers
<1>2. PinIsQueued' /\ (Queued' <=> pinEn \/ Queued)
  BY FireEffect DEF BeginPacket
<1>3. Queued => pinEn
  BY DEF PinIsQueued, Queued
<1>4. MarkLength(Width - bits)' = TStart /\ Elapsed' = 0 /\ Ended' = -1
      /\ (Queued' => Heard' = -2)
  <2>1. Width - bits' = 0 /\ Ended' = -1
    BY <1>1 DEF Ended
  <2>2. MarkLength(Width - bits)' = TStart
    BY <2>1 DEF MarkLength
  <2>3. Elapsed' = 0
    BY <1>1, <2>2, PadNumbers DEF Elapsed
  <2>4. Queued' => Heard' = Ended' - 1
    BY DEF Heard
  <2> QED
    BY <2>1, <2>2, <2>3, <2>4
<1>5. SenderSendsLast'
  <2> SUFFICES ASSUME NEW k \in 1..Width PROVE sr'[k] = Sent'[k + Width - Width]
    BY <1>1, <1>4, PadNumbers DEF SenderSendsLast
  <2> QED
    BY <1>1
<1>6. DeafIsUnaware'
  <2>1. disturbed' => ~inPacket /\ rx = <<>>
    BY <1>1 DEF DeafIsUnaware
  <2>2. ~pinEn => since' = Top
    BY ClockEffect DEF DeafIsUnaware
  <2>3. ~Queued' => waits' = 0
    BY <1>2, ClockEffect
  <2> QED
    BY <1>1, <2>1, <2>2, <2>3 DEF DeafIsUnaware
<1>7. GuestMeasures'
  <2>1. ~pinEn => since' = Top /\ ~Queued'
    BY <1>2, <1>3, ClockEffect DEF DeafIsUnaware
  <2>2. pinEn => Queued' /\ ~disturbed'
    BY <1>1, <1>2
  <2> QED
    BY <1>1, <1>4, <2>1, <2>2 DEF GuestMeasures
<1>8. GuestFollows'
  <2> SUFFICES ASSUME ~disturbed' PROVE TwoInOne' \/ InStep'
    BY <1>1 DEF GuestFollows, Idle
  <2>1. pinEn /\ Queued' /\ Heard' = -2
    BY <1>1, <1>2, <1>4
  <2>2. CASE disturbed \/ Idle
    <3>1. ~inPacket /\ rx = <<>> /\ Len(owed') = 1
      BY <2>2, BeginEffect DEF GuestFollows, DeafIsUnaware
    <3> QED
      BY <1>1, <2>1, <3>1 DEF InStep
  <2>3. CASE ~disturbed /\ ~Idle
    <3>1. InStep /\ Len(owed') = 2 /\ Head(owed') = Sent /\ Queued /\ Ended = Width + 1
          /\ Heard = Width
      BY <1>1, <2>3, BeginEffect DEF Idle, Ended, Heard
    <3>2. inPacket /\ rx = Sent
      <4>1. /\ inPacket /\ rx \in Seq(BOOLEAN) /\ Len(rx) = Width
            /\ \A k \in 1..Len(rx) : rx[k] = Sent[k]
        <5>1. Width \in Nat /\ Width > 0
          BY PadNumbers
        <5>2. inPacket /\ Len(rx) = Width
          BY <3>1, <5>1 DEF InStep
        <5>3. \A k \in 1..Len(rx) : rx[k] = Sent[k]
          BY <3>1 DEF InStep
        <5>4. rx \in Seq(BOOLEAN)
          BY DEF PadTypeOK
        <5> QED
          BY <5>2, <5>3, <5>4
      <4>2. Sent \in Words
        <5>1. owed \in Seq(Words) /\ Len(owed) = 1
          BY <3>1 DEF InStep, PadTypeOK
        <5>2. owed[1] \in Words
          BY <5>1
        <5> QED
          BY <5>1, <5>2 DEF Sent
      <4>3. rx \in Words
        BY <4>1 DEF Words
      <4>4. \A k \in 1..Width : rx[k] = Sent[k]
        BY <4>1
      <4>5. rx = Sent
        BY <4>2, <4>3, <4>4, WordsAreEqual
      <4> QED
        BY <4>1, <4>5
    <3>3. Measured(TStop)
      <4>1. Ended > Width /\ Ended \in Int /\ Ended >= 0
        BY <1>1, <3>1
      <4>2. MarkLength(Ended) = TStop
        BY <4>1, MarkLengths
      <4> QED
        BY <2>3, <3>1, <4>1, <4>2 DEF GuestMeasures
    <3>4. Measured(TStop)'
      <4>1. waits < Latency /\ waits' = waits + 1
            /\ since' = IF since < Top THEN since + 1 ELSE since
        BY <3>1 DEF ClockTicks
      <4> QED
        BY <3>3, <4>1, TimePasses
    <3> QED
      BY <1>1, <2>1, <3>1, <3>2, <3>4 DEF TwoInOne
  <2> QED
    BY <2>2, <2>3
<1> QED
  BY <1>2, <1>5, <1>6, <1>7, <1>8

------------------------------------------------------------------------------
(* The guest takes an edge. *)

\* What the handler does with the bits, for the mark it has measured.
LEMMA HandlerEffect ==
  ASSUME PadTypeOK, GuestTakesEdge, NEW t \in {TZero, TOne, TStart, TStop},
         Measured(t)
  PROVE  /\ Complete <=> inPacket /\ Len(rx) = Width /\ t = TStop
         /\ t = TZero => rx' = (IF MoreBits THEN Append(rx, FALSE) ELSE <<>>)
         /\ t = TOne => rx' = (IF MoreBits THEN Append(rx, TRUE) ELSE <<>>)
         /\ t \in {TStart, TStop} => rx' = <<>>
         /\ inPacket' <=> t = TStart \/ (MoreBits /\ t \in {TZero, TOne})
<1>1. \A u \in {TZero, TOne, TStart, TStop} : Marks(u) <=> u = t
  BY MarksAreTold
<1>2. TZero # TOne /\ TZero # TStart /\ TZero # TStop /\ TOne # TStart
      /\ TOne # TStop /\ TStart # TStop
  BY PadNumbers
<1>3. Complete <=> inPacket /\ Len(rx) = Width /\ t = TStop
  BY <1>1 DEF Complete
<1>4. /\ rx' = CASE MoreBits /\ Marks(TZero) -> Append(rx, FALSE)
                 [] MoreBits /\ Marks(TOne) -> Append(rx, TRUE)
                 [] OTHER -> <<>>
      /\ inPacket' = (Marks(TStart) \/ (MoreBits /\ (Marks(TZero) \/ Marks(TOne))))
  BY DEF GuestTakesEdge
<1>5. inPacket' <=> t = TStart \/ (MoreBits /\ t \in {TZero, TOne})
  BY <1>1, <1>4
<1>6. CASE MoreBits /\ t = TZero
  <2>1. Marks(TZero) /\ ~Marks(TOne)
    BY <1>1, <1>2, <1>6
  <2> QED
    BY <1>2, <1>3, <1>4, <1>5, <1>6, <2>1
<1>7. CASE MoreBits /\ t = TOne
  <2>1. Marks(TOne) /\ ~Marks(TZero)
    BY <1>1, <1>2, <1>7
  <2> QED
    BY <1>2, <1>3, <1>4, <1>5, <1>7, <2>1
<1>8. CASE ~MoreBits \/ t \notin {TZero, TOne}
  <2>1. rx' = <<>>
    BY <1>1, <1>4, <1>8
  <2> QED
    BY <1>2, <1>3, <1>5, <1>8, <2>1
<1> QED
  BY <1>6, <1>7, <1>8

\* The two packets of TwoInOne: the stop mark ends the first, the second goes on.
LEMMA TakeTwoInOne ==
  ASSUME PadTypeOK, TransmissionInv, GuestTakesEdge, ~disturbed, TwoInOne
  PROVE  /\ InStep' /\ ~Idle' /\ owed' # <<>> /\ Sent' = Sent
         /\ owed # <<>> /\ rx = Head(owed)
<1>1. /\ active /\ bits = Width /\ inPacket /\ owed \in Seq(Words) /\ Len(owed) = 2
      /\ rx = Head(owed) /\ Measured(TStop)
  BY DEF TwoInOne, PadTypeOK
<1>2. rx \in Words /\ rx \in Seq(BOOLEAN) /\ Width \in Nat /\ Width > 1 /\ owed # <<>>
  <2>1. rx \in Seq(BOOLEAN) /\ Width \in Nat /\ Width > 1
    BY PadNumbers DEF PadTypeOK
  <2>2. owed # <<>> /\ Head(owed) \in Words
    BY <1>1
  <2> QED
    BY <1>1, <2>1, <2>2
<1>3. Len(rx) = Width
  <2>1. 1..Len(rx) = 1..Width /\ Len(rx) \in Nat
    BY <1>2 DEF Words
  <2>2. Width \in 1..Len(rx) /\ (Len(rx) >= 1 => Len(rx) \in 1..Width)
    <3>1. Width \in 1..Width /\ (Len(rx) >= 1 => Len(rx) \in 1..Len(rx))
      BY <1>2, <2>1
    <3> QED
      BY <2>1, <3>1
  <2> QED
    BY <1>2, <2>1, <2>2
<1>4. Complete /\ ~MoreBits /\ rx' = <<>>
  BY <1>1, <1>3, HandlerEffect DEF MoreBits
<1>5. owed' = Tail(owed) /\ UNCHANGED <<active, bits>>
  BY <1>1, <1>2, <1>4 DEF GuestTakesEdge, tx
<1>6. Len(owed') = 1 /\ Sent' = Sent
  <2>1. Len(Tail(owed)) = 1 /\ Tail(owed)[1] = owed[2]
    BY <1>1
  <2> QED
    BY <1>1, <1>5, <2>1 DEF Sent
<1>7. ~Queued' /\ Heard' = -1 /\ ~Idle'
  <2>1. ~Queued'
    BY TakeEffect DEF TransmissionInv
  <2> QED
    BY <1>1, <1>2, <1>5, <2>1 DEF Heard, Ended, Idle
<1>8. owed' # <<>>
  BY <1>6
<1> QED
  BY <1>1, <1>2, <1>4, <1>6, <1>7, <1>8 DEF InStep

\* Otherwise the edge ends the next mark of the one packet that is owed.
LEMMA TakeInStep ==
  ASSUME PadTypeOK, TransmissionInv, GuestTakesEdge, ~disturbed, InStep
  PROVE  /\ Idle' => owed' = <<>> /\ ~inPacket' /\ rx' = <<>>
         /\ ~Idle' => InStep' /\ owed' = owed
         /\ Complete => owed # <<>> /\ rx = Head(owed)
<1> DEFINE e == Ended
           t == MarkLength(e)
<1>1. /\ owed \in Seq(Words) /\ Len(owed) = 1 /\ rx \in Seq(BOOLEAN)
      /\ Width \in Nat /\ Width > 1 /\ e \in -1..(Width + 1)
      /\ UNCHANGED <<active, bits>>
      /\ Queued /\ ~Queued' /\ Heard = e - 1 /\ Heard' = e
      /\ Idle' <=> ~active
      /\ ~active => e = Width + 1
      /\ active => e <= Width
  <2>1. Queued /\ ~Queued' /\ UNCHANGED <<active, bits>>
    BY TakeEffect DEF GuestTakesEdge, Queued, tx, TransmissionInv
  <2>2. bits \in -1..Width /\ Width \in Nat /\ Width > 1
    BY PadNumbers DEF PadTypeOK
  <2>3. e \in -1..(Width + 1) /\ (~active => e = Width + 1) /\ (active => e <= Width)
    BY <2>2 DEF Ended
  <2>4. Ended' = e
    BY <2>1 DEF Ended
  <2>5. Heard = e - 1 /\ Heard' = e /\ (Idle' <=> ~active)
    BY <2>1, <2>4 DEF Heard, Idle
  <2> QED
    BY <2>1, <2>2, <2>3, <2>5 DEF InStep, PadTypeOK
<1> HIDE DEF e
<1>2. /\ Len(rx) = IF e > 1 THEN e - 1 ELSE 0
      /\ \A k \in 1..Len(rx) : rx[k] = Sent[k]
      /\ e >= 1 => inPacket
      /\ e = -1 => ~inPacket
  BY <1>1 DEF InStep
<1>3. Sent = owed[1] /\ Sent = Head(owed) /\ owed # <<>> /\ Sent \in Words
  <2>1. owed[1] = Head(owed) /\ owed # <<>> /\ owed[1] \in Words
    BY <1>1, TheOneIsHead
  <2> QED
    BY <1>1, <2>1 DEF Sent
<1>4. owed' = (IF Complete /\ owed # <<>> THEN Tail(owed) ELSE owed)
  BY DEF GuestTakesEdge
<1>5. e >= 0 => Measured(t) /\ t \in {TZero, TOne, TStart, TStop}
  BY <1>1, MarkLengths DEF TransmissionInv, GuestMeasures, e
<1>6. CASE e = -1
  <2>1. ~MoreBits /\ ~Complete /\ active
    BY <1>1, <1>2, <1>6 DEF MoreBits, Complete
  <2>2. rx' = <<>>
    BY <2>1 DEF GuestTakesEdge
  <2>3. owed' = owed
    BY <1>4, <2>1
  <2> QED
    BY <1>1, <1>6, <2>1, <2>2, <2>3 DEF InStep
<1>7. CASE e = 0
  <2>1. t = TStart /\ Measured(t)
    BY <1>5, <1>7, MarkLengths
  <2>2. TStart # TStop
    BY PadNumbers
  <2>3. rx' = <<>> /\ inPacket' /\ ~Complete
    BY <2>1, <2>2, HandlerEffect
  <2>4. owed' = owed /\ active
    BY <1>1, <1>4, <1>7, <2>3
  <2> QED
    BY <1>1, <1>7, <2>3, <2>4 DEF InStep
<1>8. CASE e \in 1..Width
  <2>1. Len(rx) = e - 1 /\ MoreBits /\ ~Complete /\ active
    BY <1>1, <1>2, <1>8 DEF MoreBits, Complete
  <2>2. t = (IF Sent[e] THEN TOne ELSE TZero) /\ Measured(t)
    BY <1>5, <1>8, MarkLengths
  <2>3. Sent[e] \in BOOLEAN
    BY <1>3, <1>8 DEF Words
  <2>4. rx' = Append(rx, Sent[e]) /\ inPacket'
    <3>1. CASE Sent[e]
      <4>1. t = TOne /\ Sent[e] = TRUE
        BY <2>2, <2>3, <3>1
      <4> QED
        BY <2>1, <2>2, <4>1, HandlerEffect
    <3>2. CASE ~Sent[e]
      <4>1. t = TZero /\ Sent[e] = FALSE
        BY <2>2, <2>3, <3>2
      <4> QED
        BY <2>1, <2>2, <4>1, HandlerEffect
    <3> QED
      BY <3>1, <3>2
  <2>5. owed' = owed /\ Sent' = Sent
    BY <1>4, <2>1 DEF Sent
  <2>6. Len(rx') = e /\ \A k \in 1..e : rx'[k] = Sent[k]
    <3>1. Len(rx') = e /\ rx'[e] = Sent[e] /\ \A k \in 1..(e - 1) : rx'[k] = rx[k]
      BY <1>1, <1>8, <2>1, <2>3, <2>4
    <3> QED
      BY <1>2, <1>8, <2>1, <3>1
  <2> QED
    BY <1>1, <1>8, <2>1, <2>4, <2>5, <2>6 DEF InStep
<1>9. CASE e = Width + 1
  <2>1. t = TStop /\ Measured(t) /\ Len(rx) = Width /\ inPacket /\ ~active
    BY <1>1, <1>2, <1>5, <1>9, MarkLengths
  <2>2. Complete /\ rx' = <<>> /\ ~inPacket'
    <3>1. TStop # TStart /\ TStop \notin {TZero, TOne}
      BY PadNumbers
    <3> QED
      BY <2>1, <3>1, HandlerEffect
  <2>3. owed' = <<>>
    BY <1>1, <1>3, <1>4, <2>2
  <2>4. rx = Sent
    <3>1. rx \in Words /\ \A k \in 1..Width : rx[k] = Sent[k]
      BY <1>1, <1>2, <2>1 DEF Words
    <3> QED
      BY <1>3, <3>1, WordsAreEqual
  <2> QED
    BY <1>1, <1>3, <2>1, <2>2, <2>3, <2>4
<1> QED
  BY <1>1, <1>6, <1>7, <1>8, <1>9

\* A guest that was disturbed takes nothing for a start mark until a packet begins.
LEMMA TakeDisturbed ==
  ASSUME PadTypeOK, TransmissionInv, GuestTakesEdge, disturbed
  PROVE  /\ ~inPacket' /\ rx' = <<>> /\ owed' = owed /\ ~Complete
         /\ ~(active /\ bits = Width)
<1>1. Queued /\ ~inPacket /\ rx = <<>> /\ bits \in -1..Width /\ Width \in Nat
  BY PadNumbers DEF GuestTakesEdge, Queued, TransmissionInv, DeafIsUnaware, PadTypeOK
<1>2. ~MoreBits /\ ~Complete
  BY <1>1 DEF MoreBits, Complete
<1>3. ~(active /\ bits = Width)
  BY <1>1 DEF TransmissionInv, GuestMeasures
<1>4. Ended \in Int /\ Ended >= 0
  BY <1>1, <1>3 DEF Ended
<1>5. ~Marks(TStart)
  <2>1. CASE since = Top
    BY <2>1, NothingIsMeasured
  <2>2. CASE since # Top
    <3>1. Measured(MarkLength(Ended)) /\ Ended # 0
      BY <1>1, <1>4, <2>2 DEF TransmissionInv, GuestMeasures
    <3>2. MarkLength(Ended) \in {TZero, TOne, TStop}
      <4>1. Ended \in 1..Width \/ Ended > Width
        BY <1>1, <1>4, <3>1
      <4> QED
        BY <1>4, <4>1, MarkLengths
    <3>3. TStart \notin {TZero, TOne, TStop}
      BY PadNumbers
    <3> QED
      BY <3>1, <3>2, <3>3, MarksAreTold
  <2> QED
    BY <2>1, <2>2
<1>6. owed' = owed
  BY <1>2 DEF GuestTakesEdge
<1>7. rx' = <<>> /\ ~inPacket'
  BY <1>2, <1>5 DEF GuestTakesEdge
<1> QED
  BY <1>2, <1>3, <1>6, <1>7

\* The guest takes an edge; what it then completes is the packet owed first.
LEMMA TakeStep ==
  ASSUME PadTypeOK, TransmissionInv, GuestTakesEdge
  PROVE  /\ TransmissionInv'
         /\ Complete => owed # <<>> /\ rx = Head(owed)
<1> USE DEF TransmissionInv
<1>1. /\ UNCHANGED <<packets, active, bits, sr, timer, pinEn, disturbed>>
      /\ since' = 0 /\ waits' = 0 /\ Queued
  BY DEF GuestTakesEdge, tx, Queued
<1>2. PinIsQueued' /\ ~Queued' /\ pinEn
  BY TakeEffect
<1>3. /\ active => owed' # <<>> /\ Sent' = Sent
      /\ Complete => owed # <<>> /\ rx = Head(owed)
      /\ GuestFollows'
      /\ disturbed => ~inPacket' /\ rx' = <<>> /\ ~(active /\ bits = Width)
  <2>1. CASE disturbed
    <3>1. owed' = owed /\ Sent' = Sent /\ disturbed'
      BY <1>1, <2>1, TakeDisturbed DEF Sent
    <3>2. active => owed # <<>>
      BY DEF SenderSendsLast
    <3> QED
      BY <1>1, <2>1, <3>1, <3>2, TakeDisturbed DEF GuestFollows
  <2>2. CASE ~disturbed /\ TwoInOne
    BY <1>1, <2>2, TakeTwoInOne DEF GuestFollows
  <2>3. CASE ~disturbed /\ InStep
    <3>1. active => ~Idle' /\ owed # <<>>
      BY <1>1 DEF Idle, SenderSendsLast
    <3>2. active => owed' = owed /\ Sent' = Sent
      BY <2>3, <3>1, TakeInStep DEF Sent
    <3> QED
      BY <1>1, <2>3, <3>1, <3>2, TakeInStep DEF GuestFollows
  <2>4. ~Idle
    BY <1>1 DEF Idle
  <2> QED
    BY <2>1, <2>2, <2>3, <2>4 DEF GuestFollows
<1>4. active => \A n : MarkLength(n)' = MarkLength(n)
  BY <1>3 DEF MarkLength
<1>5. SenderSendsLast'
  <2> SUFFICES ASSUME active
               PROVE  /\ owed' # <<>> /\ timer <= MarkLength(Width - bits)
                      /\ \A k \in 1..bits : sr[k] = Sent[k + Width - bits]
    BY <1>1, <1>3, <1>4 DEF SenderSendsLast
  <2> QED
    BY <1>3 DEF SenderSendsLast
<1>6. DeafIsUnaware'
  BY <1>1, <1>2, <1>3 DEF DeafIsUnaware
<1>7. GuestMeasures'
  <2>1. active => since' \in (Elapsed' - Latency)..Elapsed'
    <3> SUFFICES ASSUME active PROVE 0 \in (Elapsed - Latency)..Elapsed
      BY <1>1, <1>4 DEF Elapsed
    <3>1. Width - bits \in Int /\ timer \in Nat /\ waits \in 0..Latency
      BY PadNumbers DEF PadTypeOK
    <3>2. MarkLength(Width - bits) \in Nat /\ timer <= MarkLength(Width - bits)
      BY <3>1, MarksAreLong DEF SenderSendsLast
    <3>3. Elapsed <= waits
      BY <1>1 DEF GuestMeasures
    <3> QED
      BY <3>1, <3>2, <3>3, PadNumbers DEF Elapsed
  <2> QED
    BY <1>1, <1>2, <1>3, <2>1 DEF GuestMeasures
<1> QED
  BY <1>2, <1>3, <1>5, <1>6, <1>7

------------------------------------------------------------------------------
(* The guest begins to listen, and a soft reset. *)

\* The guest begins to listen.
LEMMA EnableStep ==
  ASSUME PadTypeOK, TransmissionInv, GuestEnables
  PROVE  TransmissionInv'
<1> USE DEF TransmissionInv
<1>1. /\ UNCHANGED <<active, bits, sr, timer, owed, disturbed>>
      /\ since' = Top /\ waits' = 0 /\ ~inPacket' /\ rx' = <<>> /\ ~pinEn /\ pinEn'
  BY DEF GuestEnables, tx, padHist
<1>2. PinIsQueued' /\ ~Queued' /\ disturbed
  BY <1>1, EnableEffect DEF DeafIsUnaware
<1>3. Sent' = Sent /\ \A n : MarkLength(n)' = MarkLength(n)
  BY <1>1 DEF Sent, MarkLength
<1>4. SenderSendsLast'
  BY <1>1, <1>3 DEF SenderSendsLast
<1> QED
  BY <1>1, <1>2, <1>4 DEF DeafIsUnaware, GuestMeasures, GuestFollows

\* A soft reset.
LEMMA ResetStep ==
  ASSUME PadTypeOK, TransmissionInv, PadSoftReset
  PROVE  TransmissionInv'
<1> USE DEF TransmissionInv
<1>1. /\ UNCHANGED <<active, bits, sr, timer, owed>>
      /\ since' = Top /\ waits' = 0 /\ ~inPacket' /\ rx' = <<>> /\ ~pinEn' /\ disturbed'
  BY DEF PadSoftReset, tx
<1>2. PinIsQueued' /\ ~Queued'
  BY ResetQueueEffect
<1>3. Sent' = Sent /\ \A n : MarkLength(n)' = MarkLength(n)
  BY <1>1 DEF Sent, MarkLength
<1>4. SenderSendsLast'
  BY <1>1, <1>3 DEF SenderSendsLast
<1> QED
  BY <1>1, <1>2, <1>4 DEF DeafIsUnaware, GuestMeasures, GuestFollows

\* Nothing else touches the transmission.
LEMMA OtherStep ==
  ASSUME TransmissionInv,
         UNCHANGED <<active, bits, sr, timer, pinEn, padPic, since, waits, inPacket,
                     rx, owed, disturbed>>
  PROVE  TransmissionInv'
<1>1. Queued' = Queued /\ Sent' = Sent /\ Ended' = Ended
  BY DEF Queued, Sent, Ended
<1>2. \A n : MarkLength(n)' = MarkLength(n)
  BY <1>1 DEF MarkLength
<1>3. Elapsed' = Elapsed /\ Heard' = Heard /\ Idle' = Idle
      /\ Measured(TStop)' = Measured(TStop)
      /\ Measured(MarkLength(Ended))' = Measured(MarkLength(Ended))
  BY <1>1, <1>2 DEF Elapsed, Heard, Idle, Measured
<1>4. TwoInOne' = TwoInOne /\ InStep' = InStep
  BY <1>1, <1>3 DEF TwoInOne, InStep
<1> QED
  BY <1>1, <1>2, <1>3, <1>4 DEF TransmissionInv, PinIsQueued, SenderSendsLast,
     DeafIsUnaware, GuestMeasures, GuestFollows

------------------------------------------------------------------------------
(* Types. *)

\* A key pressed or released, which may queue a packet.
LEMMA KeyType ==
  ASSUME PadTypeOK, NEW p \in Player, NEW k \in 1..Keys, KeyEvent(p, k)
  PROVE  PadTypeOK'
<1> USE DEF PadTypeOK
<1> DEFINE down == IF k \in keys[p] THEN keys[p] \ {k} ELSE keys[p] \cup {k}
<1>1. /\ caused < MaxEvents /\ caused' = caused + 1
      /\ keys' = [keys EXCEPT ![p] = down]
      /\ packets' = IF zone3d_pad_mode THEN packets ELSE Append(packets, Packet(p, down))
      /\ UNCHANGED <<active, bits, sr, timer, gpio, padPic, guest, padHist, polled>>
  BY DEF KeyEvent
<1>2. keys' \in [Player -> SUBSET (1..Keys)] /\ caused' \in 0..MaxEvents
  BY <1>1, PadNumbers
<1>3. Packet(p, down) \in Words
  <2>1. (p = 1) \in BOOLEAN /\ Checksum(p, down) \in BOOLEAN
    BY DEF Checksum
  <2>2. \A j : (j \in down) \in BOOLEAN
    OBVIOUS
  <2> HIDE DEF down
  <2> QED
    BY <2>1, <2>2 DEF Packet, Words
<1>4. packets' \in Seq(Words) /\ Len(packets') <= caused'
  <2> HIDE DEF down
  <2>1. Len(packets) \in Nat /\ caused \in Nat
    BY PadNumbers
  <2>2. Append(packets, Packet(p, down)) \in Seq(Words)
        /\ Len(Append(packets, Packet(p, down))) = Len(packets) + 1
    BY <1>3
  <2> QED
    BY <1>1, <2>1, <2>2
<1> QED
  BY <1>1, <1>2, <1>4 DEF gpio, guest, padHist, polled, rxState, pins, pads, seen

\* A tick of the transmitter.
LEMMA TickType ==
  ASSUME PadTypeOK, TransmissionInv, tick_subor, UNCHANGED <<keys, caused>>
  PROVE  PadTypeOK'
<1> USE DEF TransmissionInv
<1>1. /\ ClockTicks /\ UNCHANGED <<pinEn, rxState, polled>>
      /\ BeginPacket \/ Rest \/ CountDown \/ Edge
  BY DEF tick_subor, ClockTicks, Queued
<1>2. since' \in 0..Top /\ waits' \in 0..Latency
  BY <1>1, ClockEffect
<1>3. /\ packets' \in Seq(Words) /\ Len(packets') <= caused
      /\ active' \in BOOLEAN /\ bits' \in -1..Width /\ sr' \in Words /\ timer' \in 0..TStop
      /\ pinSt' \in BOOLEAN /\ padPic' \in PicState
      /\ owed' \in Seq(Words) /\ Len(owed') <= 2 /\ disturbed' \in BOOLEAN
  <2>1. CASE BeginPacket
    <3>1. padPic' \in PicState /\ pinSt' \in BOOLEAN
      BY <1>1, <2>1, FireEffect DEF BeginPacket
    <3>2. Len(packets') <= caused
      <4>1. Len(packets) \in Nat /\ Len(packets') \in Nat /\ caused \in Nat
            /\ Len(packets) <= caused
        BY <2>1, BeginEffect, PadNumbers DEF PadTypeOK
      <4> QED
        BY <2>1, <4>1, BeginEffect
    <3>3. disturbed' \in BOOLEAN
      BY <2>1 DEF BeginPacket
    <3>4. Len(owed') <= 2
      <4>1. Len(owed') \in {1, 2}
        BY <2>1, BeginEffect
      <4>2. \A n \in {1, 2} : n <= 2
        OBVIOUS
      <4> QED
        BY ONLY <4>1, <4>2
    <3>5. active' = TRUE
      BY <2>1 DEF BeginPacket
    <3>6. Width \in -1..Width /\ TStart \in 0..TStop
      BY PadNumbers
    <3> QED
      BY <2>1, <3>1, <3>2, <3>3, <3>4, <3>5, <3>6, BeginEffect
  <2>2. CASE Rest \/ CountDown
    <3>1. timer' \in 0..TStop
      BY <1>1, <2>2, QuietTick
    <3> QED
      BY <2>2, <3>1 DEF Rest, CountDown, tx, padHist, PadTypeOK
  <2>3. CASE Edge
    <3>1. padPic' \in PicState /\ pinSt' \in BOOLEAN
      BY <1>1, <2>3, FireEffect DEF Edge
    <3>2. disturbed' \in BOOLEAN /\ owed' = owed /\ packets' = packets
      BY <2>3 DEF Edge
    <3> QED
      BY <2>3, <3>1, <3>2, EdgeEffect DEF PadTypeOK
  <2> QED
    BY <1>1, <2>1, <2>2, <2>3
<1> QED
  BY <1>1, <1>2, <1>3 DEF PadTypeOK, rxState, polled, pins, pads, seen

\* The guest takes an edge.
LEMMA TakeType ==
  ASSUME PadTypeOK, TransmissionInv, GuestTakesEdge
  PROVE  PadTypeOK'
<1>1. padPic' \in PicState
  BY TakeEffect DEF TransmissionInv
<1>2. /\ UNCHANGED <<keys, caused, tx, pinEn, disturbed, polled>>
      /\ pinSt' = FALSE /\ since' = 0 /\ waits' = 0
      /\ rx' \in {<<>>} \cup (IF MoreBits THEN {Append(rx, FALSE), Append(rx, TRUE)} ELSE {})
      /\ inPacket' \in BOOLEAN
      /\ owed' = owed \/ (owed # <<>> /\ owed' = Tail(owed))
  <2>1. /\ UNCHANGED <<keys, caused, tx, pinEn, disturbed, polled>>
        /\ pinSt' = FALSE /\ since' = 0 /\ waits' = 0
        /\ inPacket' \in BOOLEAN
    BY DEF GuestTakesEdge
  <2>2. rx' = CASE MoreBits /\ Marks(TZero) -> Append(rx, FALSE)
                [] MoreBits /\ Marks(TOne) -> Append(rx, TRUE)
                [] OTHER -> <<>>
    BY DEF GuestTakesEdge
  <2>3. owed' = (IF Complete /\ owed # <<>> THEN Tail(owed) ELSE owed)
    BY DEF GuestTakesEdge
  <2> QED
    BY <2>1, <2>2, <2>3
<1>3. rx' \in Seq(BOOLEAN) /\ Len(rx') <= Width
  <2>1. <<>> \in Seq(BOOLEAN) /\ Len(<<>>) <= Width
    BY PadNumbers
  <2>2. MoreBits => /\ Append(rx, FALSE) \in Seq(BOOLEAN) /\ Append(rx, TRUE) \in Seq(BOOLEAN)
                    /\ Len(Append(rx, FALSE)) <= Width /\ Len(Append(rx, TRUE)) <= Width
    BY PadNumbers DEF MoreBits, PadTypeOK
  <2> QED
    BY <1>2, <2>1, <2>2
<1>4. owed' \in Seq(Words) /\ Len(owed') <= 2
  BY <1>2, RestIsShorter DEF PadTypeOK
<1>5. 0 \in 0..Top /\ 0 \in 0..Latency
  BY PadNumbers
<1> QED
  BY <1>1, <1>2, <1>3, <1>4, <1>5 DEF PadTypeOK, tx, polled, pins, pads, seen

\* The guest begins to listen, or resets.
LEMMA ListenType ==
  ASSUME PadTypeOK, TransmissionInv, GuestEnables \/ PadSoftReset
  PROVE  PadTypeOK'
<1>1. padPic' \in PicState
  BY EnableEffect, ResetQueueEffect DEF TransmissionInv
<1>2. Top \in 0..Top /\ 0 \in 0..Latency /\ <<>> \in Seq(BOOLEAN) /\ Len(<<>>) <= Width
  BY PadNumbers
<1>3. CASE GuestEnables
  BY <1>1, <1>2, <1>3 DEF GuestEnables, PadTypeOK, tx, padHist, polled, pins, pads, seen
<1>4. CASE PadSoftReset
  <2>1. inputs' \in [InputPin -> BOOLEAN] /\ hasty' \in BOOLEAN /\ {} \in SUBSET PadPin
    BY <1>4 DEF PadSoftReset, PadTypeOK
  <2> QED
    BY <1>1, <1>2, <1>4, <2>1 DEF PadSoftReset, PadTypeOK, tx, pads
<1> QED
  BY <1>3, <1>4

------------------------------------------------------------------------------
(* The pads that are polled. *)

\* Register: its type, what a latch loads and what a clock pulse shifts.
LEMMA RegisterType ==
  ASSUME NEW down, NEW n \in Nat
  PROVE  Register(down, n) \in [1..Keys -> BOOLEAN]
BY DEF Register

LEMMA RegisterStarts ==
  ASSUME NEW p \in Player
  PROVE  zone3d_get_pad(p) = Register(keys[p], 0)
<1>1. \A k \in 1..Keys : (k = Keys \/ k \notin keys[p])
                         <=> (k + 0 <= Keys /\ (k + 0 = Keys \/ k + 0 \notin keys[p]))
  BY PadNumbers
<1> QED
  BY <1>1 DEF zone3d_get_pad, Register

LEMMA RegisterShifts ==
  ASSUME NEW down, NEW n \in 0..Keys
  PROVE  ShiftedOut(Register(down, n)) = Register(down, IF n < Keys THEN n + 1 ELSE n)
<1> DEFINE m == IF n < Keys THEN n + 1 ELSE n
           reg == Register(down, n)
<1>1. ASSUME NEW k \in 1..Keys
      PROVE  (k < Keys /\ reg[k + 1]) <=> (k + m <= Keys /\ (k + m = Keys \/ k + m \notin down))
  <2>1. CASE k = Keys
    <3>1. ~(k + m <= Keys)
      BY <2>1, PadNumbers
    <3> QED
      BY <2>1, <3>1, PadNumbers
  <2>2. CASE k < Keys
    <3>1. k + 1 \in 1..Keys /\ k + 1 + n = k + (n + 1)
      BY <2>2, PadNumbers
    <3>2. reg[k + 1] = (k + 1 + n <= Keys /\ (k + 1 + n = Keys \/ k + 1 + n \notin down))
      BY <3>1 DEF Register
    <3>3. CASE n < Keys
      BY <2>2, <3>1, <3>2, <3>3
    <3>4. CASE n = Keys
      <4>1. ~(k + 1 + n <= Keys) /\ ~(k + m <= Keys)
        BY <3>4, PadNumbers
      <4> QED
        BY <3>2, <4>1
    <3> QED
      BY <3>3, <3>4, PadNumbers
  <2> QED
    BY <2>1, <2>2, PadNumbers
<1> HIDE DEF m, reg
<1>2. [k \in 1..Keys |-> k < Keys /\ reg[k + 1]]
        = [k \in 1..Keys |-> k + m <= Keys /\ (k + m = Keys \/ k + m \notin down)]
  BY <1>1
<1> QED
  BY <1>2 DEF ShiftedOut, Register, m, reg

\* A tick brings the pads to where the guest's clocks are.
LEMMA PadsTick ==
  ASSUME PadTypeOK, PadsFollow, tick_zone3d
  PROVE  /\ PadsFollow'
         /\ shiftreg' \in [Player -> [1..Keys -> BOOLEAN]]
         /\ inputs' \in [InputPin -> BOOLEAN]
         /\ latched' \in [Player -> SUBSET (1..Keys)]
<1> DEFINE latch == "latch" \in High \ last
           clk == "clk" \in High \ last
           loaded == IF latch THEN [p \in Player |-> zone3d_get_pad(p)] ELSE shiftreg
<1>1. /\ shiftreg' = IF clk THEN [p \in Player |-> ShiftedOut(loaded[p])] ELSE loaded
      /\ inputs' = [S6 |-> shiftreg'[1][1], S7 |-> shiftreg'[2][1],
                    R0 |-> shiftreg'[2][1], G0 |-> Select \in keys[1]]
      /\ last' = High
      /\ latched' = IF latch THEN keys ELSE latched
      /\ ticked' = TRUE
      /\ UNCHANGED <<outEn, outData, pulses, hasty>>
  BY DEF tick_zone3d
<1> HIDE DEF latch, clk
<1>2. loaded \in [Player -> [1..Keys -> BOOLEAN]]
  <2>1. \A p \in Player : zone3d_get_pad(p) \in [1..Keys -> BOOLEAN]
    BY DEF zone3d_get_pad
  <2> QED
    BY <2>1 DEF PadTypeOK
<1> HIDE DEF loaded
<1>3. shiftreg' \in [Player -> [1..Keys -> BOOLEAN]]
  <2>1. \A p \in Player : ShiftedOut(loaded[p]) \in [1..Keys -> BOOLEAN]
    BY DEF ShiftedOut
  <2> QED
    BY <1>1, <1>2, <2>1
<1>4. inputs' \in [InputPin -> BOOLEAN]
  <2>1. shiftreg'[1][1] \in BOOLEAN /\ shiftreg'[2][1] \in BOOLEAN
    BY <1>3, PadNumbers DEF Player
  <2>2. (Select \in keys[1]) \in BOOLEAN
    OBVIOUS
  <2>3. inputs' \in [S6 : BOOLEAN, S7 : BOOLEAN, R0 : BOOLEAN, G0 : BOOLEAN]
    BY <1>1, <2>1, <2>2
  <2>4. [S6 : BOOLEAN, S7 : BOOLEAN, R0 : BOOLEAN, G0 : BOOLEAN]
          \subseteq [InputPin -> BOOLEAN]
    BY DEF InputPin
  <2> QED
    BY <2>3, <2>4
<1>5. latched' \in [Player -> SUBSET (1..Keys)]
  BY <1>1 DEF PadTypeOK
<1>6. /\ inputs'["S6"] = shiftreg'[1][1] /\ inputs'["S7"] = shiftreg'[2][1]
      /\ inputs'["R0"] = shiftreg'[2][1]
  BY <1>1
<1>7. High' \ last' = {}
  BY <1>1 DEF High
<1>8. ~hasty => shiftreg' = [p \in Player |-> Register(latched'[p], pulses)]
                /\ pulses \in 0..Keys
  <2> SUFFICES ASSUME ~hasty
               PROVE  /\ shiftreg' = [p \in Player |-> Register(latched'[p], pulses)]
                      /\ pulses \in 0..Keys
    OBVIOUS
  <2>1. PICK n \in 0..Keys :
          /\ pulses = IF clk /\ n < Keys THEN n + 1 ELSE n
          /\ IF latch THEN n = 0 ELSE shiftreg = [p \in Player |-> Register(latched[p], n)]
    BY DEF PadsFollow, latch, clk
  <2>2. loaded = [p \in Player |-> Register(latched'[p], n)]
    <3>1. CASE latch
      <4>1. loaded = [p \in Player |-> zone3d_get_pad(p)] /\ n = 0 /\ latched' = keys
        BY <1>1, <2>1, <3>1 DEF loaded
      <4> QED
        BY <4>1, RegisterStarts
    <3>2. CASE ~latch
      BY <1>1, <2>1, <3>2 DEF loaded
    <3> QED
      BY <3>1, <3>2
  <2>3. CASE clk
    <3>1. \A p \in Player : ShiftedOut(loaded[p]) = Register(latched'[p], pulses)
      <4> SUFFICES ASSUME NEW p \in Player
                   PROVE  ShiftedOut(loaded[p]) = Register(latched'[p], pulses)
        OBVIOUS
      <4>1. loaded[p] = Register(latched'[p], n)
        BY <2>2
      <4>2. pulses = IF n < Keys THEN n + 1 ELSE n
        BY <2>1, <2>3
      <4> QED
        BY <4>1, <4>2, RegisterShifts
    <3> QED
      BY <1>1, <2>3, <3>1 DEF PadTypeOK
  <2>4. CASE ~clk
    BY <1>1, <2>1, <2>2, <2>4
  <2> QED
    BY <2>3, <2>4
<1>9. PadsFollow'
  <2>1. hasty' = hasty /\ pulses' = pulses /\ ticked' /\ last' = High'
    BY <1>1 DEF High
  <2>2. ~hasty => \E n \in 0..Keys :
          /\ pulses = IF "clk" \in High' \ last' /\ n < Keys THEN n + 1 ELSE n
          /\ IF "latch" \in High' \ last' THEN n = 0
             ELSE shiftreg' = [p \in Player |-> Register(latched'[p], n)]
    BY <1>7, <1>8
  <2> QED
    BY <1>6, <2>1, <2>2 DEF PadsFollow
<1> QED
  BY <1>3, <1>4, <1>5, <1>9

\* While nothing rises the pads are where the guest's clocks are.
LEMMA PadsAtRest ==
  ASSUME PadsFollow, ticked, ~hasty, Keys \in Nat
  PROVE  /\ pulses \in 0..Keys
         /\ shiftreg = [p \in Player |-> Register(latched[p], pulses)]
BY DEF PadsFollow

\* The guest stores to the pins of the pads, between two ticks.
LEMMA PinsStep ==
  ASSUME PadTypeOK, PadsFollow, NEW en \in SUBSET PadPin, NEW data \in SUBSET PadPin,
         GuestStoresPins(en, data)
  PROVE  PadsFollow'
<1> DEFINE latch == "latch" \in (en \cap data) \ High
           clk == "clk" \in (en \cap data) \ High
           m == IF latch THEN 0 ELSE pulses
<1>1. /\ High' = en \cap data /\ last' = last /\ shiftreg' = shiftreg /\ latched' = latched
      /\ ~ticked'
      /\ hasty' = (~ticked \/ (hasty /\ ~latch))
      /\ pulses' = IF clk /\ m < Keys THEN m + 1 ELSE m
  BY DEF GuestStoresPins, High, pads
<1> SUFFICES ASSUME ~hasty'
             PROVE  \E n \in 0..Keys :
                      /\ pulses' = IF "clk" \in High' \ last' /\ n < Keys THEN n + 1 ELSE n
                      /\ IF "latch" \in High' \ last' THEN n = 0
                         ELSE shiftreg' = [p \in Player |-> Register(latched'[p], n)]
  BY <1>1 DEF PadsFollow
<1>2. ticked /\ last = High /\ (hasty => latch)
  BY <1>1 DEF PadsFollow
<1>3. ("clk" \in High' \ last' <=> clk) /\ ("latch" \in High' \ last' <=> latch)
  BY <1>1, <1>2
<1> HIDE DEF latch, clk
<1>4. m \in 0..Keys
  BY PadNumbers DEF PadTypeOK
<1>5. ~latch => shiftreg = [p \in Player |-> Register(latched[p], m)]
  BY <1>2, PadsAtRest, PadNumbers
<1>6. latch => m = 0
  OBVIOUS
<1> HIDE DEF m
<1> QED
  BY <1>1, <1>3, <1>4, <1>5, <1>6

\* A soft reset leaves the pads' registers alone.
LEMMA PadsReset ==
  ASSUME PadTypeOK, PadsFollow, PadSoftReset
  PROVE  PadsFollow'
<1>1. /\ High' = {} /\ shiftreg' = shiftreg /\ latched' = latched /\ pulses' = pulses
      /\ ~ticked' /\ hasty' = (hasty \/ ~ticked)
  BY DEF PadSoftReset, High, pads
<1>2. ~hasty' => /\ pulses \in 0..Keys
                 /\ shiftreg = [p \in Player |-> Register(latched[p], pulses)]
  BY <1>1, PadsAtRest, PadNumbers
<1> QED
  BY <1>1, <1>2 DEF PadsFollow

\* The other steps do not touch the pads.
LEMMA PadsElsewhere ==
  ASSUME PadsFollow,
         UNCHANGED <<outEn, outData, inputs, last, shiftreg, ticked, latched, pulses, hasty>>
  PROVE  PadsFollow'
BY DEF PadsFollow, High

------------------------------------------------------------------------------
(* The theorems. *)

PadInv == PadTypeOK /\ TransmissionInv /\ PadsFollow

\* The three parts hold at first.
LEMMA PadInitial == PadInit => PadInv
<1> SUFFICES ASSUME PadInit PROVE PadInv
  OBVIOUS
<1> USE DEF PadInit
<1>1. padPic \in PicState /\ PinIsQueued /\ ~Queued
  BY InitialPic DEF PicInit, PinIsQueued, Queued
<1>2. PadTypeOK
  <2>1. <<>> \in Seq(Words) /\ <<>> \in Seq(BOOLEAN) /\ Len(<<>>) = 0
    OBVIOUS
  <2>2. /\ keys \in [Player -> SUBSET (1..Keys)] /\ latched \in [Player -> SUBSET (1..Keys)]
        /\ sr \in Words /\ inputs \in [InputPin -> BOOLEAN]
        /\ shiftreg \in [Player -> [1..Keys -> BOOLEAN]]
    BY DEF Words
  <2>3. /\ 0 \in 0..MaxEvents /\ 0 \in -1..Width /\ 0 \in 0..TStop /\ Top \in 0..Top
        /\ 0 \in 0..Latency /\ 0 \in 0..Keys /\ 0 <= Width /\ 0 <= 0 /\ 0 <= 2
    BY PadNumbers
  <2>4. {outEn, outData, last} \subseteq SUBSET PadPin
    OBVIOUS
  <2> QED
    BY <1>1, <2>1, <2>2, <2>3, <2>4 DEF PadTypeOK
<1>3. TransmissionInv
  BY <1>1 DEF TransmissionInv, SenderSendsLast, DeafIsUnaware, GuestMeasures, GuestFollows
<1>4. PadsFollow
  <2>1. 1 \in 1..Keys /\ 1 \in Player /\ 2 \in Player
    BY PadNumbers DEF Player
  <2>2. shiftreg[1][1] = FALSE /\ shiftreg[2][1] = FALSE
    BY <2>1
  <2>3. inputs["S6"] = FALSE /\ inputs["S7"] = FALSE /\ inputs["R0"] = FALSE
    BY DEF InputPin
  <2>4. last = High
    BY DEF High
  <2> QED
    BY <2>2, <2>3, <2>4 DEF PadsFollow
<1> QED
  BY <1>2, <1>3, <1>4 DEF PadInv

\* Every step keeps the three parts.
LEMMA PadStep == PadInv /\ [PadNext]_padVars => PadInv'
<1> SUFFICES ASSUME PadInv, [PadNext]_padVars PROVE PadInv'
  OBVIOUS
<1> USE DEF PadInv
<1>1. ASSUME NEW p \in Player, NEW k \in 1..Keys, KeyEvent(p, k)
      PROVE  PadInv'
  <2>1. UNCHANGED <<active, bits, sr, timer, gpio, padPic, guest, padHist, polled>>
    BY <1>1 DEF KeyEvent
  <2>2. TransmissionInv'
    BY <2>1, OtherStep DEF gpio, guest, padHist, rxState
  <2>3. PadsFollow'
    BY <2>1, PadsElsewhere DEF polled, pins, pads, seen
  <2> QED
    BY <1>1, <2>2, <2>3, KeyType
<1>2. CASE IRGamepadTick /\ ~zone3d_pad_mode
  <2>1. tick_subor /\ UNCHANGED <<keys, caused>>
    BY <1>2 DEF IRGamepadTick
  <2>2. /\ ClockTicks /\ UNCHANGED <<pinEn, rxState, polled>>
        /\ BeginPacket \/ Rest \/ CountDown \/ Edge
    BY <2>1 DEF tick_subor, ClockTicks, Queued
  <2>3. TransmissionInv'
    BY <2>2, StartTick, QuietTick, EdgeTick
  <2>4. PadsFollow'
    BY <2>2, PadsElsewhere DEF polled, pins, pads, seen
  <2> QED
    BY <2>1, <2>3, <2>4, TickType
<1>3. CASE IRGamepadTick /\ zone3d_pad_mode
  <2>1. tick_zone3d /\ UNCHANGED <<keys, caused>>
    BY <1>3 DEF IRGamepadTick
  <2>2. /\ UNCHANGED <<infrared, outEn, outData, pulses, hasty, zone3d_pad_mode>>
        /\ last' = High /\ ticked' = TRUE
    BY <2>1 DEF tick_zone3d
  <2>3. TransmissionInv'
    BY <2>2, OtherStep DEF infrared, tx, gpio, guest, padHist, rxState
  <2>4. last' \in SUBSET PadPin
    BY <2>2 DEF PadTypeOK, High
  <2>5. PadTypeOK'
    BY <2>1, <2>2, <2>4, PadsTick DEF PadTypeOK, infrared, tx, gpio, guest, padHist, rxState
  <2> QED
    BY <2>1, <2>3, <2>5, PadsTick
<1>4. CASE GuestEnables
  <2>1. UNCHANGED polled
    BY <1>4 DEF GuestEnables
  <2>2. PadsFollow'
    BY <2>1, PadsElsewhere DEF polled, pins, pads, seen
  <2> QED
    BY <1>4, <2>2, EnableStep, ListenType
<1>5. CASE GuestTakesEdge
  <2>1. UNCHANGED polled
    BY <1>5 DEF GuestTakesEdge
  <2>2. PadsFollow'
    BY <2>1, PadsElsewhere DEF polled, pins, pads, seen
  <2> QED
    BY <1>5, <2>2, TakeStep, TakeType
<1>6. ASSUME NEW en \in SUBSET PadPin, NEW data \in SUBSET PadPin, GuestStoresPins(en, data)
      PROVE  PadInv'
  <2>1. /\ UNCHANGED <<keys, caused, infrared, inputs, pads, latched, zone3d_pad_mode>>
        /\ outEn' = en /\ outData' = data
        /\ ticked' \in BOOLEAN /\ hasty' \in BOOLEAN
    BY <1>6 DEF GuestStoresPins
  <2>2. pulses' \in 0..Keys
    <3>1. \E n \in {0, pulses} : pulses' \in {n} \cup (IF n < Keys THEN {n + 1} ELSE {})
      BY <1>6 DEF GuestStoresPins
    <3> QED
      BY <3>1, PadNumbers DEF PadTypeOK
  <2>3. TransmissionInv'
    BY <2>1, OtherStep DEF infrared, tx, gpio, guest, padHist, rxState
  <2>4. PadTypeOK'
    BY <2>1, <2>2 DEF PadTypeOK, infrared, tx, gpio, guest, padHist, rxState, pads
  <2> QED
    BY <1>6, <2>3, <2>4, PinsStep
<1>7. CASE PadSoftReset
  BY <1>7, ResetStep, ListenType, PadsReset
<1>8. CASE UNCHANGED padVars
  <2>1. TransmissionInv'
    BY <1>8, OtherStep DEF padVars, infrared, tx, gpio, guest, padHist, rxState
  <2>2. PadsFollow'
    BY <1>8, PadsElsewhere DEF padVars, polled, pins, pads, seen
  <2> QED
    BY <1>8, <2>1, <2>2 DEF padVars, infrared, tx, gpio, guest, padHist, rxState,
       polled, pins, pads, seen, PadTypeOK
<1> QED
  BY <1>1, <1>2, <1>3, <1>4, <1>5, <1>6, <1>7, <1>8 DEF PadNext, IRGamepadTick

\* Whatever the lengths of the marks, the delay of the guest and the number of
\* buttons: no packet is missed, and polled pads show the moment of their latch.
THEOREM PadsAreHeard == PadSpec => []GamepadInv
<1>1. PadInv => GamepadInv
  <2> SUFFICES ASSUME PadInv PROVE NoPacketIsMissed /\ PolledIsLatched
    BY DEF PadInv, GamepadInv
  <2>1. NoPacketIsMissed
    BY DEF PadInv, TransmissionInv, GuestFollows, Idle, Queued, NoPacketIsMissed
  <2>2. ASSUME ticked, ~hasty
        PROVE  \A p \in Player : shiftreg[p][1] = (pulses < Keys
                 /\ (pulses + 1 = Keys \/ pulses + 1 \notin latched[p]))
    <3> SUFFICES ASSUME NEW p \in Player
                 PROVE  shiftreg[p][1] = (pulses < Keys
                          /\ (pulses + 1 = Keys \/ pulses + 1 \notin latched[p]))
      OBVIOUS
    <3>1. pulses \in 0..Keys /\ shiftreg[p] = Register(latched[p], pulses)
      BY <2>2, PadsAtRest, PadNumbers DEF PadInv
    <3>2. 1 \in 1..Keys /\ 1 + pulses = pulses + 1 /\ (pulses + 1 <= Keys <=> pulses < Keys)
      BY <3>1, PadNumbers
    <3> QED
      BY <3>1, <3>2 DEF Register
  <2>3. PolledIsLatched
    BY <2>2 DEF PadInv, PadsFollow, PolledIsLatched, Player
  <2> QED
    BY <2>1, <2>3
<1> QED
  BY <1>1, PadInitial, PadStep, PTL DEF PadSpec

\* What the driver takes for a packet is the packet that was sent.
THEOREM PacketsArriveWhole == PadSpec => ReceivedWasSent
<1>1. PadInv /\ [PadNext]_padVars
        => [GuestTakesEdge /\ Complete => owed # <<>> /\ rx = Head(owed)]_padVars
  BY TakeStep DEF PadInv
<1> QED
  BY <1>1, PadInitial, PadStep, PTL DEF PadSpec, ReceivedWasSent
------------------------------------------------------------------------------
(* THE CAMERA *)

------------------------------------------------------------------------------
(* The inductive invariant. *)

\* Where the capture thread is between taking do_capture_m and releasing it.
Holding == Capturing \cup {"test", "setDone", "clearNeed", "unlock"}

LockIsHeld == locked <=> capture \in Holding

\* csi_frame_need stays set until the capture is over ...
NeedLasts == capture \in Capturing \cup {"setDone", "clearNeed"} => frameNeed

\* ... so a new request finds the mutex free and the camera on.
RequestIsFresh == main = "request" => ~frameNeed /\ CsiEnabled

\* The kill request waits for the mutex, and no capture begins after it.
KillWaits == capture \in Capturing \cup {"setDone"} => ~killCapture

\* What the capture thread finds switched off was switched off since it was asked.
OffIsSeen == frameNeed /\ ~killCapture => CsiEnabled \/ wentOff

DoneHasFrame == capture = "setDone" => copied \/ wentOff

\* After the grab the history knows every address the register has held.
AddressIsSeen ==
  capture \in {"checkClock", "checkEnable", "readAddr"} => fbaddr \in programmed

CaptureInv ==
  /\ LockIsHeld /\ NeedLasts /\ RequestIsFresh /\ KillWaits
  /\ OffIsSeen /\ DoneHasFrame /\ AddressIsSeen
  /\ StatusMatchesLine /\ FrameEndMeansFrame /\ DestinationIsCurrent

------------------------------------------------------------------------------
\* The guest's stores and the reset, which the history observes.
LEMMA GuestKeeps ==
  ASSUME TypeOK, CaptureInv, GuestStep
  PROVE  TypeOK' /\ CaptureInv'
<1> USE DEF CaptureInv, LockIsHeld, NeedLasts, RequestIsFresh, KillWaits,
            OffIsSeen, DoneHasFrame, AddressIsSeen, StatusMatchesLine,
            FrameEndMeansFrame, DestinationIsCurrent, CsiEnabled
<1>1. CsiIrq \in IRQ /\ pic \in PicState
  BY CsiAssumption DEF TypeOK
<1>2. CASE GuestSwitches \/ GuestSetsAddress
  <2>1. /\ UNCHANGED <<irqSt, pic>> /\ Observe /\ GuestOnly
        /\ clock' \in BOOLEAN /\ csien' \in BOOLEAN /\ irqEn' \in BOOLEAN
        /\ fbaddr' \in Addr /\ main = "run"
    BY <1>2 DEF GuestSwitches, GuestSetsAddress, TypeOK
  <2>2. TypeOK'
    BY <2>1 DEF TypeOK, Observe, GuestOnly, flags
  <2>3. CaptureInv'
    BY <2>1 DEF Observe, GuestOnly, flags, Capturing, Holding
  <2> QED BY <2>2, <2>3
<1>3. CASE GuestAcks
  <2>1. pic' = SetIRQState(pic, CsiIrq, FALSE)
    BY <1>3 DEF GuestAcks
  <2>2. pic' \in PicState /\ CsiIrq \notin pic'.pending
    BY <1>1, <2>1, LowerEffect
  <2>3. TypeOK'
    BY <1>3, <2>2 DEF GuestAcks, TypeOK, GuestOnly, flags, hist
  <2>4. CaptureInv'
    BY <1>3, <2>2 DEF GuestAcks, GuestOnly, flags, hist
  <2> QED BY <2>3, <2>4
<1>4. CASE SoftReset
  <2>1. pic' = [IRQDeviceReset(pic) EXCEPT !.queued = {}]
    BY <1>4 DEF SoftReset
  <2>2. pic' \in PicState /\ pic'.pending = {}
    BY <1>1, <2>1, ResetEffect
  <2>3. fbaddr' \in Addr
    BY <1>4, CsiAssumption DEF SoftReset, ResetAddr
  <2>4. TypeOK'
    BY <1>4, <2>2, <2>3 DEF SoftReset, TypeOK, GuestOnly, flags, Observe
  <2>5. CaptureInv'
    BY <1>4, <2>2 DEF SoftReset, GuestOnly, flags, Observe, Capturing, Holding
  <2> QED BY <2>4, <2>5
<1> QED
  BY <1>2, <1>3, <1>4, Zenon DEF GuestStep

\* Either the end of a finished frame is reported, in status bit and line, or
\* nothing is.
LEMMA ReportEffect ==
  ASSUME TypeOK, StatusMatchesLine, Report
  PROVE  /\ pic' \in PicState /\ irqSt' \in BOOLEAN /\ StatusMatchesLine'
         /\ main = "report" /\ main' \in {"reported", "run"}
         /\ UNCHANGED <<line, clock, csien, irqEn, fbaddr, flags, signalled, hist>>
         /\ MainOnly
<1>1. CsiIrq \in IRQ /\ pic \in PicState
  BY CsiAssumption DEF TypeOK
<1>2. CASE irqSt' = TRUE /\ pic' = SetIRQState(pic, CsiIrq, TRUE)
  <2>1. pic' = SetIRQState(pic, CsiIrq, TRUE)
    BY <1>2
  <2>2. pic' \in PicState /\ pic'.pending = pic.pending \cup {CsiIrq}
    BY <1>1, <2>1, RaiseEffect
  <2> QED
    BY <1>2, <2>2 DEF Report, StatusMatchesLine
<1>3. CASE UNCHANGED <<irqSt, pic>>
  BY <1>1, <1>3 DEF Report, StatusMatchesLine, TypeOK
<1> QED
  BY <1>2, <1>3 DEF Report

\* The emulation thread: CSITick and ShutdownCSI.
LEMMA MainKeeps ==
  ASSUME TypeOK, CaptureInv, MainStep \/ Quit
  PROVE  TypeOK' /\ CaptureInv'
<1> USE DEF CaptureInv, LockIsHeld, NeedLasts, RequestIsFresh, KillWaits,
            OffIsSeen, DoneHasFrame, AddressIsSeen, StatusMatchesLine,
            FrameEndMeansFrame, DestinationIsCurrent, CsiEnabled,
            TypeOK, MainSteps, MainOnly, regs, flags, hist
<1>1. CASE BeginTick
  BY <1>1, CsiAssumption DEF BeginTick
<1>2. CASE Choose
  BY <1>2 DEF Choose
<1>3. CASE Request
  BY <1>3 DEF Request, Holding, Capturing
<1>4. CASE NotifyCapture
  BY <1>4 DEF NotifyCapture
<1>5. CASE Report
  <2>1. /\ pic' \in PicState /\ irqSt' \in BOOLEAN
        /\ irqSt' <=> CsiIrq \in pic'.pending
        /\ main' \in {"reported", "run"}
        /\ UNCHANGED <<line, clock, csien, irqEn, fbaddr, flags, signalled, hist>>
        /\ MainOnly
    BY <1>5, ReportEffect
  <2> QED BY <2>1
<1>6. CASE ForgetDone
  <2>1. TypeOK'
    BY <1>6 DEF ForgetDone
  <2>2. CaptureInv'
    BY <1>6 DEF ForgetDone
  <2> QED BY <2>1, <2>2
<1>7. CASE Quit
  BY <1>7 DEF Quit
<1>8. CASE QuitRequest
  BY <1>8 DEF QuitRequest, Holding, Capturing
<1>9. CASE QuitNotify
  BY <1>9 DEF QuitNotify
<1>10. CASE Join
  BY <1>10 DEF Join
<1> HIDE DEF CaptureInv, TypeOK
<1> QED
  BY <1>1, <1>2, <1>3, <1>4, <1>5, <1>6, <1>7, <1>8, <1>9, <1>10, Zenon DEF MainStep

\* The capture thread.
LEMMA CaptureKeeps ==
  ASSUME TypeOK, CaptureInv, CaptureStep \/ CaptureWakeSpuriously
  PROVE  TypeOK' /\ CaptureInv'
<1> USE DEF CaptureInv, LockIsHeld, NeedLasts, RequestIsFresh, KillWaits,
            OffIsSeen, DoneHasFrame, AddressIsSeen, StatusMatchesLine,
            FrameEndMeansFrame, DestinationIsCurrent, CsiEnabled,
            TypeOK, CaptureSteps, CaptureOnly, Holding, Capturing,
            regs, flags, hist
<1>1. CASE CaptureLoop
  BY <1>1 DEF CaptureLoop
<1>2. CASE CaptureLock
  BY <1>2 DEF CaptureLock
<1>3. CASE CaptureTest
  <2>1. CASE ~frameNeed
    BY <1>3, <2>1 DEF CaptureTest
  <2>2. CASE frameNeed /\ killCapture
    BY <1>3, <2>2 DEF CaptureTest
  <2>3. CASE frameNeed /\ ~killCapture
    BY <1>3, <2>3 DEF CaptureTest
  <2> QED BY <2>1, <2>2, <2>3
<1>4. CASE CaptureWake \/ CaptureWakeSpuriously
  <2>1. /\ capture = "wait" /\ capture' = "lock" /\ signalled' = FALSE
        /\ UNCHANGED <<flags, locked, dest, hist>> /\ CaptureOnly
    BY <1>4 DEF CaptureWake, CaptureWakeSpuriously
  <2> QED BY <2>1
<1>5. CASE CaptureStart
  BY <1>5 DEF CaptureStart
<1>6. CASE GrabEnds
  BY <1>6 DEF GrabEnds
<1>7. CASE CheckClock
  BY <1>7 DEF CheckClock
<1>8. CASE CheckEnable
  BY <1>8 DEF CheckEnable
<1>9. CASE ReadAddr
  BY <1>9 DEF ReadAddr
<1>10. CASE CopyEnds
  BY <1>10 DEF CopyEnds
<1>11. CASE SetDone
  BY <1>11 DEF SetDone
<1>12. CASE ClearNeed
  BY <1>12 DEF ClearNeed
<1>13. CASE CaptureUnlock
  BY <1>13 DEF CaptureUnlock
<1> HIDE DEF CaptureInv, TypeOK
<1> QED
  BY <1>1, <1>2, <1>3, <1>4, <1>5, <1>6, <1>7, <1>8, <1>9, <1>10, <1>11, <1>12,
     <1>13, Zenon DEF CaptureStep

\* Every step keeps the invariant of the two threads.
LEMMA StepKeeps == TypeOK /\ CaptureInv /\ [Next]_vars => (TypeOK /\ CaptureInv)'
<1> SUFFICES ASSUME TypeOK, CaptureInv, [Next]_vars
             PROVE  TypeOK' /\ CaptureInv'
  OBVIOUS
<1>1. CASE Stopped \/ UNCHANGED vars
  BY <1>1 DEF Stopped, vars, regs, flags, hist, TypeOK, CaptureInv, LockIsHeld,
     NeedLasts, RequestIsFresh, KillWaits, OffIsSeen, DoneHasFrame, AddressIsSeen,
     StatusMatchesLine, FrameEndMeansFrame, DestinationIsCurrent, CsiEnabled
<1> QED
  BY <1>1, GuestKeeps, MainKeeps, CaptureKeeps, Zenon DEF Next

\* The invariant of the two threads holds at first.
LEMMA InitHolds == Init => TypeOK /\ CaptureInv
<1> SUFFICES ASSUME Init PROVE TypeOK /\ CaptureInv
  OBVIOUS
<1>1. pic \in PicState
  BY InitialPic DEF Init
<1>2. fbaddr \in Addr /\ dest \in Addr /\ line \in 0..LastLine
  BY CsiAssumption DEF Init, ResetAddr
<1>3. TypeOK
  BY <1>1, <1>2 DEF Init, TypeOK, MainSteps, CaptureSteps
<1>4. CaptureInv
  BY DEF Init, PicInit, CaptureInv, LockIsHeld, NeedLasts, RequestIsFresh,
     KillWaits, OffIsSeen, DoneHasFrame, AddressIsSeen, StatusMatchesLine,
     FrameEndMeansFrame, DestinationIsCurrent, Holding, Capturing
<1> QED BY <1>3, <1>4

\* The invariant of the two threads always holds.
LEMMA InductiveCapture == Spec => [](TypeOK /\ CaptureInv)
BY InitHolds, StepKeeps, PTL DEF Spec

------------------------------------------------------------------------------
\* The emulation never meets a mutex held for the webcam, and status bit and
\* line agree.
THEOREM CameraNeverStallsTheMachine == Spec => []CsiInv
<1>1. TypeOK /\ CaptureInv => CsiInv
  BY DEF CsiInv, CaptureInv, RequestIsFresh, NeedLasts, EmulationNeverWaitsForCamera
<1> QED
  BY <1>1, InductiveCapture, PTL

\* A frame end told to the guest is that of a frame in memory, unless the camera
\* went off meanwhile.
THEOREM FrameEndsHaveFrames == Spec => []FrameEndMeansFrame
<1>1. TypeOK /\ CaptureInv => FrameEndMeansFrame
  BY DEF CaptureInv
<1> QED
  BY <1>1, InductiveCapture, PTL

\* Every frame goes to a buffer that was programmed after it was delivered.
THEOREM FramesGoWhereToldTo == Spec => []DestinationIsCurrent
<1>1. TypeOK /\ CaptureInv => DestinationIsCurrent
  BY DEF CaptureInv
<1> QED
  BY <1>1, InductiveCapture, PTL
==============================================================================
