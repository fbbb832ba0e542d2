------------------------------- MODULE Gamepad -------------------------------
(***************************************************************************)
(* The infrared gamepads of io/ir_gamepad.cpp with their interrupt pin in  *)
(* sys/gpio.cpp.  Each change of a key queues a packet with all keys of    *)
(* that player.  The transmitter turns a packet into falling edges whose   *)
(* distances, counted in ticks, are a start mark, the bits from the        *)
(* highest one on and a stop mark; each edge interrupts the guest.         *)
(*                                                                         *)
(* The guest's side is not in the repository.  It is the driver for which  *)
(* the transmitter is written: it measures the time between interrupts,    *)
(* starts over at every start mark and takes a packet at its stop mark.    *)
(*                                                                         *)
(* In zone3d_pad_mode the pads are shift registers instead.  The guest     *)
(* loads them with one output pin, shifts them with another and reads a    *)
(* bit of each on input pins; a tick compares the output pins with those   *)
(* of the tick before.                                                     *)
(*                                                                         *)
(* Names that CsiCapture has too carry Pad or pin here: InputProofs        *)
(* extends both modules.                                                   *)
(***************************************************************************)
EXTENDS Pic, FiniteSets, Sequences

CONSTANTS
  Keys,                        \* the number of buttons: 9
  Select,                      \* BTN_SELECT among them
  TZero, TOne, TStart, TStop,  \* t_zero, t_one, t_start, t_stop
  Latency,                     \* ticks the guest may let an interrupt wait
  MaxEvents                    \* bound on the key events

GPIOInterrupt == 28
Player == {1, 2}

\* A mark is told from the others even if either of its edges was taken late, and
\* no edge waits until the next one.
ASSUME GamepadAssumption ==
  /\ GPIOInterrupt \in IRQ
  /\ Select \in 1..(Keys - 1)
  /\ {Keys, TZero, TOne, TStart, TStop, Latency, MaxEvents} \subseteq Nat
  /\ Latency <= TZero
  /\ TZero + 2 * Latency < TOne
  /\ TOne + 2 * Latency < TStart
  /\ TStart + 2 * Latency < TStop

VARIABLES
  keys, caused,              \* player_state; how many keys were moved
  packets,                   \* packets
  active, bits, sr, timer,   \* the transmitter
  pinEn, pinSt,    \* falling interrupt 2 of port I: its enable and status bit
  padPic,
  since, waits,    \* guest: ticks since its last edge, ticks this one waits
  inPacket, rx,    \* guest: has it seen a start mark, and the bits since then
  owed,            \* history: packets begun and not received
  disturbed,       \* history: an edge since then was lost to a disabled pin
  zone3d_pad_mode,
  outEn, outData,  \* output pins of port I: enabled, set
  inputs,          \* input pins of the ports S, R and G
  last, shiftreg,  \* last_latch and last_clk; what the pads shift out
  ticked,          \* guest: a tick has come since the pins were changed
  latched, pulses, \* history: the keys when the latch rose; clocks since then
  hasty            \* history: pins were changed twice without a tick between

tx    == <<packets, active, bits, sr, timer>>
gpio  == <<pinEn, pinSt>>
rxState == <<inPacket, rx>>
guest == <<since, waits, rxState>>
padHist  == <<owed, disturbed>>
infrared == <<tx, gpio, padPic, guest, padHist>>
pins  == <<outEn, outData, inputs>>
pads  == <<last, shiftreg>>
seen  == <<ticked, latched, pulses, hasty>>
polled == <<zone3d_pad_mode, pins, pads, seen>>
padVars  == <<keys, caused, infrared, polled>>

PadPin == {"latch", "clk"}    \* pins 1 and 0 of port I
InputPin == {"S6", "S7", "R0", "G0"}
Width == Keys + 2             \* the keys, the player, the checksum
Words == [1..Width -> BOOLEAN]
Top == TStop + Latency + 2    \* the guest's clock stops here

PadTypeOK ==
  /\ keys \in [Player -> SUBSET (1..Keys)]
  /\ caused \in 0..MaxEvents
  /\ packets \in Seq(Words) /\ Len(packets) <= caused
  /\ active \in BOOLEAN
  /\ bits \in -1..Width
  /\ sr \in Words
  /\ timer \in 0..TStop
  /\ pinEn \in BOOLEAN /\ pinSt \in BOOLEAN
  /\ padPic \in PicState
  /\ since \in 0..Top /\ waits \in 0..Latency
  /\ inPacket \in BOOLEAN
  /\ rx \in Seq(BOOLEAN) /\ Len(rx) <= Width
  /\ owed \in Seq(Words) /\ Len(owed) <= 2
  /\ disturbed \in BOOLEAN
  /\ zone3d_pad_mode \in BOOLEAN
  /\ {outEn, outData, last} \subseteq SUBSET PadPin
  /\ inputs \in [InputPin -> BOOLEAN]
  /\ shiftreg \in [Player -> [1..Keys -> BOOLEAN]]
  /\ ticked \in BOOLEAN /\ hasty \in BOOLEAN
  /\ latched \in [Player -> SUBSET (1..Keys)] /\ pulses \in 0..Keys

PadInit ==
  /\ keys = [p \in Player |-> {}] /\ caused = 0
  /\ packets = <<>> /\ active = FALSE /\ bits = 0 /\ timer = 0
  /\ sr = [k \in 1..Width |-> FALSE]
  /\ pinEn = FALSE /\ pinSt = FALSE
  /\ padPic = PicInit
  /\ since = Top /\ waits = 0 /\ inPacket = FALSE /\ rx = <<>>
  /\ owed = <<>> /\ disturbed = TRUE
  /\ zone3d_pad_mode \in BOOLEAN
  /\ outEn = {} /\ outData = {} /\ last = {}
  /\ inputs = [pin \in InputPin |-> FALSE]
  /\ shiftreg = [p \in Player |-> [k \in 1..Keys |-> FALSE]]
  /\ ticked = TRUE /\ hasty = TRUE
  /\ latched = [p \in Player |-> {}] /\ pulses = 0

------------------------------------------------------------------------------
(* IRGamepadEvent. *)

\* add_checksum: the exclusive or of the bits before it.
Checksum(p, down) == (Cardinality(down) + (IF p = 1 THEN 1 ELSE 0)) % 2 = 1

Packet(p, down) ==
  [k \in 1..Width |-> IF k <= Keys THEN k \in down
                      ELSE IF k = Keys + 1 THEN p = 1
                      ELSE Checksum(p, down)]

\* A key goes down or up; the repetitions of a key held down are ignored.
KeyEvent(p, k) ==
  LET down == IF k \in keys[p] THEN keys[p] \ {k} ELSE keys[p] \cup {k}
  IN  /\ caused < MaxEvents
      /\ caused' = caused + 1
      /\ keys' = [keys EXCEPT ![p] = down]
      /\ packets' = IF zone3d_pad_mode THEN packets
                    ELSE Append(packets, Packet(p, down))
      /\ UNCHANGED <<active, bits, sr, timer, gpio, padPic, guest, padHist, polled>>

------------------------------------------------------------------------------
(* tick_subor. *)

\* FireInterrupt(GPIO_PORT_I, 2, GPIO_FALLING).
FireInterrupt ==
  IF pinEn THEN pinSt' = TRUE /\ padPic' = SetIRQState(padPic, GPIOInterrupt, TRUE)
  ELSE UNCHANGED <<pinSt, padPic>>

\* The first edge of the next packet; it follows the last edge of the one before
\* by a single tick if that packet is waiting.
BeginPacket ==
  /\ ~active /\ packets # <<>>
  /\ active' = TRUE /\ bits' = Width /\ timer' = TStart
  /\ sr' = Head(packets) /\ packets' = Tail(packets)
  /\ FireInterrupt
  /\ owed' = (IF disturbed THEN <<>> ELSE owed) \o <<Head(packets)>>
  /\ disturbed' = ~pinEn

Rest ==
  /\ ~active /\ packets = <<>>
  /\ UNCHANGED <<tx, pinSt, padPic, padHist>>

CountDown ==
  /\ active /\ timer > 0
  /\ timer' = timer - 1
  /\ UNCHANGED <<packets, active, bits, sr, pinSt, padPic, padHist>>

Shifted == [k \in 1..Width |-> k < Width /\ sr[k + 1]]

\* Wrong variants: the bit is tested after the shift; the stop mark is sent one
\* bit early.
NextMarkShiftsFirst ==
  CASE bits > 0 -> /\ timer' = IF Shifted[1] THEN TOne ELSE TZero
                   /\ bits' = bits - 1 /\ sr' = Shifted /\ UNCHANGED active
    [] bits = 0 -> timer' = TStop /\ bits' = -1 /\ UNCHANGED <<sr, active>>
    [] OTHER    -> active' = FALSE /\ UNCHANGED <<timer, bits, sr>>

NextMarkStopsEarly ==
  CASE bits > 1 -> /\ timer' = IF sr[1] THEN TOne ELSE TZero
                   /\ bits' = bits - 1 /\ sr' = Shifted /\ UNCHANGED active
    [] bits \in {0, 1} -> timer' = TStop /\ bits' = -1 /\ UNCHANGED <<sr, active>>
    [] OTHER    -> active' = FALSE /\ UNCHANGED <<timer, bits, sr>>

\* The distance to the next edge, if there is one.
NextMark ==
  CASE bits > 0 -> /\ timer' = IF sr[1] THEN TOne ELSE TZero
                   /\ bits' = bits - 1 /\ sr' = Shifted /\ UNCHANGED active
    [] bits = 0 -> timer' = TStop /\ bits' = -1 /\ UNCHANGED <<sr, active>>
    [] OTHER    -> active' = FALSE /\ UNCHANGED <<timer, bits, sr>>

Edge ==
  /\ active /\ timer = 0
  /\ FireInterrupt
  /\ NextMark
  /\ disturbed' = (disturbed \/ ~pinEn)
  /\ UNCHANGED <<packets, owed>>

\* A tick comes in time: the guest lets no interrupt wait longer than Latency.
tick_subor ==
  /\ GPIOInterrupt \in padPic.queued => waits < Latency
  /\ BeginPacket \/ Rest \/ CountDown \/ Edge
  /\ since' = IF since < Top THEN since + 1 ELSE since
  /\ waits' = IF GPIOInterrupt \in padPic.queued THEN waits + 1 ELSE 0
  /\ UNCHANGED <<pinEn, rxState, polled>>

------------------------------------------------------------------------------
(* tick_zone3d. *)

\* GetGPIOState of pins that are wired to nothing: only what is driven is high.
High == outEn \cap outData

\* Pressed buttons are low, in another order than in the packets.  The last of the
\* buttons, and the bits behind them, always read as not pressed.
zone3d_get_pad(p) == [k \in 1..Keys |-> k = Keys \/ k \notin keys[p]]

ShiftedOut(reg) == [k \in 1..Keys |-> k < Keys /\ reg[k + 1]]

\* Wrong variant: the clock is looked at before the latch.
TickShiftsBeforeItLoads ==
  LET Rises(pin) == pin \in High \ last
      shifted == IF Rises("clk") THEN [p \in Player |-> ShiftedOut(shiftreg[p])]
                 ELSE shiftreg
  IN  /\ shiftreg' = IF Rises("latch") THEN [p \in Player |-> zone3d_get_pad(p)]
                     ELSE shifted
      /\ inputs' = [S6 |-> shiftreg'[1][1], S7 |-> shiftreg'[2][1],
                    R0 |-> shiftreg'[2][1], G0 |-> Select \in keys[1]]
      /\ last' = High
      /\ latched' = IF Rises("latch") THEN keys ELSE latched
      /\ ticked' = TRUE
      /\ UNCHANGED <<infrared, outEn, outData, pulses, hasty, zone3d_pad_mode>>

tick_zone3d ==
  LET Rises(pin) == pin \in High \ last
      loaded == IF Rises("latch") THEN [p \in Player |-> zone3d_get_pad(p)]
                ELSE shiftreg
  IN  /\ shiftreg' = IF Rises("clk") THEN [p \in Player |-> ShiftedOut(loaded[p])]
                     ELSE loaded
      /\ inputs' = [S6 |-> shiftreg'[1][1], S7 |-> shiftreg'[2][1],
                    R0 |-> shiftreg'[2][1], G0 |-> Select \in keys[1]]
      /\ last' = High
      /\ latched' = IF Rises("latch") THEN keys ELSE latched
      /\ ticked' = TRUE
      /\ UNCHANGED <<infrared, outEn, outData, pulses, hasty, zone3d_pad_mode>>

IRGamepadTick ==
  /\ IF zone3d_pad_mode THEN tick_zone3d ELSE tick_subor
  /\ UNCHANGED <<keys, caused>>

------------------------------------------------------------------------------
(* The guest. *)

\* A store of one to the status bit: GPIODeviceWriteHandler.
Acknowledged(p) == SetIRQState(p, GPIOInterrupt, FALSE)

\* The driver starts listening, with nothing left over from before.
GuestEnables ==
  /\ ~zone3d_pad_mode /\ ~pinEn
  /\ pinEn' = TRUE
  /\ pinSt' = FALSE /\ padPic' = Acknowledged(padPic)
  /\ since' = Top /\ waits' = 0 /\ inPacket' = FALSE /\ rx' = <<>>
  /\ UNCHANGED <<keys, caused, tx, padHist, polled>>

\* The time since the last edge is that of a mark of length t.
Marks(t) == since \in (t + 1 - Latency)..(t + 1 + Latency)

Complete == inPacket /\ Len(rx) = Width /\ Marks(TStop)
MoreBits == inPacket /\ Len(rx) < Width

\* The driver's handler.  A packet that is taken is no longer owed.
GuestTakesEdge ==
  /\ GPIOInterrupt \in padPic.queued
  /\ pinSt' = FALSE
  /\ padPic' = Acknowledged([padPic EXCEPT !.queued = @ \ {GPIOInterrupt}])
  /\ since' = 0 /\ waits' = 0
  /\ rx' = CASE MoreBits /\ Marks(TZero) -> Append(rx, FALSE)
             [] MoreBits /\ Marks(TOne) -> Append(rx, TRUE)
             [] OTHER -> <<>>
  /\ inPacket' = (Marks(TStart) \/ (MoreBits /\ (Marks(TZero) \/ Marks(TOne))))
  /\ owed' = IF Complete /\ owed # <<>> THEN Tail(owed) ELSE owed
  /\ UNCHANGED <<keys, caused, tx, pinEn, disturbed, polled>>

\* The guest changes what pins are driven and how.  It counts clocks from a latch.
GuestStoresPins(en, data) ==
  LET Rises(pin) == pin \in (en \cap data) \ High
  IN  /\ zone3d_pad_mode
      /\ outEn' = en /\ outData' = data
      /\ en \cap data # High
      /\ ticked' = FALSE
      /\ hasty' = (~ticked \/ (hasty /\ ~Rises("latch")))
      /\ pulses' = LET n == IF Rises("latch") THEN 0 ELSE pulses
                   IN  IF Rises("clk") /\ n < Keys THEN n + 1 ELSE n
      /\ UNCHANGED <<keys, caused, infrared, inputs, pads, latched, zone3d_pad_mode>>

\* F9: the registers are cleared and the guest begins again; the transmitter and
\* its queue go on.
PadSoftReset ==
  /\ pinEn' = FALSE /\ pinSt' = FALSE
  /\ padPic' = [IRQDeviceReset(padPic) EXCEPT !.queued = {}]
  /\ since' = Top /\ waits' = 0 /\ inPacket' = FALSE /\ rx' = <<>>
  /\ disturbed' = TRUE
  /\ outEn' = {} /\ outData' = {} /\ inputs' = [pin \in InputPin |-> FALSE]
  /\ hasty' = (hasty \/ ~ticked) /\ ticked' = FALSE
  /\ UNCHANGED <<keys, caused, tx, owed, zone3d_pad_mode, pads, latched, pulses>>

PadNext ==
  \/ \E p \in Player, k \in 1..Keys : KeyEvent(p, k)
  \/ IRGamepadTick
  \/ GuestEnables
  \/ GuestTakesEdge
  \/ \E en, data \in SUBSET PadPin : GuestStoresPins(en, data)
  \/ PadSoftReset

PadSpec == PadInit /\ [][PadNext]_padVars

------------------------------------------------------------------------------
\* What the driver takes for a packet is the oldest packet it has not received:
\* no combination of late handlers, packets back to back, resets in the middle
\* of a packet and idle times that look like a mark makes it read another word.
ReceivedWasSent ==
  [][GuestTakesEdge /\ Complete => owed # <<>> /\ rx = Head(owed)]_padVars

\* Every packet that began while the guest listened, and was not disturbed since,
\* has been received when the transmitter rests and no edge waits.
NoPacketIsMissed ==
  ~active /\ ~disturbed /\ GPIOInterrupt \notin padPic.queued => owed = <<>>

\* Polled pads show one moment: a guest that leaves a tick between two changes of
\* the pins reads from both pads, bit after bit, the keys of the tick that saw the
\* latch rise, whatever was pressed since, however latch and clock overlap, and
\* even if a soft reset falls between them.
PolledIsLatched ==
  LET Shown(p) == /\ pulses < Keys
                  /\ pulses + 1 = Keys \/ pulses + 1 \notin latched[p]
  IN  zone3d_pad_mode /\ ticked /\ ~hasty =>
        /\ inputs["S6"] = Shown(1)
        /\ inputs["S7"] = Shown(2) /\ inputs["R0"] = Shown(2)

(* The invariant that makes the three inductive. *)

Queued == GPIOInterrupt \in padPic.queued

\* The packet in the transmitter, the lengths of its marks, the last of them that
\* ended (-1 before the first), and the ticks since.
Sent == owed[Len(owed)]
MarkLength(n) ==
  CASE n = 0 -> TStart
    [] n \in 1..Width -> IF Sent[n] THEN TOne ELSE TZero
    [] OTHER -> TStop
Ended == IF active THEN Width - bits - 1 ELSE Width + 1
Elapsed == MarkLength(Width - bits) - timer

\* The line, intsFired and the queue of the CPU go together while the pin
\* interrupts.
PinIsQueued ==
  /\ padPic.mask = {}
  /\ padPic.queued \subseteq {GPIOInterrupt} /\ padPic.fired \subseteq {GPIOInterrupt}
  /\ padPic.pending = padPic.queued
  /\ IF pinEn THEN padPic.fired = padPic.queued ELSE padPic.queued = {}

SenderSendsLast ==
  active => /\ owed # <<>>
            /\ timer <= MarkLength(Width - bits)
            /\ \A k \in 1..bits : sr[k] = Sent[k + Width - bits]

DeafIsUnaware ==
  /\ ~pinEn => disturbed /\ since = Top
  /\ disturbed => ~inPacket /\ rx = <<>>
  /\ ~Queued => waits = 0

\* What the guest measures is right but for its own delays.  After a disturbance
\* it has not measured anything, or nothing that looks like a start mark.
Measured(t) == since - waits \in (t + 1 - Latency)..(t + 1)

GuestMeasures ==
  /\ active /\ Queued => Elapsed <= waits
  /\ active /\ ~Queued /\ pinEn =>
       since \in (Elapsed - Latency)..Elapsed \/ (disturbed /\ since = Top)
  /\ active /\ disturbed /\ bits = Width => ~Queued /\ since = Top
  /\ Queued /\ Ended >= 0 =>
       \/ Measured(MarkLength(Ended)) /\ (disturbed => Ended # 0)
       \/ disturbed /\ since = Top

\* An undisturbed guest has the bits whose edges it took, and owes one packet, or
\* two while the stop mark of the first waits and the second has begun.
Heard == IF Queued THEN Ended - 1 ELSE Ended
Idle == ~active /\ ~Queued

TwoInOne ==
  /\ active /\ bits = Width /\ Queued /\ inPacket
  /\ Len(owed) = 2 /\ rx = Head(owed) /\ Measured(TStop)

InStep ==
  /\ Len(owed) = 1
  /\ Len(rx) = IF Heard > 0 THEN Heard ELSE 0
  /\ \A k \in 1..Len(rx) : rx[k] = Sent[k]
  /\ Heard >= 0 => inPacket
  /\ Heard = -2 => ~inPacket

GuestFollows ==
  /\ ~disturbed /\ ~Idle => TwoInOne \/ InStep
  /\ ~disturbed /\ Idle => owed = <<>> /\ ~inPacket /\ rx = <<>>

\* The pads hold what was latched, shifted by the clocks they have seen: all but
\* one that rises at the next tick, and nothing of it if the latch does.
Register(down, n) ==
  [k \in 1..Keys |-> k + n <= Keys /\ (k + n = Keys \/ k + n \notin down)]

PadsFollow ==
  /\ ticked => /\ last = High
               /\ inputs["S6"] = shiftreg[1][1]
               /\ inputs["S7"] = shiftreg[2][1] /\ inputs["R0"] = shiftreg[2][1]
  /\ ~hasty => \E n \in 0..Keys :
       /\ pulses = IF "clk" \in High \ last /\ n < Keys THEN n + 1 ELSE n
       /\ IF "latch" \in High \ last THEN n = 0
          ELSE shiftreg = [p \in Player |-> Register(latched[p], n)]

TransmissionInv ==
  /\ PinIsQueued /\ SenderSendsLast /\ DeafIsUnaware /\ GuestMeasures /\ GuestFollows

GamepadInv ==
  /\ PadTypeOK /\ TransmissionInv /\ PadsFollow
  /\ NoPacketIsMissed /\ PolledIsLatched
==============================================================================
