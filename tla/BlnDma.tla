-------------------------------- MODULE BlnDma -------------------------------
(***************************************************************************)
(* The blending DMA of dma/blndma.cpp: it copies, blends and fills         *)
(* rectangles of 16-bit pixels in main RAM.  A transfer runs to its end in *)
(* the store that sets the start bit.  The registers that describe it are  *)
(* plain data which only that store reads, so here they are the parameter  *)
(* of the store.  Memory is counted in halfwords.                          *)
(*                                                                         *)
(* Names that Blanking has too begin with Bln: PictureProofs extends both. *)
(***************************************************************************)
EXTENDS Pic, FiniteSets

CONSTANTS
  MemTop,      \* the last halfword of main RAM
  Pictures,    \* what the guest may draw into it itself
  Transfers,   \* the transfers the guest may start
  MaxPaints    \* bound: transfers between two drawings

BlnLine == 34
PixelTop == 65535
Pixel == 0..PixelTop
Addresses == 0..MemTop

\* A transfer, as latched when it starts: the size of the rectangle, the sources
\* and the destination, each in block mode or not, the block of all three, whether
\* the colour key is looked at, ARGB1555 instead of RGB565, whether bit 15 is looked
\* at, and the rest as in the code; fa and fb are the two blndFactor.
Source == [block : BOOLEAN, first : Nat]
Block  == [base : Nat, w : Nat \ {0}, h : Nat, offx : Nat, offy : Nat]
Transfer ==
  [mode : {"idle", "copy", "blend", "fill"}, w : Nat, h : Nat,
   a : Source, b : Source, d : Source, block : Block,
   keyed : BOOLEAN, key : Pixel, argb : BOOLEAN, alpha : BOOLEAN,
   descramble : BOOLEAN, sub : BOOLEAN, fill : Pixel, fa : 0..63, fb : 0..63]

------------------------------------------------------------------------------
(* Addresses. *)

\* Wrong variant: rows of a block are as long as the rectangle.
GetAddressIgnoresPitch(t, s, x, y) ==
  LET bx == x + t.block.offx
      by == y + t.block.offy
  IN  IF ~s.block THEN s.first + t.w * y + x
      ELSE IF bx >= t.block.w \/ by >= t.block.h THEN -1
      ELSE t.block.base + t.w * by + bx

\* -1 is outside the block.
GetAddress(t, s, x, y) ==
  LET bx == x + t.block.offx
      by == y + t.block.offy
  IN  IF ~s.block THEN s.first + t.w * y + x
      ELSE IF bx >= t.block.w \/ by >= t.block.h THEN -1
      ELSE t.block.base + t.block.w * by + bx

\* The guest keeps to main RAM with what a transfer reads and writes; descrambling
\* takes two pixels at once.
Uses(t) ==
  CASE t.mode = "idle" -> {}
    [] t.mode = "copy" -> {t.a, t.d}
    [] t.mode = "blend" -> {t.a, t.b, t.d}
    [] t.mode = "fill" -> {t.d}

Descrambling(t) == t.mode = "copy" /\ t.descramble

StaysInMemory(t) ==
  \A s \in Uses(t), x \in 0..(t.w - 1), y \in 0..(t.h - 1) :
    LET at == GetAddress(t, s, x, y)
    IN  at # -1 => at \in Addresses /\ (Descrambling(t) /\ x % 2 = 0 => at + 1 \in Addresses)

ASSUME BlnAssumption ==
  /\ MemTop \in Nat /\ MaxPaints \in Nat
  /\ BlnLine \in IRQ
  /\ Pictures \subseteq [Addresses -> Pixel]
  /\ \A t \in Transfers : t \in Transfer /\ StaysInMemory(t)

VARIABLES
  mem,
  start,     \* bit 24 of ctrl_1
  intEn,     \* bit 16 of irq_ctrl; the status bit, 8, is never set
  blnPic,
  given,     \* history: the last transfer started was given up
  finished,  \* history: one finished with its interrupt since the last clear
  paints     \* counts up to MaxPaints

blnVars == <<mem, start, intEn, blnPic, given, finished, paints>>

BlnTypeOK ==
  /\ mem \in [Addresses -> Pixel]
  /\ start \in BOOLEAN /\ intEn \in BOOLEAN /\ given \in BOOLEAN
  /\ finished \in BOOLEAN
  /\ blnPic \in PicState
  /\ paints \in 0..MaxPaints

BlnInit ==
  /\ mem \in Pictures
  /\ start = FALSE /\ intEn = FALSE
  /\ blnPic = PicInit
  /\ given = FALSE /\ finished = FALSE
  /\ paints = 0

------------------------------------------------------------------------------
(* Pixels. *)

Load(m, at) == IF at = -1 THEN 0 ELSE m[at]

\* 2^k is Weight[k + 1].
Weight ==
  <<1, 2, 4, 8, 16, 32, 64, 128, 256, 512, 1024, 2048, 4096, 8192, 16384, 32768>>

Bit(v, k) == (v \div Weight[k + 1]) % 2 = 1

\* The number of sixteen bits whose ones are those of a set.
Number(ones) ==
  LET digit(k) == IF k \in ones THEN Weight[k + 1] ELSE 0
  IN  digit(0) + digit(1) + digit(2) + digit(3) + digit(4) + digit(5) + digit(6)
      + digit(7) + digit(8) + digit(9) + digit(10) + digit(11) + digit(12)
      + digit(13) + digit(14) + digit(15)

\* The three channels; one that is transparent counts as black.
Channels(t, v) ==
  IF t.argb
    THEN IF t.alpha /\ Bit(v, 15) THEN [r |-> 0, g |-> 0, b |-> 0]
         ELSE [r |-> (v \div 1024) % 32, g |-> (v \div 32) % 32, b |-> v % 32]
    ELSE [r |-> (v \div 2048) % 32, g |-> (v \div 32) % 64, b |-> v % 32]

\* Before it is cut to the width of the channel; >> rounds down.
Mixed(t, ca, cb) ==
  (IF t.sub THEN ca * t.fa - cb * t.fb ELSE ca * t.fa + cb * t.fb) \div 64

\* The fields are or-ed: in ARGB1555 the sixth bit of green is the lowest of red.
Pack(t, r, g, b) ==
  IF t.argb
    THEN LET carry == IF g >= 32 /\ r % 2 = 0 THEN 1 ELSE 0
         IN  (r + carry) * 1024 + (g % 32) * 32 + b
    ELSE r * 2048 + g * 32 + b

\* Nothing saturates: what is too large or negative wraps.
Blended(t, va, vb) ==
  LET a == Channels(t, va)
      b == Channels(t, vb)
  IN  Pack(t, Mixed(t, a.r, b.r) % 32, Mixed(t, a.g, b.g) % 64, Mixed(t, a.b, b.b) % 32)

\* A pixel the colour key or the alpha bit hides.
Hidden(t, v) == (t.keyed /\ v = t.key) \/ (t.argb /\ t.alpha /\ Bit(v, 15))

(* descrambleWord: eight groups of four bits, each looked up in a table. *)

Groups ==
  <<<<0, 14, 16, 21>>, <<1, 9, 19, 27>>, <<2, 17, 20, 28>>, <<3, 10, 18, 25>>,
    <<4, 5, 26, 31>>, <<6, 15, 22, 30>>, <<7, 12, 13, 24>>, <<8, 11, 23, 29>>>>

\* The entry of the value n is the one at n + 1.
Luts ==
  <<<<4, 14, 12, 6, 1, 11, 9, 3, 8, 2, 0, 10, 13, 7, 5, 15>>,
    <<10, 6, 2, 9, 0, 5, 1, 15, 12, 8, 14, 4, 7, 11, 3, 13>>,
    <<8, 12, 9, 13, 5, 7, 1, 11, 6, 3, 15, 0, 10, 14, 4, 2>>,
    <<9, 7, 1, 0, 8, 13, 15, 5, 10, 4, 12, 14, 6, 2, 3, 11>>,
    <<6, 9, 10, 5, 3, 8, 7, 1, 12, 4, 2, 11, 15, 0, 13, 14>>,
    <<15, 5, 7, 1, 14, 6, 12, 0, 13, 8, 9, 4, 11, 3, 10, 2>>,
    <<6, 15, 4, 9, 8, 0, 14, 10, 2, 12, 3, 1, 11, 7, 13, 5>>,
    <<5, 15, 1, 0, 14, 12, 2, 9, 6, 3, 8, 11, 7, 10, 13, 4>>>>

\* A word is the set of its bits that are ones.
DescrambleGroup(g, word) ==
  LET value == Number({k \in 0..3 : Groups[g][k + 1] \in word})
  IN  {Groups[g][k] : k \in {k \in 1..4 : Bit(Luts[g][value + 1], k - 1)}}

\* Wrong variant: the last group is left out.
DescrambleWordStopsEarly(word) == UNION {DescrambleGroup(g, word) : g \in 1..7}

DescrambleWord(word) == UNION {DescrambleGroup(g, word) : g \in DOMAIN Groups}

WordOf(lo, hi) == {k \in 0..15 : Bit(lo, k)} \cup {k \in 16..31 : Bit(hi, k - 16)}
LowHalf(word)  == Number(word)
HighHalf(word) == Number({k \in 0..15 : k + 16 \in word})

(* One turn of the inner loop. *)

PutPixel(t, m, x, y, v) ==
  LET at == GetAddress(t, t.d, x, y)
  IN  IF at = -1 THEN m ELSE [m EXCEPT ![at] = v]

CopyPixel(t, m, x, y) ==
  LET v == Load(m, GetAddress(t, t.a, x, y))
  IN  IF Hidden(t, v) THEN m ELSE PutPixel(t, m, x, y, v)

\* Two pixels in one word, whatever the key says.
DescramblePixels(t, m, x, y) ==
  LET from == GetAddress(t, t.a, x, y)
      to == GetAddress(t, t.d, x, y)
      word == DescrambleWord(IF from = -1 THEN {} ELSE WordOf(m[from], m[from + 1]))
  IN  IF to = -1 THEN m ELSE [m EXCEPT ![to] = LowHalf(word), ![to + 1] = HighHalf(word)]

BlendPixel(t, m, x, y) ==
  PutPixel(t, m, x, y, Blended(t, Load(m, GetAddress(t, t.a, x, y)),
                                  Load(m, GetAddress(t, t.b, x, y))))

Turn(t, m, x, y) ==
  CASE Descrambling(t) -> DescramblePixels(t, m, x, y)
    [] t.mode = "copy" /\ ~t.descramble -> CopyPixel(t, m, x, y)
    [] t.mode = "blend" -> BlendPixel(t, m, x, y)
    [] t.mode = "fill" -> PutPixel(t, m, x, y, t.fill)

\* Row by row from the first.  Descrambling takes every second column: an odd
\* row writes one halfword more than it has.
Stride(t) == IF Descrambling(t) THEN 2 ELSE 1
Columns(t) == (t.w + Stride(t) - 1) \div Stride(t)

Painted(t, m) ==
  LET after[n \in 0..(Columns(t) * t.h)] ==
        IF n = 0 THEN m
        ELSE Turn(t, after[n - 1],
                  Stride(t) * ((n - 1) % Columns(t)), (n - 1) \div Columns(t))
  IN  IF t.mode = "idle" THEN m ELSE after[Columns(t) * t.h]

------------------------------------------------------------------------------
(* The guest's stores: BLNDMADeviceWriteHandler. *)

\* A fill with a colour that would not show returns at once.
GivenUp(t) == t.mode = "fill" /\ Hidden(t, t.fill)

Result(t, m) == IF GivenUp(t) THEN m ELSE Painted(t, m)

\* Wrong variant: every transfer that is started raises the line.
GoAlwaysRaises(t) ==
  /\ paints < MaxPaints /\ paints' = paints + 1
  /\ mem' = Result(t, mem)
  /\ start' = GivenUp(t) /\ given' = GivenUp(t)
  /\ blnPic' = IF intEn THEN SetIRQState(blnPic, BlnLine, TRUE) ELSE blnPic
  /\ finished' = (finished \/ (intEn /\ ~GivenUp(t)))
  /\ UNCHANGED intEn

\* ctrl_1 with the start bit.  A transfer that is given up leaves the bit on and
\* does not interrupt.
Go(t) ==
  /\ paints < MaxPaints /\ paints' = paints + 1
  /\ mem' = Result(t, mem)
  /\ start' = GivenUp(t) /\ given' = GivenUp(t)
  /\ IF intEn /\ ~GivenUp(t)
       THEN blnPic' = SetIRQState(blnPic, BlnLine, TRUE) /\ finished' = TRUE
       ELSE UNCHANGED <<blnPic, finished>>
  /\ UNCHANGED intEn

\* ctrl_1 without it.
Stop ==
  /\ start' = FALSE /\ given' = FALSE
  /\ UNCHANGED <<mem, intEn, blnPic, finished, paints>>

WriteIrqCtrl(enable, clear) ==
  /\ intEn' = enable
  /\ IF clear
       THEN blnPic' = SetIRQState(blnPic, BlnLine, FALSE) /\ finished' = FALSE
       ELSE UNCHANGED <<blnPic, finished>>
  /\ UNCHANGED <<mem, start, given, paints>>

\* Soft reset of the machine: the registers here and in the interrupt controller.
BlnSoftReset ==
  /\ start' = FALSE /\ intEn' = FALSE /\ given' = FALSE /\ finished' = FALSE
  /\ blnPic' = [IRQDeviceReset(blnPic) EXCEPT !.queued = {}]
  /\ UNCHANGED <<mem, paints>>

\* The guest's own stores to RAM, and the CPU's interrupts.
Draw == mem' \in Pictures /\ paints' = 0 /\ UNCHANGED <<start, intEn, blnPic, given, finished>>

BlnCpuTakes ==
  /\ blnPic.queued # {}
  /\ blnPic' = [blnPic EXCEPT !.queued = {}]
  /\ UNCHANGED <<mem, start, intEn, given, finished, paints>>

BlnNext ==
  \/ \E t \in Transfers : Go(t)
  \/ Stop
  \/ \E enable, clear \in BOOLEAN : WriteIrqCtrl(enable, clear)
  \/ BlnSoftReset
  \/ Draw
  \/ BlnCpuTakes

BlnSpec == BlnInit /\ [][BlnNext]_blnVars

------------------------------------------------------------------------------
\* The start bit stays on, for a guest that polls it, only after a transfer that
\* was given up; the line is up, for a guest that waits for it, exactly when a
\* transfer finished with its interrupt enabled since the guest last cleared it.
WaitIsExplained == (start => given) /\ (BlnLine \in blnPic.pending <=> finished)

BlnInv == BlnTypeOK /\ WaitIsExplained

(* What a transfer should do, from the pixels' point of view. *)

\* The column and row of the rectangle that a halfword holds.
Place(t, s, at) ==
  IF s.block
    THEN <<((at - t.block.base) % t.block.w) - t.block.offx,
           ((at - t.block.base) \div t.block.w) - t.block.offy>>
    ELSE <<(at - s.first) % t.w, (at - s.first) \div t.w>>

Cells(t, s) ==
  {at \in Addresses :
     /\ Place(t, s, at) \in (0..(t.w - 1)) \X (0..(t.h - 1))
     /\ s.block => at < t.block.base + t.block.w * t.block.h}

PixelAt(t, s, m, p) ==
  IF \E at \in Cells(t, s) : Place(t, s, at) = p
    THEN m[CHOOSE at \in Cells(t, s) : Place(t, s, at) = p]
    ELSE 0

\* A colour that is not wrapped but stays at the darkest or the brightest.
Saturated(v, limit) == IF v < 0 THEN 0 ELSE IF v > limit THEN limit ELSE v

IdealBlend(t, va, vb) ==
  LET a == Channels(t, va)
      b == Channels(t, vb)
      red == Saturated(Mixed(t, a.r, b.r), 31)
      green == Saturated(Mixed(t, a.g, b.g), IF t.argb THEN 31 ELSE 63)
      blue == Saturated(Mixed(t, a.b, b.b), 31)
  IN  red * (IF t.argb THEN 1024 ELSE 2048) + green * 32 + blue

Ideal(t, m, at) ==
  LET p == Place(t, t.d, at)
      pair == <<p[1] - (p[1] % 2), p[2]>>
      word == DescrambleWord(WordOf(PixelAt(t, t.a, m, pair),
                                    PixelAt(t, t.a, m, <<pair[1] + 1, pair[2]>>)))
      v == CASE t.mode = "copy" -> PixelAt(t, t.a, m, p)
             [] t.mode = "fill" -> t.fill
             [] t.mode = "blend" -> IdealBlend(t, PixelAt(t, t.a, m, p), PixelAt(t, t.b, m, p))
  IN  IF Descrambling(t)
        THEN IF p[1] % 2 = 0 THEN LowHalf(word) ELSE HighHalf(word)
      ELSE IF t.mode \in {"copy", "fill"} /\ Hidden(t, v) THEN m[at]
      ELSE v

Picture(t, m) ==
  [at \in Addresses |->
     IF t.mode # "idle" /\ at \in Cells(t, t.d) THEN Ideal(t, m, at) ELSE m[at]]

\* The guest's side: a destination that does not lie in front of what is still
\* to be read, whole words to descramble, and factors that cannot exceed white
\* or go below black.
ReadInTime(t, s) ==
  \/ s.block /\ t.d.block
  \/ ~s.block /\ ~t.d.block /\ t.d.first <= s.first
  \/ Cells(t, s) \cap Cells(t, t.d) = {}

InRange(t) == IF t.sub THEN t.fb = 0 ELSE t.fa + t.fb <= 64

Sensible(t) ==
  CASE t.mode = "copy"  -> /\ ReadInTime(t, t.a)
                           /\ t.descramble => t.w % 2 = 0 /\ ~t.a.block /\ ~t.d.block
    [] t.mode = "blend" -> ReadInTime(t, t.a) /\ ReadInTime(t, t.b) /\ InRange(t)
    [] OTHER -> TRUE

\* Whatever is in memory, any sensible transfer leaves the pictures as if all
\* pixels were read, computed without wrapping, and then written at once: the
\* order of the loops, rectangles that overlap, blocks that clip them and the
\* early return of a hidden fill do not show.
TransfersPaint ==
  \A t \in Transfers : Sensible(t) => Result(t, mem) = Picture(t, mem)

\* The groups share out the bits of a word, and each table is a permutation.
GroupsPermute ==
  \A g \in DOMAIN Groups :
    LET bits == {Groups[g][k] : k \in 1..4}
    IN  /\ {DescrambleWord(w) \cap bits : w \in SUBSET bits} = SUBSET bits
        /\ \A w \in SUBSET bits : DescrambleWord(w) \ bits = DescrambleWord({}) \ bits

\* No picture is lost by descrambling: words that differ still differ after it,
\* because no two values of a group are turned into the same and no bit belongs
\* to two groups.
DescrambleIsInvertible ==
  /\ GroupsPermute
  /\ LET words == {WordOf(mem[at], mem[at + 1]) : at \in 0..(MemTop - 1)}
     IN  Cardinality({DescrambleWord(w) : w \in words}) = Cardinality(words)
==============================================================================
