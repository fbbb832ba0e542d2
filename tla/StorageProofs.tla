----------------------------- MODULE StorageProofs -----------------------------
(* Theorems about SdHost, the SD interface and its card, and about ApbDma, the *)
(* controller that moves their data.                                          *)
EXTENDS SdHost, ApbDma, PicProofs

------------------------------------------------------------------------------
(* Bounds. *)

\* A set of natural numbers with a bound has a highest member.
LEMMA HighestExists ==
  ASSUME NEW S \in SUBSET Nat, S # {}, NEW N \in Nat, \A i \in S : i <= N
  PROVE  \E i \in S : \A j \in S : j <= i
<1> DEFINE T == {N - i : i \in S}
<1>1. T \in SUBSET Nat /\ T # {}
  <2>1. \A i \in S : N - i \in Nat
    OBVIOUS
  <2> QED
    BY <2>1
<1>2. PICK t \in T : \A u \in T : t <= u
  <2> HIDE DEF T
  <2> QED BY <1>1, LowestExists
<1>3. PICK i \in S : t = N - i
  BY <1>2
<1>4. ASSUME NEW j \in S PROVE j <= i
  <2>1. N - j \in T
    OBVIOUS
  <2>2. N - i <= N - j
    BY <1>2, <1>3, <2>1
  <2> QED
    BY <2>2
<1> QED
  BY <1>4

Lengths == BlockLens \cup {Sector}

\* The count of bytes stops above every block.
LEMMA CountTopIsAbove ==
  CountTop \in Nat /\ \A n \in Lengths : n + 4 <= CountTop
<1>1. Lengths \in SUBSET Nat /\ Lengths # {}
  BY CardAssumption DEF Lengths
<1>2. \A n \in Lengths : n <= 4096 + Sector
  <2>1. \A n \in BlockLens : n <= 4096
    BY CardAssumption, HostAssumption
  <2>2. Sector <= 4096 + Sector /\ \A n \in Nat : n <= 4096 => n <= 4096 + Sector
    BY CardAssumption
  <2> QED
    BY <1>1, <2>1, <2>2 DEF Lengths
<1>3. \E n \in Lengths : \A m \in Lengths : m <= n
  <2> DEFINE bound == 4096 + Sector
  <2>1. bound \in Nat
    BY CardAssumption
  <2>2. \A n \in Lengths : n <= bound
    BY <1>2
  <2> HIDE DEF bound
  <2> QED
    BY <1>1, <2>1, <2>2, HighestExists
<1> DEFINE top == CHOOSE n \in Lengths : \A m \in Lengths : m <= n
<1>4. top \in Lengths /\ \A m \in Lengths : m <= top
  BY <1>3
<1>5. CountTop = top + 4
  BY DEF CountTop, Lengths
<1> HIDE DEF top
<1> QED
  BY <1>1, <1>4, <1>5

\* What the arithmetic of a transfer rests on.
LEMMA BlocksAreWords ==
  /\ WordTop \in Nat \ {0}
  /\ \A b \in BlockLens : b \in Nat \ {0} /\ b % 4 = 0
  /\ \A n \in {4} \cup DmaSizes : n \in Nat /\ n > 0 /\ n % 4 = 0
  /\ \A n \in {4} \cup DmaSizes, b \in BlockLens : b + n <= WordTop
<1>1. WordTop \in Nat /\ WordTop > 0
  BY CardAssumption
<1>2. \A b \in BlockLens : b \in Nat \ {0} /\ b % 4 = 0
  BY CardAssumption, HostAssumption
<1>3. \A n \in DmaSizes : n \in Nat /\ n > 0 /\ n % 4 = 0
  BY HostAssumption
<1>4. \A n \in {4} \cup DmaSizes, b \in BlockLens : b + n <= WordTop
  BY HostAssumption
<1>5. 4 \in Nat /\ 4 > 0 /\ 4 % 4 = 0
  OBVIOUS
<1> QED
  BY <1>1, <1>2, <1>3, <1>4, <1>5

\* Arithmetic on addresses.
LEMMA SmallIsItsRemainder ==
  ASSUME NEW n \in Nat, NEW a \in 0..(n - 1)
  PROVE  a % n = a
OBVIOUS

LEMMA SectorsAreBytes ==
  ASSUME NEW a \in Nat, NEW b \in Nat
  PROVE  a * b \in Nat
OBVIOUS

------------------------------------------------------------------------------
(* The card. *)

\* The argument of a command is a number, a block length that of SET_BLOCKLEN.
LEMMA ArgumentsAreNatural ==
  ASSUME NEW cmd \in Commands, NEW arg \in Arguments(cmd)
  PROVE  /\ arg \in Nat
         /\ cmd = "SET_BLOCKLEN" => arg \in BlockLens
<1>1. CASE cmd = "SET_BLOCKLEN"
  <2>1. Arguments(cmd) = BlockLens
    BY <1>1 DEF Arguments, BlockCommands, ReadCommands, WriteCommands
  <2>2. arg \in BlockLens
    BY <2>1
  <2> QED
    BY <1>1, <2>2, CardAssumption
<1>2. CASE cmd # "SET_BLOCKLEN"
  <2>1. CASE cmd = "SELECT_CARD"
    <3>1. Arguments(cmd) = {0, 1}
      BY <2>1 DEF Arguments, BlockCommands, ReadCommands, WriteCommands
    <3> QED
      BY <1>2, <3>1
  <2>2. CASE cmd \in BlockCommands \cup {"ERASE_WR_BLK_START", "ERASE_WR_BLK_END"}
    <3>1. Arguments(cmd) = Places
      BY <2>2 DEF Arguments, BlockCommands, ReadCommands, WriteCommands
    <3> QED
      BY <1>2, <3>1, CardAssumption
  <2>3. CASE cmd \notin {"SELECT_CARD", "SET_BLOCKLEN"} \cup BlockCommands
                       \cup {"ERASE_WR_BLK_START", "ERASE_WR_BLK_END"}
    BY <2>3 DEF Arguments
  <2> QED
    BY <1>2, <2>1, <2>2, <2>3
<1> QED
  BY <1>1, <1>2

\* What a reset, a command of each kind and a whole command make of a card is a card.
LEMMA ResetType ==
  ASSUME NEW c \in CardType PROVE CardReset(c) \in CardType
<1>1. 0 \in 0..(WordTop - 1) /\ 0 \in OffsetFloor..FileTop
  BY CardAssumption, HostAssumption DEF OffsetFloor
<1> QED
  BY <1>1 DEF CardReset, CardType, CardStates

LEMMA TransferType ==
  ASSUME NEW c \in CardType, NEW cmd \in BlockCommands, NEW arg \in Nat
  PROVE  BeginTransfer(c, cmd, arg) \in CardType
<1>1. arg * Sector \in Nat
  BY SectorsAreBytes, CardAssumption
<1> DEFINE d == [c EXCEPT !.multi = cmd \in MultiCommands]
           e(st) == [d EXCEPT !.state = st, !.offset = arg * Sector, !.bytecount = 0]
<1>2. d \in CardType
  <2>1. (cmd \in MultiCommands) \in BOOLEAN
    OBVIOUS
  <2> QED
    BY <2>1 DEF CardType
<1>3. ASSUME NEW st \in {"SEND", "RECV"}, arg * Sector < CardSize
      PROVE  e(st) \in CardType
  <2>1. arg * Sector \in OffsetFloor..FileTop /\ 0 \in 0..(WordTop - 1)
    BY <1>1, <1>3, CardAssumption, HostAssumption DEF OffsetFloor
  <2> HIDE DEF d
  <2> QED
    BY <1>2, <2>1 DEF CardType, CardStates
<1>4. \/ BeginTransfer(c, cmd, arg) = d
      \/ /\ arg * Sector < CardSize
         /\ \E st \in {"SEND", "RECV"} : BeginTransfer(c, cmd, arg) = e(st)
  BY DEF BeginTransfer
<1> QED
  BY <1>2, <1>3, <1>4

LEMMA AppCommandType ==
  ASSUME NEW c \in CardType, NEW cmd \in Commands
  PROVE  AppCommand(c, cmd) \in CardType
<1>1. 0 \in 0..(WordTop - 1)
  BY CardAssumption
<1>2. CASE cmd \in {"SD_SEND_OP_COND", "SD_SEND_OCR"}
  BY <1>2 DEF AppCommand, CardType, CardStates
<1>3. CASE cmd = "SD_SEND_SCR"
  BY <1>1, <1>3 DEF AppCommand, CardType, CardStates
<1>4. CASE cmd \notin {"SD_SEND_OP_COND", "SD_SEND_OCR", "SD_SEND_SCR"}
  BY <1>4 DEF AppCommand, CardType
<1> QED
  BY <1>2, <1>3, <1>4

LEMMA NormalCommandType ==
  ASSUME NEW c \in CardType, NEW cmd \in Commands, NEW arg \in Arguments(cmd)
  PROVE  NormalCommand(c, cmd, arg) \in CardType
<1>1. arg \in Nat /\ (cmd = "SET_BLOCKLEN" => arg \in BlockLens)
  BY ArgumentsAreNatural
<1>2. c.blocklen \in Nat
  BY CardAssumption DEF CardType
<1>3. (arg * c.blocklen) % WordTop \in 0..(WordTop - 1)
  <2>1. arg * c.blocklen \in Nat
    BY <1>1, <1>2, SectorsAreBytes
  <2> QED
    BY <2>1, CardAssumption
<1>4. CardReset(c) \in CardType
  BY ResetType
<1>5. cmd \in BlockCommands => BeginTransfer(c, cmd, arg) \in CardType
  BY <1>1, TransferType
<1>6. SelectCard(c, arg) \in CardType
  BY DEF SelectCard, CardType, CardStates
<1>7. CASE cmd \in {"GO_IDLE_STATE", "SELECT_CARD"} \cup BlockCommands
  BY <1>4, <1>5, <1>6, <1>7
     DEF NormalCommand, BlockCommands, ReadCommands, WriteCommands
<1>8. CASE cmd \in {"ALL_SEND_CID", "SEND_RELATIVE_ADDR", "STOP_TRANSMISSION",
                   "GO_INACTIVE_STATE", "SET_BLOCKLEN"}
  BY <1>1, <1>8 DEF NormalCommand, CardType, CardStates, BlockCommands,
     ReadCommands, WriteCommands
<1>9. CASE cmd \in {"ERASE_WR_BLK_START", "ERASE_WR_BLK_END"}
  <2> DEFINE product == (arg * c.blocklen) % WordTop
  <2>1. NormalCommand(c, cmd, arg) = [c EXCEPT !.eraseBegin = product]
        \/ NormalCommand(c, cmd, arg) = [c EXCEPT !.eraseEnd = product]
    BY <1>9 DEF NormalCommand, BlockCommands, ReadCommands, WriteCommands
  <2>2. product \in 0..(WordTop - 1)
    BY <1>3
  <2> HIDE DEF product
  <2> QED
    BY <2>1, <2>2 DEF CardType
<1>10. CASE cmd \in Commands \ (BlockCommands \cup
              {"GO_IDLE_STATE", "SELECT_CARD", "ALL_SEND_CID", "SEND_RELATIVE_ADDR",
               "STOP_TRANSMISSION", "GO_INACTIVE_STATE", "SET_BLOCKLEN",
               "ERASE_WR_BLK_START", "ERASE_WR_BLK_END"})
  BY <1>10 DEF NormalCommand, CardType
<1> QED
  BY <1>7, <1>8, <1>9, <1>10

LEMMA CommandType ==
  ASSUME NEW c \in CardType, NEW cmd \in Commands, NEW arg \in Arguments(cmd)
  PROVE  CardCommand(c, cmd, arg) \in CardType
BY AppCommandType, NormalCommandType DEF CardCommand

\* A command that names no block, no length and no register leaves the transfer
\* alone as long as the card stays in its state.
LEMMA QuietCommand ==
  ASSUME NEW c \in CardType, NEW arg,
         NEW cmd \in Commands \ (BlockCommands \cup {"SD_SEND_SCR", "SET_BLOCKLEN"}),
         c.state \in {"SEND", "RECV", "TRANS"},
         CardCommand(c, cmd, arg).state = c.state
  PROVE  LET d == CardCommand(c, cmd, arg)
         IN  /\ d.multi = c.multi /\ d.scr = c.scr /\ d.blocklen = c.blocklen
             /\ d.bytecount = c.bytecount /\ d.offset = c.offset
<1> DEFINE Same(d) == /\ d.multi = c.multi /\ d.scr = c.scr /\ d.blocklen = c.blocklen
                      /\ d.bytecount = c.bytecount /\ d.offset = c.offset
<1>1. AppCommand(c, cmd) \in CardType /\ Same(AppCommand(c, cmd))
      /\ AppCommand(c, cmd).state = c.state
  <2>1. CASE cmd \in {"SD_SEND_OP_COND", "SD_SEND_OCR"}
    BY <2>1 DEF AppCommand, CardType
  <2>2. CASE cmd \notin {"SD_SEND_OP_COND", "SD_SEND_OCR"}
    BY <2>2 DEF AppCommand, CardType
  <2> QED
    BY <2>1, <2>2
<1>2. ASSUME NEW d \in CardType, Same(d), d.state = c.state,
             NormalCommand(d, cmd, arg).state = c.state
      PROVE  Same(NormalCommand(d, cmd, arg))
  <2>1. CASE cmd \in {"GO_IDLE_STATE", "ALL_SEND_CID"}
    <3>1. NormalCommand(d, cmd, arg).state \in {"IDLE", "IDENT"}
      BY <2>1 DEF NormalCommand, CardReset, CardType, BlockCommands, ReadCommands,
         WriteCommands
    <3> QED
      BY <1>2, <3>1
  <2>2. CASE cmd \in {"SEND_RELATIVE_ADDR", "STOP_TRANSMISSION", "GO_INACTIVE_STATE",
                      "APP_CMD"}
    BY <1>2, <2>2 DEF NormalCommand, CardType, BlockCommands, ReadCommands, WriteCommands
  <2>3. CASE cmd = "SELECT_CARD"
    BY <1>2, <2>3 DEF NormalCommand, SelectCard, CardType, BlockCommands, ReadCommands,
       WriteCommands
  <2>4. CASE cmd \in {"ERASE_WR_BLK_START", "ERASE_WR_BLK_END"}
    <3> DEFINE product == (arg * d.blocklen) % WordTop
    <3>1. NormalCommand(d, cmd, arg) = [d EXCEPT !.eraseBegin = product]
          \/ NormalCommand(d, cmd, arg) = [d EXCEPT !.eraseEnd = product]
      BY <2>4 DEF NormalCommand, BlockCommands, ReadCommands, WriteCommands
    <3> HIDE DEF product
    <3> QED
      BY <1>2, <3>1 DEF CardType
  <2>5. CASE cmd \in {"SEND_STATUS", "SD_SEND_OP_COND", "SD_SEND_OCR", "SD_SET_WIDTH",
                      "ERASE", "OTHER"}
    BY <1>2, <2>5 DEF NormalCommand, BlockCommands, ReadCommands, WriteCommands
  <2> QED
    BY <2>1, <2>2, <2>3, <2>4, <2>5 DEF Commands, PlainCommands
<1>3. CardCommand(c, cmd, arg) \in
        {AppCommand(c, cmd), NormalCommand(c, cmd, arg), NormalCommand(AppCommand(c, cmd), cmd, arg)}
  BY DEF CardCommand
<1> QED
  BY <1>1, <1>2, <1>3

\* A block command with the address of a sector is accepted by a card that is
\* in its transfer state, whether or not the last command announced another one.
LEMMA BlockCommandEffect ==
  ASSUME NEW c \in CardType, NEW cmd \in BlockCommands, NEW arg \in Nat,
         c.state = "TRANS"
  PROVE  LET d == CardCommand(c, cmd, arg)
         IN  /\ d.multi = (cmd \in MultiCommands) /\ d.scr = c.scr /\ d.blocklen = c.blocklen
             /\ arg * Sector < CardSize =>
                  /\ d.state = IF cmd \in ReadCommands THEN "SEND" ELSE "RECV"
                  /\ d.bytecount = 0 /\ d.offset = arg * Sector
             /\ ~ arg * Sector < CardSize => d.state = "TRANS"
<1> DEFINE b == IF c.app THEN [c EXCEPT !.app = FALSE] ELSE c
<1>1. b \in CardType /\ ~b.app /\ b.state = "TRANS" /\ b.scr = c.scr
      /\ b.blocklen = c.blocklen
  BY DEF CardType
<1>2. CardCommand(c, cmd, arg) = NormalCommand(b, cmd, arg)
  BY <1>1 DEF CardCommand, AppCommand, BlockCommands, ReadCommands, WriteCommands
<1>3. NormalCommand(b, cmd, arg) = BeginTransfer(b, cmd, arg)
  BY DEF NormalCommand, BlockCommands, ReadCommands, WriteCommands
<1> HIDE DEF b
<1> DEFINE place == arg * Sector
<1>4. BeginTransfer(b, cmd, arg) =
        IF place < CardSize
        THEN [b EXCEPT !.multi = cmd \in MultiCommands,
                       !.state = IF cmd \in ReadCommands THEN "SEND" ELSE "RECV",
                       !.offset = place, !.bytecount = 0]
        ELSE [b EXCEPT !.multi = cmd \in MultiCommands]
  BY <1>1 DEF BeginTransfer, CardType
<1> HIDE DEF place
<1>5. LET d == BeginTransfer(b, cmd, arg)
      IN  /\ d.multi = (cmd \in MultiCommands) /\ d.scr = b.scr /\ d.blocklen = b.blocklen
          /\ place < CardSize =>
               /\ d.state = IF cmd \in ReadCommands THEN "SEND" ELSE "RECV"
               /\ d.bytecount = 0 /\ d.offset = place
          /\ ~ place < CardSize => d.state = "TRANS"
  BY <1>1, <1>4 DEF CardType
<1> QED
  BY <1>1, <1>2, <1>3, <1>5 DEF place

\* Erasing with the block length of a sector: the range is kept in bytes.
LEMMA EraseRangeEffect ==
  ASSUME NEW c \in CardType, c.state = "TRANS", NEW first, NEW last
  PROVE  LET d == CardCommand(CardCommand(c, "ERASE_WR_BLK_START", first),
                              "ERASE_WR_BLK_END", last)
         IN  /\ d.state = "TRANS" /\ d.blocklen = c.blocklen
             /\ d.eraseBegin = (first * c.blocklen) % WordTop
             /\ d.eraseEnd = (last * c.blocklen) % WordTop
<1> DEFINE b == IF c.app THEN [c EXCEPT !.app = FALSE] ELSE c
           lower == (first * c.blocklen) % WordTop
           upper == (last * c.blocklen) % WordTop
           half == [b EXCEPT !.eraseBegin = lower]
           whole == [half EXCEPT !.eraseEnd = upper]
<1>1. b \in CardType /\ ~b.app /\ b.state = "TRANS" /\ b.blocklen = c.blocklen
  BY DEF CardType
<1>2. CardCommand(c, "ERASE_WR_BLK_START", first) = NormalCommand(b, "ERASE_WR_BLK_START", first)
  BY <1>1 DEF CardCommand, AppCommand
<1>3. NormalCommand(b, "ERASE_WR_BLK_START", first) = half
  BY <1>1 DEF NormalCommand, BlockCommands, ReadCommands, WriteCommands
<1> HIDE DEF b, lower, upper
<1>4. ~half.app /\ half.state = "TRANS" /\ half.blocklen = c.blocklen
      /\ half.eraseBegin = lower
  BY <1>1 DEF CardType
<1>5. CardCommand(half, "ERASE_WR_BLK_END", last) = NormalCommand(half, "ERASE_WR_BLK_END", last)
  <2> HIDE DEF half
  <2> QED
    BY <1>4 DEF CardCommand
<1>6. NormalCommand(half, "ERASE_WR_BLK_END", last) = whole
  <2> HIDE DEF half
  <2>1. NormalCommand(half, "ERASE_WR_BLK_END", last)
          = [half EXCEPT !.eraseEnd = (last * half.blocklen) % WordTop]
    BY DEF NormalCommand, BlockCommands, ReadCommands, WriteCommands
  <2> QED
    BY <1>4, <2>1 DEF upper
<1>7. /\ whole.state = "TRANS" /\ whole.blocklen = c.blocklen
      /\ whole.eraseBegin = lower /\ whole.eraseEnd = upper
  BY <1>1 DEF CardType
<1> QED
  BY <1>2, <1>3, <1>5, <1>6, <1>7 DEF lower, upper

------------------------------------------------------------------------------
(* Sectors and bytes. *)

\* The sector of a byte, and the bytes of a sector.
LEMMA Quotient ==
  ASSUME NEW a \in Nat, NEW s \in Nat \ {0}
  PROVE  /\ a \div s \in Nat
         /\ (a \div s) * s <= a
         /\ a < (a \div s) * s + s
         /\ a % s = 0 => a = (a \div s) * s
OBVIOUS

LEMMA ProductsGrow ==
  ASSUME NEW a \in Nat, NEW b \in Nat, NEW s \in Nat \ {0}
  PROVE  /\ a < b => a * s + s <= b * s
         /\ a * s <= b * s => a <= b
         /\ a <= b => a * s <= b * s
OBVIOUS

LEMMA QuotientIs ==
  ASSUME NEW q \in Nat, NEW s \in Nat \ {0}, NEW a \in (q * s)..(q * s + s - 1)
  PROVE  a \div s = q
OBVIOUS

\* The blocks ERASE takes are the sectors from the first to the last it was given,
\* as far as they lie on the card, when the products fit.
LEMMA BlocksAreSectors ==
  ASSUME NEW c, c.state = "TRANS", c.blocklen = Sector,
         NEW first \in Nat, NEW last \in Nat,
         c.eraseBegin = first * Sector, c.eraseEnd = last * Sector
  PROVE  Erased(c) = {at \in 0..(CardSize - 1) : at \div Sector \in first..last}
<1> DEFINE block(k) == first * Sector + k * Sector
           size == CardSize \div Sector
<1>1. Sector \in Nat \ {0} /\ CardSize \in Nat \ {0} /\ CardSize % Sector = 0
  BY CardAssumption
<1>2. Erased(c) = {at \in 0..(CardSize - 1) :
                     \E k \in 0..size :
                       /\ block(k) <= last * Sector /\ block(k) + Sector <= CardSize
                       /\ at \in block(k)..(block(k) + Sector - 1)}
  BY DEF Erased
<1>6. size \in Nat /\ CardSize = size * Sector
  BY <1>1, Quotient
<1> HIDE DEF size
<1>3. \A k \in Nat : block(k) = (first + k) * Sector
  BY <1>1
<1>4. ASSUME NEW at \in 0..(CardSize - 1), NEW k \in 0..size,
             block(k) <= last * Sector, at \in block(k)..(block(k) + Sector - 1)
      PROVE  at \div Sector \in first..last
  <2>1. first + k \in Nat /\ block(k) = (first + k) * Sector
    BY <1>3
  <2> HIDE DEF block
  <2>2. at \div Sector = first + k
    <3>1. at \in ((first + k) * Sector)..((first + k) * Sector + Sector - 1)
      BY <1>4, <2>1
    <3> QED
      BY <1>1, <2>1, <3>1, QuotientIs
  <2>3. first + k <= last
    <3>1. (first + k) * Sector <= last * Sector
      BY <1>4, <2>1
    <3> QED
      BY <1>1, <2>1, <3>1, ProductsGrow
  <2> QED
    BY <2>1, <2>2, <2>3
<1>5. ASSUME NEW at \in 0..(CardSize - 1), at \div Sector \in first..last
      PROVE  \E k \in 0..size :
               /\ block(k) <= last * Sector /\ block(k) + Sector <= CardSize
               /\ at \in block(k)..(block(k) + Sector - 1)
  <2> DEFINE q == at \div Sector
             k == q - first
  <2>1. q \in Nat /\ q * Sector <= at /\ at < q * Sector + Sector
    BY <1>1, Quotient
  <2>3. first <= q /\ q <= last
    BY <1>5, <2>1
  <2> HIDE DEF q
  <2>4. q * Sector <= last * Sector
    BY <1>1, <2>1, <2>3, ProductsGrow
  <2>5. q < size
    <3>1. ~ size * Sector <= q * Sector
      BY <1>6, <1>1, <2>1, SectorsAreBytes
    <3> QED
      BY <1>6, <1>1, <2>1, <3>1, ProductsGrow
  <2>6. q * Sector + Sector <= CardSize
    <3>1. q * Sector + Sector <= size * Sector
      BY <1>6, <1>1, <2>1, <2>5, ProductsGrow
    <3> QED
      BY <1>6, <3>1
  <2>7. k \in Nat /\ first + k = q
    BY <2>1, <2>3
  <2>8. block(k) = q * Sector
    BY <1>3, <2>7
  <2>10. k \in 0..size
    BY <1>6, <2>1, <2>5, <2>7, <2>3
  <2>11. at \in block(k)..(block(k) + Sector - 1)
    <3>1. q * Sector \in Nat
      BY <1>1, <2>1, SectorsAreBytes
    <3> QED
      BY <1>1, <2>1, <2>8, <3>1
  <2> HIDE DEF k, block
  <2> QED
    BY <2>4, <2>6, <2>8, <2>10, <2>11
<1> HIDE DEF block
<1> QED
  BY <1>2, <1>4, <1>5

\* Remainders, and products of sums.
LEMMA RemainderIs ==
  ASSUME NEW n \in Nat \ {0}, NEW q \in Nat, NEW x \in 0..(n - 1)
  PROVE  (q * n + x) % n = x
OBVIOUS

LEMMA Regroup ==
  ASSUME NEW q \in Nat, NEW n \in Nat, NEW x \in Nat, NEW s \in Nat
  PROVE  (q * n + x) * s = q * (n * s) + x * s
OBVIOUS

\* A word holds a whole number of sectors.
LEMMA ReachIsWhole == Reach \in Nat \ {0} /\ Reach * Sector = WordTop
<1>1. Sector \in Nat \ {0} /\ WordTop \in Nat \ {0} /\ WordTop % Sector = 0
  BY CardAssumption
<1>2. Reach \in Nat /\ WordTop = Reach * Sector
  BY <1>1, Quotient DEF Reach
<1>3. Reach # 0
  BY <1>1, <1>2
<1> QED
  BY <1>2, <1>3

\* A product of the erase commands is cut to a word: what is left is the place of
\* the sector with the remainder for its number.
LEMMA ProductIsCut ==
  ASSUME NEW a \in Nat
  PROVE  a % Reach \in Nat /\ (a * Sector) % WordTop = (a % Reach) * Sector
<1>1. Sector \in Nat \ {0} /\ WordTop \in Nat \ {0}
      /\ Reach \in Nat \ {0} /\ Reach * Sector = WordTop
  BY CardAssumption, ReachIsWhole
<1> DEFINE q == a \div Reach
           x == a - q * Reach
           rest == x * Sector
<1>2. q \in Nat /\ x \in Nat /\ x < Reach /\ a = q * Reach + x
  <2>1. q \in Nat /\ q * Reach <= a /\ a < q * Reach + Reach
    BY <1>1, Quotient
  <2> DEFINE below == q * Reach
  <2>2. below \in Nat
    BY <1>1, <2>1, SectorsAreBytes
  <2> HIDE DEF q, below
  <2>3. x = a - below
    BY DEF below
  <2> HIDE DEF x
  <2>4. x \in Nat /\ x < Reach /\ a = below + x
    <3>1. below <= a /\ a < below + Reach
      BY <2>1 DEF below
    <3> QED
      BY <1>1, <2>2, <2>3, <3>1
  <2> QED
    BY <2>1, <2>4 DEF below
<1> HIDE DEF q, x
<1>6. a % Reach = x
  <2>1. x \in 0..(Reach - 1)
    BY <1>1, <1>2
  <2> QED
    BY <1>1, <1>2, <2>1, RemainderIs
<1>3. a * Sector = q * WordTop + rest
  BY <1>1, <1>2, Regroup
<1>4. rest \in 0..(WordTop - 1)
  <2>1. rest + Sector <= WordTop
    BY <1>1, <1>2, ProductsGrow
  <2>2. rest \in Nat
    BY <1>1, <1>2, SectorsAreBytes
  <2> HIDE DEF rest
  <2> QED
    BY <1>1, <2>1, <2>2
<1> HIDE DEF rest
<1>5. (q * WordTop + rest) % WordTop = rest
  BY <1>1, <1>2, <1>4, RemainderIs
<1> QED
  BY <1>2, <1>3, <1>5, <1>6 DEF rest

------------------------------------------------------------------------------
(* The interface and the data operations. *)

\* The fields of a card whose place may be anywhere, as between two words of a
\* DMA transfer.
AnyCard ==
  [state : CardStates, app : BOOLEAN, multi : BOOLEAN, scr : BOOLEAN,
   blocklen : Lengths, bytecount : 0..(WordTop - 1), offset : Int, hasRca : BOOLEAN,
   eraseBegin : 0..(WordTop - 1), eraseEnd : 0..(WordTop - 1)]

\* A card is one with numbers for fields, at an offset the file model knows.
LEMMA CardIsAnyCard ==
  ASSUME NEW c
  PROVE  c \in CardType <=> c \in AnyCard /\ c.offset \in OffsetFloor..FileTop
<1>1. OffsetFloor..FileTop \subseteq Int
  BY HostAssumption DEF OffsetFloor
<1> QED
  BY <1>1 DEF CardType, AnyCard, Lengths

\* Block lengths are positive.
LEMMA LengthsAreNatural == \A n \in Lengths : n \in Nat \ {0}
BY CardAssumption DEF Lengths

\* Counting the bytes of one access.
LEMMA CountBytesEffect ==
  ASSUME NEW h \in HostType, NEW n \in Nat
  PROVE  LET g == CountBytes(h, n)
         IN  /\ g \in HostType
             /\ g.multi = h.multi /\ g.expected = h.expected
             /\ g.xfrd >= h.xfrd
             /\ h.xfrd + n <= CountTop => g.xfrd = h.xfrd + n
             /\ h.xfrd + n >= CountTop => g.xfrd = CountTop
             /\ g.datcom = (h.datcom \/ g.xfrd >= h.expected)
             /\ g.datfull = IF g.xfrd < h.expected THEN TRUE ELSE h.datfull /\ h.multi
<1> DEFINE x == IF h.xfrd + n > CountTop THEN CountTop ELSE h.xfrd + n
<1>1. CountTop \in Nat /\ h.xfrd \in 0..CountTop /\ h.expected \in Nat
  <2>1. CountTop \in Nat
    BY CountTopIsAbove
  <2>2. h.xfrd \in 0..CountTop /\ h.expected \in BlockLens \cup {0}
    BY DEF HostType
  <2> QED
    BY <2>1, <2>2, BlocksAreWords
<1>2. /\ x \in 0..CountTop /\ x >= h.xfrd
      /\ h.xfrd + n <= CountTop => x = h.xfrd + n
      /\ h.xfrd + n >= CountTop => x = CountTop
  BY <1>1
<1>3. CountBytes(h, n) = IF x < h.expected
                         THEN [h EXCEPT !.xfrd = x, !.datfull = TRUE]
                         ELSE [h EXCEPT !.xfrd = x, !.datcom = TRUE, !.datfull = @ /\ h.multi]
  BY DEF CountBytes
<1> HIDE DEF x
<1>4. CASE x < h.expected
  <2> DEFINE g == [h EXCEPT !.xfrd = x, !.datfull = TRUE]
  <2>1. g \in HostType /\ g.multi = h.multi /\ g.expected = h.expected /\ g.xfrd = x
        /\ g.datcom = h.datcom /\ g.datfull = TRUE
    BY <1>2 DEF HostType
  <2>2. CountBytes(h, n) = g /\ ~ x >= h.expected
    BY <1>1, <1>2, <1>3, <1>4
  <2>3. h.datcom \in BOOLEAN
    BY DEF HostType
  <2> HIDE DEF g
  <2> QED
    BY <1>2, <1>4, <2>1, <2>2, <2>3
<1>5. CASE ~ x < h.expected
  <2> DEFINE g == [h EXCEPT !.xfrd = x, !.datcom = TRUE, !.datfull = @ /\ h.multi]
  <2>1. g \in HostType /\ g.multi = h.multi /\ g.expected = h.expected /\ g.xfrd = x
        /\ g.datcom = TRUE /\ g.datfull = (h.datfull /\ h.multi)
    BY <1>2 DEF HostType
  <2>2. CountBytes(h, n) = g /\ x >= h.expected
    BY <1>1, <1>2, <1>3, <1>5
  <2> HIDE DEF g
  <2> QED
    BY <1>2, <1>5, <2>1, <2>2
<1> QED
  BY <1>4, <1>5

\* A read of the card keeps its fields in range.
LEMMA CardReadType ==
  ASSUME NEW c \in AnyCard, NEW n \in Nat
  PROVE  CardRead(c, n) \in AnyCard
<1> DEFINE left == IF c.bytecount >= ScrBytes THEN 1 ELSE ScrBytes - c.bytecount
           some == (c.bytecount + left) % WordTop
           more == (c.bytecount + n) % WordTop
<1>1. WordTop \in Nat \ {0} /\ c.bytecount \in Nat
  BY CardAssumption DEF AnyCard
<1>2. left \in Nat
  BY <1>1 DEF ScrBytes
<1>3. some \in 0..(WordTop - 1) /\ more \in 0..(WordTop - 1) /\ c.offset + n \in Int
  <2> HIDE DEF left
  <2> QED
    BY <1>1, <1>2 DEF AnyCard
<1>4. CardRead(c, n) \in {[c EXCEPT !.bytecount = some, !.scr = FALSE],
                          [c EXCEPT !.bytecount = more],
                          EndOfBlock([c EXCEPT !.offset = @ + n, !.bytecount = more]), c}
  BY DEF CardRead
<1> HIDE DEF some, more
<1>5. [c EXCEPT !.offset = @ + n, !.bytecount = more] \in AnyCard
  BY <1>3 DEF AnyCard
<1>6. \A d \in AnyCard : EndOfBlock(d) \in AnyCard
  BY DEF EndOfBlock, AnyCard, CardStates
<1>7. [c EXCEPT !.bytecount = some, !.scr = FALSE] \in AnyCard
      /\ [c EXCEPT !.bytecount = more] \in AnyCard
  BY <1>3 DEF AnyCard
<1> QED
  BY <1>4, <1>5, <1>6, <1>7

\* So does a write, whatever becomes of it.
LEMMA CardWriteType ==
  ASSUME NEW c \in AnyCard, NEW n \in Nat, NEW broken \in BOOLEAN
  PROVE  CardWrite(c, n, broken) \in AnyCard
<1> DEFINE less == (c.bytecount + WordTop - 1) % WordTop
           more == (c.bytecount + n) % WordTop
<1>1. WordTop \in Nat \ {0} /\ c.bytecount \in Nat
  BY CardAssumption DEF AnyCard
<1>2. less \in 0..(WordTop - 1) /\ more \in 0..(WordTop - 1)
      /\ c.offset + n \in Int /\ c.offset - 1 \in Int
  BY <1>1 DEF AnyCard
<1>3. CardWrite(c, n, broken) \in
        {EndOfBlock([c EXCEPT !.offset = @ - 1, !.bytecount = less]),
         EndOfBlock([c EXCEPT !.offset = @ + n, !.bytecount = more]), c}
  BY DEF CardWrite, CardWriteFails
<1> HIDE DEF less, more
<1>4. [c EXCEPT !.offset = @ - 1, !.bytecount = less] \in AnyCard
      /\ [c EXCEPT !.offset = @ + n, !.bytecount = more] \in AnyCard
  BY <1>2 DEF AnyCard
<1>5. \A d \in AnyCard : EndOfBlock(d) \in AnyCard
  BY DEF EndOfBlock, AnyCard, CardStates
<1> QED
  BY <1>3, <1>4, <1>5

------------------------------------------------------------------------------
(* The book: what a transfer begun by the book looks like until it is over.   *)

\* The block is on its way: card and interface have counted its bytes alike.
Moving(c, h, from) ==
  /\ c.bytecount = h.xfrd /\ c.bytecount < c.blocklen
  /\ c.bytecount % 4 = 0
  /\ from + c.bytecount = c.offset
  /\ ~h.datcom

\* A single block without a failure.
Single(c, h, from, kind) ==
  /\ ~c.multi /\ ~h.multi
  /\ h.expected = c.blocklen /\ c.blocklen \in BlockLens
  /\ \/ /\ c.state = IF kind = "read" THEN "SEND" ELSE "RECV"
        /\ Moving(c, h, from)
        /\ kind = "read" => h.datfull
     \/ /\ c.state = "TRANS"
        /\ h.datcom /\ h.xfrd >= c.blocklen
        /\ kind = "read" => ~h.datfull
        /\ kind = "write" => c.offset \in from..(from + c.blocklen)

\* A single block one word of which was not written.
Hurt(c, from) ==
  /\ ~c.multi /\ c.blocklen \in BlockLens
  /\ \/ /\ c.state = "RECV"
        /\ from + c.bytecount = c.offset /\ c.bytecount < c.blocklen
     \/ /\ c.state = "TRANS"
        /\ c.offset \in (from - 1)..(from + c.blocklen + 3)

Book(c, h, kind, from, broke) ==
  /\ kind # "none" => ~c.scr
  /\ kind = "reads" => c.multi /\ c.state = "SEND"
  /\ kind = "writes" => c.multi /\ c.state = "RECV"
  /\ kind \in {"read", "write"} /\ ~broke => Single(c, h, from, kind)
  /\ broke => kind \in {"write", "writes"}
  /\ kind = "write" /\ broke => Hurt(c, from)

\* The inductive invariant.
BookInv == TypeOK /\ Book(card, host, xfer, begun, hurt)

\* Away from the book nothing is promised.
LEMMA NoBook == \A c, h : Book(c, h, "none", 0, FALSE)
BY DEF Book

\* While the book is kept the card is in one of three states.
LEMMA BookStates ==
  ASSUME NEW c, NEW h, NEW kind \in Transfers \ {"none"}, NEW from, NEW broke \in BOOLEAN,
         Book(c, h, kind, from, broke)
  PROVE  c.state \in {"SEND", "RECV", "TRANS"} /\ (c.state = "SEND" => kind \in {"read", "reads"})
BY DEF Book, Single, Hurt, Transfers

\* One word or one DMA transfer that the driver reads.
LEMMA ReadKeepsBook ==
  ASSUME NEW c \in CardType, NEW h \in HostType, NEW kind \in Transfers \ {"none"},
         NEW from \in Nat, NEW broke \in BOOLEAN, NEW n \in {4} \cup DmaSizes,
         Book(c, h, kind, from, broke), c.state # "RECV"
  PROVE  Book(CardRead(c, n), CountBytes(h, n), kind, from, broke)
<1> DEFINE d == CardRead(c, n)
           g == CountBytes(h, n)
<1>1. n \in Nat /\ n > 0 /\ n % 4 = 0
  BY HostAssumption
<1>2. /\ g.multi = h.multi /\ g.expected = h.expected
      /\ g.xfrd >= h.xfrd
      /\ h.xfrd + n <= CountTop => g.xfrd = h.xfrd + n
      /\ h.xfrd + n >= CountTop => g.xfrd = CountTop
      /\ g.datcom = (h.datcom \/ g.xfrd >= h.expected)
      /\ g.datfull = IF g.xfrd < h.expected THEN TRUE ELSE h.datfull /\ h.multi
      /\ g \in HostType
  BY <1>1, CountBytesEffect
<1>3. ~c.scr
  BY DEF Book
<1>4. CASE c.state = "SEND"
  <2>1. kind \in {"read", "reads"} /\ ~broke
    BY <1>4, BookStates DEF Book
  <2> DEFINE more == (c.bytecount + n) % WordTop
             e == [c EXCEPT !.offset = @ + n, !.bytecount = more]
  <2>2. d = EndOfBlock(e)
    BY <1>3, <1>4 DEF CardRead
  <2>3. /\ e.multi = c.multi /\ e.state = "SEND" /\ ~e.scr /\ e.blocklen = c.blocklen
        /\ e.bytecount = more /\ e.offset = c.offset + n
    BY <1>3, <1>4 DEF CardType
  <2>4. CASE kind = "reads"
    <3>1. d = e
      BY <2>2, <2>3, <2>4 DEF EndOfBlock, Book
    <3> QED
      BY <2>1, <2>3, <2>4, <3>1 DEF Book
  <2>5. CASE kind = "read"
    <3>1. /\ ~c.multi /\ ~h.multi
          /\ h.expected = c.blocklen /\ c.blocklen \in BlockLens
          /\ Moving(c, h, from) /\ h.datfull
      BY <1>4, <2>1, <2>5 DEF Book, Single
    <3>2. /\ c.blocklen \in Nat /\ c.bytecount \in Nat
          /\ c.bytecount < c.blocklen /\ c.blocklen + n <= WordTop
          /\ c.blocklen + 4 <= CountTop /\ CountTop \in Nat /\ WordTop \in Nat
      <4>1. c.blocklen \in Nat /\ c.blocklen + n <= WordTop /\ WordTop \in Nat
        BY <3>1, BlocksAreWords
      <4>2. c.blocklen + 4 <= CountTop /\ CountTop \in Nat
        BY <3>1, CountTopIsAbove DEF Lengths
      <4>3. c.bytecount \in Nat
        BY CardAssumption DEF CardType
      <4> QED
        BY <3>1, <4>1, <4>2, <4>3 DEF Moving
    <3>3. more = c.bytecount + n
      BY <1>1, <3>2
    <3> HIDE DEF more, e
    <3>4. CASE more < c.blocklen
      <4>1. d = e
        <5>1. ~ more >= c.blocklen
          BY <1>1, <3>2, <3>3, <3>4
        <5> QED
          BY <2>2, <2>3, <5>1 DEF EndOfBlock
      <4>2. g.xfrd = more /\ ~g.datcom /\ g.datfull
        BY <1>1, <1>2, <3>1, <3>2, <3>3, <3>4 DEF Moving, HostType
      <4>3. Moving(d, g, from)
        <5>1. more % 4 = 0
          <6>1. c.bytecount % 4 = 0
            BY <3>1 DEF Moving
          <6>2. (c.bytecount + n) % 4 = 0
            BY <1>1, <3>2, <6>1
          <6> QED
            BY <3>3, <6>2
        <5>2. from + more = c.offset + n
          BY <1>1, <3>1, <3>2, <3>3 DEF Moving
        <5> QED
          BY <2>3, <3>4, <4>1, <4>2, <5>1, <5>2 DEF Moving
      <4> QED
        BY <1>2, <2>1, <2>3, <2>5, <3>1, <4>1, <4>2, <4>3 DEF Book, Single
    <3>5. CASE more >= c.blocklen
      <4>1. d = [e EXCEPT !.state = "TRANS"]
        BY <2>2, <2>3, <3>1, <3>5 DEF EndOfBlock
      <4>2. /\ d.multi = c.multi /\ d.state = "TRANS" /\ ~d.scr /\ d.blocklen = c.blocklen
        BY <1>3, <4>1 DEF e, CardType
      <4>3. g.xfrd >= c.blocklen
        BY <1>1, <1>2, <3>1, <3>2, <3>3, <3>5 DEF Moving
      <4>4. g.datcom /\ ~g.datfull
        BY <1>2, <3>1, <3>2, <4>3 DEF HostType
      <4> QED
        BY <1>2, <2>1, <2>5, <3>1, <4>2, <4>3, <4>4 DEF Book, Single
    <3> QED
      BY <1>1, <3>2, <3>3, <3>4, <3>5
  <2> QED
    BY <2>1, <2>4, <2>5
<1>5. CASE c.state # "SEND"
  <2>1. c.state = "TRANS"
    BY <1>5, BookStates
  <2>2. d = c
    BY <1>3, <1>5 DEF CardRead
  <2>3. kind \in {"read", "write"}
    BY <2>1 DEF Book, Transfers
  <2>4. CASE broke
    BY <2>2, <2>3, <2>4 DEF Book
  <2>5. CASE ~broke
    <3>1. Single(c, h, from, kind)
      BY <2>3, <2>5 DEF Book
    <3>2. c.blocklen \in Nat /\ g.xfrd \in Nat /\ h.xfrd \in Nat
      <4>1. CountTop \in Nat
        BY CountTopIsAbove
      <4>2. g.xfrd \in 0..CountTop /\ h.xfrd \in 0..CountTop
        BY <1>2 DEF HostType
      <4>3. c.blocklen \in Nat
        BY <3>1, BlocksAreWords DEF Single
      <4> QED
        BY <4>1, <4>2, <4>3
    <3>3. /\ h.datcom /\ h.xfrd >= c.blocklen /\ (kind = "read" => ~h.datfull)
          /\ h.expected = c.blocklen /\ ~h.multi
      BY <2>1, <3>1 DEF Single
    <3>4. g.datcom /\ g.xfrd >= c.blocklen /\ ~g.datfull
      <4>1. g.xfrd >= c.blocklen /\ ~ g.xfrd < h.expected
        BY <1>2, <3>2, <3>3
      <4> QED
        BY <1>2, <3>3, <4>1
    <3>5. Single(d, g, from, kind)
      BY <1>2, <2>1, <2>2, <3>1, <3>4 DEF Single
    <3> QED
      BY <2>2, <2>3, <2>5, <3>5, <1>3 DEF Book
  <2> QED
    BY <2>4, <2>5
<1> QED
  BY <1>4, <1>5

\* One word that the driver writes, whatever becomes of it.
LEMMA WordKeepsBook ==
  ASSUME NEW c \in AnyCard, NEW h \in HostType, NEW kind \in Transfers \ {"none"},
         NEW from \in Nat, NEW broke \in BOOLEAN, NEW broken \in BOOLEAN,
         Book(c, h, kind, from, broke), c.state # "SEND",
         broken => kind \in {"write", "writes"}
  PROVE  /\ Book(CardWrite(c, 4, broken), CountBytes(h, 4), kind, from, broke \/ broken)
         /\ CardWrite(c, 4, broken).state # "SEND"
<1> DEFINE d == CardWrite(c, 4, broken)
           g == CountBytes(h, 4)
           less == (c.bytecount + WordTop - 1) % WordTop
           more == (c.bytecount + 4) % WordTop
           fails == [c EXCEPT !.offset = @ - 1, !.bytecount = less]
           goes == [c EXCEPT !.offset = @ + 4, !.bytecount = more]
<1>1. /\ g.multi = h.multi /\ g.expected = h.expected
      /\ g.xfrd >= h.xfrd
      /\ h.xfrd + 4 <= CountTop => g.xfrd = h.xfrd + 4
      /\ g.datcom = (h.datcom \/ g.xfrd >= h.expected)
      /\ g.datfull = IF g.xfrd < h.expected THEN TRUE ELSE h.datfull /\ h.multi
      /\ g \in HostType
  BY CountBytesEffect
<1>2. ~c.scr
  BY DEF Book
<1>3. d = IF c.state # "RECV" THEN c
          ELSE IF broken \/ c.offset < 0 THEN EndOfBlock(fails)
          ELSE EndOfBlock(goes)
  BY DEF CardWrite, CardWriteFails
<1>4. /\ fails.multi = c.multi /\ fails.state = c.state /\ ~fails.scr
      /\ fails.blocklen = c.blocklen /\ fails.bytecount = less
      /\ fails.offset = c.offset - 1
      /\ goes.multi = c.multi /\ goes.state = c.state /\ ~goes.scr
      /\ goes.blocklen = c.blocklen /\ goes.bytecount = more
      /\ goes.offset = c.offset + 4
      /\ fails \in AnyCard /\ goes \in AnyCard
  <2>1. less \in 0..(WordTop - 1) /\ more \in 0..(WordTop - 1)
        /\ c.offset - 1 \in Int /\ c.offset + 4 \in Int
    BY BlocksAreWords DEF AnyCard
  <2> HIDE DEF less, more
  <2> QED
    BY <1>2, <2>1 DEF AnyCard
<1> HIDE DEF fails, goes, less, more
<1>5. \A e \in AnyCard : ~e.scr =>
        LET b == EndOfBlock(e)
        IN  /\ b.multi = e.multi /\ ~b.scr /\ b.blocklen = e.blocklen
            /\ b.bytecount = e.bytecount /\ b.offset = e.offset
            /\ b.state = IF ~e.multi /\ e.bytecount >= e.blocklen THEN "TRANS" ELSE e.state
  BY DEF EndOfBlock, AnyCard
<1>6. d.state # "SEND" /\ ~d.scr /\ d.multi = c.multi /\ d.blocklen = c.blocklen
      /\ (c.state = "TRANS" => d = c)
  BY <1>2, <1>3, <1>4, <1>5
<1>7. CASE kind \in {"reads", "writes"}
  <2>1. c.state = "RECV" /\ c.multi /\ kind = "writes"
    BY <1>7 DEF Book
  <2>2. d.state = "RECV"
    BY <1>3, <1>4, <1>5, <2>1
  <2> QED
    BY <1>6, <2>1, <2>2 DEF Book
<1>8. CASE kind \in {"read", "write"} /\ ~broke /\ ~broken
  <2>1. Single(c, h, from, kind)
    BY <1>8 DEF Book
  <2>2. /\ c.blocklen \in Nat /\ c.blocklen % 4 = 0 /\ c.blocklen + 4 <= WordTop
        /\ WordTop \in Nat /\ CountTop \in Nat /\ c.blocklen + 4 <= CountTop
        /\ c.bytecount \in Nat /\ c.offset \in Int
        /\ h.xfrd \in Nat /\ g.xfrd \in Nat
    <3>1. CountTop \in Nat /\ c.blocklen + 4 <= CountTop
      BY <2>1, CountTopIsAbove DEF Single, Lengths
    <3>2. h.xfrd \in Nat /\ g.xfrd \in Nat
      BY <1>1, <3>1 DEF HostType
    <3>3. c.blocklen \in Nat /\ c.blocklen % 4 = 0 /\ c.blocklen + 4 <= WordTop
          /\ WordTop \in Nat
      BY <2>1, BlocksAreWords DEF Single
    <3>4. c.bytecount \in Nat /\ c.offset \in Int
      BY <3>3 DEF AnyCard
    <3> QED
      BY <3>1, <3>2, <3>3, <3>4
  <2>3. CASE c.state = "TRANS"
    <3>1. /\ h.datcom /\ h.xfrd >= c.blocklen /\ (kind = "read" => ~h.datfull)
          /\ h.expected = c.blocklen /\ ~h.multi
      BY <2>1, <2>3 DEF Single
    <3>2. g.datcom /\ g.xfrd >= c.blocklen /\ ~g.datfull
      <4>1. g.xfrd >= c.blocklen /\ ~ g.xfrd < h.expected
        BY <1>1, <2>2, <3>1
      <4> QED
        BY <1>1, <3>1, <4>1
    <3>3. Single(d, g, from, kind)
      BY <1>1, <1>6, <2>1, <2>3, <3>1, <3>2 DEF Single
    <3> QED
      BY <1>6, <1>8, <3>3 DEF Book
  <2>4. CASE c.state = "RECV"
    <3>1. /\ kind = "write" /\ Moving(c, h, from)
          /\ ~c.multi /\ ~h.multi /\ h.expected = c.blocklen /\ c.blocklen \in BlockLens
      BY <1>8, <2>1, <2>4 DEF Single
    <3>2. /\ c.bytecount = h.xfrd /\ c.bytecount < c.blocklen /\ c.bytecount % 4 = 0
          /\ from + c.bytecount = c.offset
      BY <3>1 DEF Moving
    <3>3. more = c.bytecount + 4 /\ more <= c.blocklen /\ more % 4 = 0
      <4>1. more = c.bytecount + 4
        <5>1. c.bytecount + 4 \in 0..(WordTop - 1)
          BY <2>2, <3>2
        <5> QED
          BY <2>2, <5>1, SmallIsItsRemainder DEF more
      <4>2. c.bytecount + 4 <= c.blocklen
        BY <2>2, <3>2
      <4>3. (c.bytecount + 4) % 4 = 0
        BY <2>2, <3>2
      <4> QED
        BY <4>1, <4>2, <4>3
    <3>4. d = EndOfBlock(goes) /\ d.offset = from + more /\ d.bytecount = more
      <4>1. c.offset >= 0
        BY <2>2, <3>2
      <4>2. d = EndOfBlock(goes)
        BY <1>3, <1>8, <2>2, <2>4, <4>1
      <4>3. d.offset = c.offset + 4 /\ d.bytecount = more
        BY <1>4, <1>5, <4>2
      <4> QED
        BY <2>2, <3>2, <3>3, <4>2, <4>3
    <3>5. g.xfrd = more
      BY <1>1, <2>2, <3>2, <3>3
    <3>6. CASE more < c.blocklen
      <4>1. d.state = "RECV"
        BY <1>4, <1>5, <2>2, <2>4, <3>3, <3>4, <3>6
      <4>2. ~g.datcom
        <5>1. ~ g.xfrd >= h.expected
          BY <2>2, <3>1, <3>3, <3>5, <3>6
        <5> QED
          BY <1>1, <3>1, <5>1 DEF Moving
      <4>3. Moving(d, g, from)
        BY <1>6, <3>3, <3>4, <3>5, <3>6, <4>2 DEF Moving
      <4>4. Single(d, g, from, kind)
        BY <1>1, <1>6, <3>1, <4>1, <4>3 DEF Single
      <4> QED
        BY <1>6, <1>8, <4>4 DEF Book
    <3>7. CASE more = c.blocklen
      <4>1. d.state = "TRANS"
        <5>1. goes.bytecount >= goes.blocklen
          BY <1>4, <2>2, <3>7
        <5> QED
          BY <1>4, <1>5, <3>1, <3>4, <5>1
      <4>2. g.datcom /\ g.xfrd >= c.blocklen
        <5>1. g.xfrd >= h.expected /\ g.xfrd >= c.blocklen
          BY <2>2, <3>1, <3>5, <3>7
        <5> QED
          BY <1>1, <5>1
      <4>3. d.offset \in from..(from + c.blocklen)
        BY <2>2, <3>4, <3>7
      <4>4. Single(d, g, from, kind)
        BY <1>1, <1>6, <3>1, <4>1, <4>2, <4>3 DEF Single
      <4> QED
        BY <1>6, <1>8, <4>4 DEF Book
    <3> QED
      BY <2>2, <3>3, <3>6, <3>7
  <2> QED
    BY <2>3, <2>4, BookStates
<1>9. CASE kind \in {"read", "write"} /\ (broke \/ broken)
  <2>1. kind = "write"
    BY <1>9 DEF Book
  <2>2. Hurt(c, from)
    <3>1. CASE broke
      BY <2>1, <3>1 DEF Book
    <3>2. CASE ~broke
      <4>1. Single(c, h, from, kind)
        BY <2>1, <3>2 DEF Book
      <4>2. c.blocklen \in Nat
        BY <4>1, BlocksAreWords DEF Single
      <4>3. from..(from + c.blocklen) \subseteq (from - 1)..(from + c.blocklen + 3)
        BY <4>2
      <4> QED
        BY <2>1, <4>1, <4>3 DEF Single, Hurt, Moving
    <3> QED
      BY <3>1, <3>2
  <2>3. /\ c.blocklen \in Nat /\ c.blocklen + 4 <= WordTop
        /\ WordTop \in Nat /\ c.bytecount \in Nat /\ c.offset \in Int
        /\ ~c.multi /\ c.blocklen \in BlockLens
    <3>1. c.blocklen \in Nat /\ c.blocklen + 4 <= WordTop /\ WordTop \in Nat
      BY <2>2, BlocksAreWords DEF Hurt
    <3> QED
      BY <2>2, <3>1 DEF Hurt, AnyCard
  <2>4. Hurt(d, from)
    <3>1. CASE c.state = "TRANS"
      BY <1>6, <2>2, <3>1
    <3>2. CASE c.state = "RECV"
      <4>1. from + c.bytecount = c.offset /\ c.bytecount < c.blocklen
        BY <2>2, <3>2 DEF Hurt
      <4>2. c.offset >= 0
        BY <2>3, <4>1
      <4>3. CASE broken
        <5>1. d = EndOfBlock(fails)
          BY <1>3, <3>2, <4>3
        <5>2. d.offset = c.offset - 1 /\ d.bytecount = less
              /\ d.state = IF less >= c.blocklen THEN "TRANS" ELSE "RECV"
          BY <1>4, <1>5, <2>3, <3>2, <5>1
        <5>3. CASE c.bytecount = 0
          <6>1. less = WordTop - 1 /\ less >= c.blocklen
            BY <2>3, <5>3 DEF less
          <6>2. d.offset = from - 1 /\ d.state = "TRANS"
            BY <2>3, <4>1, <5>2, <5>3, <6>1
          <6> QED
            BY <1>6, <2>3, <6>2 DEF Hurt
        <5>4. CASE c.bytecount > 0
          <6>1. less = c.bytecount - 1
            BY <2>3, <4>1, <5>4 DEF less
          <6>2. d.state = "RECV" /\ from + d.bytecount = d.offset /\ d.bytecount < c.blocklen
            <7>1. ~ less >= c.blocklen
              BY <2>3, <4>1, <6>1
            <7>2. from + less = c.offset - 1 /\ less < c.blocklen
              BY <2>3, <4>1, <6>1
            <7> QED
              BY <5>2, <7>1, <7>2
          <6> QED
            BY <1>6, <2>3, <6>2 DEF Hurt
        <5> QED
          BY <2>3, <5>3, <5>4
      <4>4. CASE ~broken
        <5>1. d = EndOfBlock(goes)
          BY <1>3, <2>3, <3>2, <4>2, <4>4
        <5>2. d.offset = c.offset + 4 /\ d.bytecount = more
              /\ d.state = IF more >= c.blocklen THEN "TRANS" ELSE "RECV"
          BY <1>4, <1>5, <2>3, <3>2, <5>1
        <5>3. more = c.bytecount + 4
          BY <2>3, <4>1 DEF more
        <5>4. from + d.bytecount = d.offset
              /\ (more < c.blocklen \/ d.offset \in (from - 1)..(from + c.blocklen + 3))
          BY <2>3, <4>1, <5>2, <5>3
        <5>5. more >= c.blocklen \/ more < c.blocklen
          BY <2>3, <5>3
        <5>6. ~(more >= c.blocklen /\ more < c.blocklen)
          BY <2>3, <5>3
        <5> QED
          BY <1>6, <2>3, <5>2, <5>4, <5>5, <5>6 DEF Hurt
      <4> QED
        BY <4>3, <4>4
    <3> QED
      BY <2>2, <3>1, <3>2 DEF Hurt
  <2>5. (broke \/ broken) = TRUE
    BY <1>9
  <2>6. Book(d, g, kind, from, TRUE)
    BY <1>6, <2>1, <2>4 DEF Book
  <2> QED
    BY <1>6, <2>5, <2>6
<1> QED
  <2>1. kind \in {"reads", "writes", "read", "write"}
    BY DEF Transfers
  <2> QED
    BY <1>6, <1>7, <1>8, <1>9, <2>1

------------------------------------------------------------------------------
(* Writes. *)

\* A write, of a word or by DMA, keeps the types, and the book unless the card is
\* sending: every word keeps them, and the one that fails at `bad` leaves a block
\* that is hurt.
LEMMA WordsKeepBook ==
  ASSUME TypeOK, NEW n \in {4} \cup DmaSizes, NEW bad \in 0..(n \div 4),
         WriteData(n, bad)
  PROVE  /\ card' \in CardType
         /\ host' \in HostType
         /\ /\ xfer # "none" /\ card.state # "SEND"
            /\ Book(card, host, xfer, begun, hurt)
            => Book(card', host', xfer, begun, hurt \/ bad # 0)
<1> DEFINE N == n \div 4
           S == [card : AnyCard, host : HostType]
           first == [card |-> card, host |-> host]
           After(k, s) == [card |-> CardWrite(s.card, 4, k = bad),
                           host |-> CountBytes(s.host, 4)]
           turn == [p \in (1..N) \X S |-> After(p[1], p[2])]
           wr[k \in 0..(n \div 4)] ==
             IF k = 0 THEN [card |-> card, host |-> host]
             ELSE [card |-> CardWrite(wr[k - 1].card, 4, k = bad),
                   host |-> CountBytes(wr[k - 1].host, 4)]
           final == wr[N]
<1>1. N \in Nat /\ bad \in 0..N /\ N \in 0..N
  <2>1. n \in Nat
    BY BlocksAreWords
  <2>2. N \in Nat
    BY <2>1
  <2> HIDE DEF N
  <2> QED
    BY <2>2 DEF N
<1>2. first \in S
  BY CardIsAnyCard DEF TypeOK
<1>3. ASSUME NEW k \in 1..N, NEW s \in S
      PROVE  After(k, s) \in S
  <2>1. CardWrite(s.card, 4, k = bad) \in AnyCard
    BY CardWriteType
  <2>2. CountBytes(s.host, 4) \in HostType
    BY CountBytesEffect
  <2> QED
    BY <2>1, <2>2
<1>4. /\ card' = final.card /\ host' = final.host
      /\ final.card.offset \in OffsetFloor..FileTop
      /\ bad # 0 => xfer # "none" /\ ~hurt /\ card.state = "RECV"
  <2> HIDE DEF wr
  <2> QED
    BY DEF WriteData, wr
<1>5. wr = [k \in 0..N |-> IF k = 0 THEN first ELSE After(k, wr[k - 1])]
  <2>1. \E f : f = [k \in 0..N |-> IF k = 0 THEN first ELSE After(k, f[k - 1])]
    <3>1. turn \in [(1..N) \X S -> S]
      <4> HIDE DEF After, S, N
      <4> QED
        BY <1>3
    <3>2. \A k \in 1..N, s \in S : turn[<<k, s>>] = After(k, s)
      <4> HIDE DEF After, S, N
      <4> QED
        OBVIOUS
    <3> HIDE DEF N, S, first, turn, After
    <3>3. PICK f \in [0..N -> S] : Outcomes(f, first, turn, N)
      BY <1>1, <1>2, <3>1, LoopExists
    <3>4. \A k \in 0..N : k # 0 => k \in 1..N /\ k - 1 \in 0..N
      BY <1>1
    <3>5. \A k \in 0..N : f[k] = IF k = 0 THEN first ELSE After(k, f[k - 1])
      BY <3>2, <3>3, <3>4 DEF Outcomes
    <3>6. f = [k \in 0..N |-> IF k = 0 THEN first ELSE After(k, f[k - 1])]
      BY <3>3, <3>5
    <3> QED
      BY <3>6
  <2> QED
    BY <2>1
<1> HIDE DEF wr
<1>6. wr[0] = first /\ \A k \in 1..N : wr[k] = After(k, wr[k - 1])
  <2> HIDE DEF first, After, N
  <2>1. 0 \in 0..N /\ \A k \in 1..N : k \in 0..N /\ k # 0
    BY <1>1
  <2> QED
    BY <1>5, <2>1
<1>7. \A k \in 0..N : wr[k] \in S
  <2> DEFINE Good == {k \in 0..N : wr[k] \in S}
  <2>1. 0 \in Good /\ Good \in SUBSET Nat
    BY <1>1, <1>2, <1>6
  <2>2. \A k \in 1..N : k - 1 \in Good => k \in Good
    <3> HIDE DEF first, After, N, S
    <3> QED
      BY <1>1, <1>3, <1>6
  <2>3. 0..N \subseteq Good
    <3> HIDE DEF Good, N
    <3> QED
      BY <1>1, <2>1, <2>2, TurnByTurn
  <2> QED
    BY <2>3
<1>8. card' \in CardType /\ host' \in HostType
  <2>1. final \in S
    BY <1>1, <1>7
  <2> HIDE DEF final
  <2> QED
    BY <1>4, <2>1, CardIsAnyCard
<1>9. ASSUME xfer # "none", card.state # "SEND", Book(card, host, xfer, begun, hurt)
      PROVE  Book(card', host', xfer, begun, hurt \/ bad # 0)
  <2> DEFINE Broke(k) == hurt \/ (bad # 0 /\ bad <= k)
             Holds(k) == /\ Book(wr[k].card, wr[k].host, xfer, begun, Broke(k))
                         /\ wr[k].card.state # "SEND"
             Good == {k \in 0..N : Holds(k)}
  <2>1. /\ hurt \in BOOLEAN /\ xfer \in Transfers \ {"none"} /\ begun \in Nat
        /\ bad \in Nat
    BY <1>1, <1>9, BlocksAreWords, CardAssumption DEF TypeOK
  <2>2. bad # 0 => xfer \in {"write", "writes"}
    <3>1. bad # 0 => card.state = "RECV" /\ ~hurt
      BY <1>4
    <3> QED
      BY <1>9, <2>1, <3>1 DEF Book, Single, Transfers
  <2>3. 0 \in Good
    <3>1. ~(bad # 0 /\ bad <= 0)
      BY <2>1
    <3>2. Broke(0) = hurt
      BY <2>1, <3>1
    <3>3. wr[0].card = card /\ wr[0].host = host
      BY <1>6
    <3> QED
      BY <1>1, <1>9, <3>2, <3>3
  <2>4. ASSUME NEW k \in 1..N, k - 1 \in Good
        PROVE  k \in Good
    <3>1. k - 1 \in 0..N /\ k \in 0..N /\ Holds(k - 1)
      BY <1>1, <2>4
    <3> DEFINE broken == k = bad
    <3>2. wr[k - 1] \in S
      BY <1>7, <3>1
    <3>3. Broke(k) = (Broke(k - 1) \/ k = bad)
      <4>1. (bad # 0 /\ bad <= k) = ((bad # 0 /\ bad <= k - 1) \/ k = bad)
        BY <1>1, <2>1, <2>4
      <4> QED
        BY <4>1
    <3>4. /\ wr[k].card = CardWrite(wr[k - 1].card, 4, broken)
          /\ wr[k].host = CountBytes(wr[k - 1].host, 4)
      <4>1. wr[k] = After(k, wr[k - 1])
        BY <1>6
      <4> HIDE DEF N, S
      <4> QED
        BY <4>1
    <3>5. broken => xfer \in {"write", "writes"}
      <4>1. k = bad => bad # 0
        OBVIOUS
      <4> QED
        BY <2>2, <4>1
    <3> DEFINE c == wr[k - 1].card
               h == wr[k - 1].host
               b == Broke(k - 1)
    <3>6. c \in AnyCard /\ h \in HostType /\ b \in BOOLEAN /\ broken \in BOOLEAN
      BY <2>1, <3>2
    <3>7. Book(c, h, xfer, begun, b) /\ c.state # "SEND"
      BY <3>1
    <3> HIDE DEF c, h, b, broken
    <3>8. /\ Book(CardWrite(c, 4, broken), CountBytes(h, 4), xfer, begun, b \/ broken)
          /\ CardWrite(c, 4, broken).state # "SEND"
      BY <2>1, <3>5, <3>6, <3>7, WordKeepsBook
    <3> QED
      BY <3>1, <3>3, <3>4, <3>8 DEF c, h, b, broken
  <2>5. N \in Good
    <3>1. Good \in SUBSET Nat
      BY <1>1
    <3> HIDE DEF Good, N
    <3>2. 0..N \subseteq Good
      BY <1>1, <2>3, <2>4, <3>1, TurnByTurn
    <3> QED
      BY <1>1, <3>2
  <2>6. Broke(N) = (hurt \/ bad # 0)
    <3>1. bad <= N
      BY <1>1
    <3> HIDE DEF N
    <3> QED
      BY <3>1
  <2> QED
    BY <1>4, <2>5, <2>6
<1> QED
  BY <1>8, <1>9

------------------------------------------------------------------------------
(* One lemma per action. *)

\* The book is right at first.
LEMMA BookInit == Init => BookInv
<1> SUFFICES ASSUME Init PROVE BookInv
  OBVIOUS
<1>1. 0 \in 0..(WordTop - 1) /\ 0 \in OffsetFloor..FileTop /\ 0 \in 0..(CardSize - 1)
      /\ CardSize \in CardSize..FileTop
  BY CardAssumption, HostAssumption DEF OffsetFloor
<1>2. 0 \in 0..CountTop
  BY CountTopIsAbove
<1>3. card \in CardType
  BY <1>1 DEF Init, CardInit, CardType, CardStates
<1>4. host \in HostType
  BY <1>2 DEF Init, HostInit, HostType
<1>5. TypeOK
  BY <1>1, <1>3, <1>4 DEF Init, TypeOK, Transfers
<1> QED
  BY <1>5, NoBook DEF BookInv, Init

\* The guest or the DMA reads the data register.
LEMMA ReadDataStep ==
  ASSUME BookInv, NEW n \in {4} \cup DmaSizes, ReadData(n)
  PROVE  BookInv'
<1> USE DEF BookInv
<1>1. CASE ShortRead(card, n, file)
  <2>1. running' = FALSE /\ UNCHANGED <<card, host, file, book>>
    BY <1>1 DEF ReadData
  <2>2. TypeOK'
    BY <2>1 DEF TypeOK, book
  <2>3. Book(card, host, xfer, begun, hurt)'
    BY <2>1 DEF book, Book, Single, Hurt, Moving
  <2> QED
    BY <2>2, <2>3
<1>2. CASE ~ShortRead(card, n, file)
  <2>1. /\ card' = CardRead(card, n) /\ host' = CountBytes(host, n)
        /\ UNCHANGED <<file, running>>
        /\ KeepUnless("RECV")
    BY <1>2 DEF ReadData
  <2>2. n \in Nat
    BY BlocksAreWords
  <2>3. card' \in AnyCard
    BY <2>1, <2>2, CardReadType, CardIsAnyCard DEF TypeOK
  <2>4. card'.offset \in OffsetFloor..FileTop
    <3>1. \/ card'.offset = card.offset
          \/ card'.offset = card.offset + n /\ card.offset + n <= file
      <4> DEFINE more == (card.bytecount + n) % WordTop
                 moved == [card EXCEPT !.offset = @ + n, !.bytecount = more]
      <4>1. \/ card' \in {moved, [moved EXCEPT !.state = "TRANS"]} /\ card.offset + n <= file
            \/ card'.offset = card.offset
        <5>1. CASE card.scr
          BY <2>1, <5>1 DEF CardRead, TypeOK, CardType
        <5>2. CASE ~card.scr /\ card.state # "SEND"
          BY <2>1, <5>2 DEF CardRead
        <5>3. CASE ~card.scr /\ card.state = "SEND"
          <6>1. ~ card.offset + n > file
            BY <1>2, <5>3 DEF ShortRead
          <6>2. card.offset \in Int /\ file \in Int
            BY CardAssumption DEF TypeOK, CardType, OffsetFloor
          <6> QED
            BY <2>1, <2>2, <5>3, <6>1, <6>2 DEF CardRead, EndOfBlock
        <5> QED
          BY <5>1, <5>2, <5>3
      <4> HIDE DEF more
      <4>2. card \in CardType
        BY DEF TypeOK
      <4>3. moved.offset = card.offset + n /\ [moved EXCEPT !.state = "TRANS"].offset = card.offset + n
        BY <4>2 DEF CardType
      <4> HIDE DEF moved
      <4> QED
        BY <4>1, <4>3
    <3>2. card.offset \in OffsetFloor..FileTop /\ file \in Int /\ file <= FileTop
          /\ FileTop \in Int
      BY CardAssumption, HostAssumption DEF TypeOK, CardType
    <3> QED
      BY <2>2, <3>1, <3>2 DEF OffsetFloor
  <2>5. host' \in HostType
    BY <2>1, <2>2, CountBytesEffect DEF TypeOK
  <2>6. CASE UNCHANGED book /\ card.state # "RECV"
    <3>1. TypeOK'
      BY <2>1, <2>3, <2>4, <2>5, <2>6, CardIsAnyCard DEF TypeOK, book
    <3>2. CASE xfer = "none"
      BY <2>6, <3>1, <3>2 DEF Book, book
    <3>3. CASE xfer # "none"
      <4>1. begun \in Nat
        BY CardAssumption DEF TypeOK
      <4>2. Book(card', host', xfer, begun, hurt)
        BY <2>1, <2>6, <3>3, <4>1, ReadKeepsBook DEF TypeOK
      <4> QED
        BY <2>6, <3>1, <4>2 DEF book
    <3> QED
      BY <3>2, <3>3
  <2>7. CASE OffTheBook
    <3>1. 0 \in 0..(CardSize - 1)
      BY CardAssumption
    <3>2. TypeOK'
      BY <2>1, <2>3, <2>4, <2>5, <2>7, <3>1, CardIsAnyCard
         DEF TypeOK, OffTheBook, Transfers
    <3> QED
      BY <2>7, <3>2, NoBook DEF OffTheBook
  <2> QED
    BY <2>1, <2>6, <2>7 DEF KeepUnless
<1> QED
  BY <1>1, <1>2

\* The guest or the DMA writes the data register.
LEMMA WriteDataStep ==
  ASSUME BookInv, NEW n \in {4} \cup DmaSizes, NEW bad \in 0..(n \div 4),
         WriteData(n, bad)
  PROVE  BookInv'
<1> USE DEF BookInv
<1>1. /\ card' \in CardType
      /\ host' \in HostType
      /\ /\ xfer # "none" /\ card.state # "SEND"
         /\ Book(card, host, xfer, begun, hurt)
         => Book(card', host', xfer, begun, hurt \/ bad # 0)
  BY WordsKeepBook
<1>2. /\ file' \in {file, card'.offset} /\ (file' # file => file' > file)
      /\ UNCHANGED running
      /\ bad # 0 => /\ card.state = "RECV" /\ xfer # "none"
                    /\ hurt' = TRUE /\ UNCHANGED <<xfer, begun>>
      /\ bad = 0 => KeepUnless("SEND")
  BY DEF WriteData
<1>3. file' \in CardSize..FileTop
  <2>1. file \in CardSize..FileTop /\ card'.offset \in OffsetFloor..FileTop
    BY <1>1 DEF TypeOK, CardType
  <2>2. CardSize \in Int /\ FileTop \in Int
    BY CardAssumption, HostAssumption
  <2> QED
    BY <1>2, <2>1, <2>2 DEF OffsetFloor
<1>4. CASE bad # 0
  <2>1. /\ hurt' = TRUE /\ UNCHANGED <<xfer, begun>> /\ xfer # "none"
        /\ card.state # "SEND"
    BY <1>2, <1>4
  <2>2. TypeOK'
    BY <1>1, <1>2, <1>3, <2>1 DEF TypeOK
  <2>3. (hurt \/ bad # 0) = TRUE
    BY <1>4
  <2>4. Book(card', host', xfer, begun, TRUE)
    BY <1>1, <2>1, <2>3
  <2> QED
    BY <2>1, <2>2, <2>4
<1>5. CASE bad = 0 /\ OffTheBook
  <2>1. 0 \in 0..(CardSize - 1)
    BY CardAssumption
  <2>2. TypeOK'
    BY <1>1, <1>2, <1>3, <1>5, <2>1 DEF TypeOK, OffTheBook, Transfers
  <2> QED
    BY <1>5, <2>2, NoBook DEF OffTheBook
<1>6. CASE bad = 0 /\ UNCHANGED book /\ card.state # "SEND"
  <2>1. TypeOK'
    BY <1>1, <1>2, <1>3, <1>6 DEF TypeOK, book
  <2>2. CASE xfer = "none"
    BY <1>6, <2>1, <2>2 DEF Book, book
  <2>3. CASE xfer # "none"
    <3>1. (hurt \/ bad # 0) = hurt
      BY <1>6 DEF TypeOK
    <3>2. Book(card', host', xfer, begun, hurt)
      BY <1>1, <1>6, <2>3, <3>1
    <3> QED
      BY <1>6, <2>1, <3>2 DEF book
  <2> QED
    BY <2>2, <2>3
<1> QED
  BY <1>2, <1>4, <1>5, <1>6 DEF KeepUnless

\* The guest sets the block length.
LEMMA WriteControlStep ==
  ASSUME BookInv, NEW n \in BlockLens, WriteControl(n)
  PROVE  BookInv'
<1> USE DEF BookInv
<1>1. /\ host' = [host EXCEPT !.blkReg = n]
      /\ UNCHANGED <<card, file, running, xfer, begun, hurt>>
  BY DEF WriteControl, book
<1>2. /\ host' \in HostType /\ host'.datcom = host.datcom /\ host'.datfull = host.datfull
      /\ host'.xfrd = host.xfrd /\ host'.expected = host.expected /\ host'.multi = host.multi
  BY <1>1 DEF TypeOK, HostType
<1>3. TypeOK'
  BY <1>1, <1>2 DEF TypeOK
<1>4. Book(card, host', xfer, begun, hurt)
  BY <1>2 DEF Book, Single, Moving
<1> QED
  BY <1>1, <1>3, <1>4

\* The guest initialises the card, or the machine is reset.
LEMMA ResetSteps ==
  ASSUME BookInv, IniCard \/ SoftReset
  PROVE  BookInv'
<1> USE DEF BookInv
<1>1. card' \in CardType
  BY ResetType DEF TypeOK, IniCard, SoftReset
<1>2. host' \in HostType
  BY DEF TypeOK, IniCard, SoftReset, HostType
<1>3. OffTheBook /\ UNCHANGED <<file, running>>
  BY DEF IniCard, SoftReset
<1>4. 0 \in 0..(CardSize - 1)
  BY CardAssumption
<1>5. TypeOK'
  BY <1>1, <1>2, <1>3, <1>4 DEF TypeOK, OffTheBook, Transfers
<1> QED
  BY <1>3, <1>5, NoBook DEF OffTheBook

\* The guest runs a command.
LEMMA RunCommandStep ==
  ASSUME BookInv, NEW cmd \in Commands, NEW arg \in Arguments(cmd),
         NEW cmdwd \in BOOLEAN, NEW mulblk \in BOOLEAN, NEW tx \in BOOLEAN,
         RunCommand(cmd, arg, cmdwd, mulblk, tx)
  PROVE  BookInv'
<1> USE DEF BookInv
<1>1. card' = CardCommand(card, cmd, arg) /\ card' \in CardType
  BY CommandType DEF RunCommand, TypeOK
<1>2. 0 \in 0..CountTop
  BY CountTopIsAbove
<1>3. /\ host' \in HostType
      /\ ~cmdwd => host' = host
      /\ cmdwd => /\ host'.expected = host.blkReg /\ host'.xfrd = 0 /\ host'.multi = mulblk
                  /\ host'.datfull = (host.datfull \/ ~tx) /\ ~host'.datcom
  BY <1>2 DEF RunCommand, HostCommandWithData, TypeOK, HostType
<1>4. UNCHANGED <<file, running>>
  BY DEF RunCommand
<1>5. CASE ByTheBook(cmd, cmdwd, mulblk, tx)
  <2>1. xfer' = Kind(cmd) /\ begun' = card'.offset /\ hurt' = FALSE
    BY <1>5 DEF RunCommand
  <2>2. /\ cmd \in BlockCommands
        /\ card.state = "TRANS" /\ card'.state \in {"SEND", "RECV"}
        /\ ~card.scr
        /\ cmdwd /\ host.blkReg = card.blocklen
        /\ mulblk = (cmd \in MultiCommands)
        /\ tx = (cmd \in WriteCommands)
    BY <1>5 DEF ByTheBook
  <2>3. arg \in Nat /\ card \in CardType
    BY ArgumentsAreNatural DEF TypeOK
  <2> DEFINE place == arg * Sector
  <2>4. /\ card'.multi = (cmd \in MultiCommands) /\ card'.scr = card.scr
        /\ card'.blocklen = card.blocklen
        /\ place < CardSize
        /\ card'.state = IF cmd \in ReadCommands THEN "SEND" ELSE "RECV"
        /\ card'.bytecount = 0 /\ card'.offset = place
    BY <1>1, <2>2, <2>3, BlockCommandEffect
  <2>5. place \in 0..(CardSize - 1)
    <3>1. place \in Nat
      BY <2>3, SectorsAreBytes, CardAssumption
    <3> HIDE DEF place
    <3> QED
      BY <2>4, <3>1, CardAssumption
  <2> HIDE DEF place
  <2>6. Kind(cmd) \in Transfers
    BY <2>2 DEF Kind, Transfers
  <2>7. TypeOK'
    BY <1>1, <1>3, <1>4, <2>1, <2>4, <2>5, <2>6 DEF TypeOK
  <2>8. card.blocklen \in BlockLens
    <3>1. card.blocklen \in Nat \ {0} /\ host.blkReg \in BlockLens \cup {0}
      BY LengthsAreNatural DEF TypeOK, CardType, HostType, Lengths
    <3> QED
      BY <2>2, <3>1
  <2>9. CASE cmd \in MultiCommands
    <3>1. Kind(cmd) = IF cmd \in ReadCommands THEN "reads" ELSE "writes"
      BY <2>9 DEF Kind, MultiCommands, ReadCommands
    <3> QED
      BY <2>1, <2>2, <2>4, <2>7, <2>9, <3>1 DEF Book
  <2>10. CASE cmd \notin MultiCommands
    <3>1. cmd \in {"READ_SINGLE_BLOCK", "WRITE_SINGLE_BLOCK"}
      BY <2>2, <2>10 DEF BlockCommands, ReadCommands, WriteCommands, MultiCommands
    <3>2. Kind(cmd) = IF cmd \in ReadCommands THEN "read" ELSE "write"
      BY <3>1 DEF Kind, ReadCommands
    <3>3. cmd \in ReadCommands => ~tx
      BY <2>2, <3>1 DEF ReadCommands, WriteCommands
    <3>4. Moving(card', host', card'.offset)
      <4>1. 0 < card.blocklen /\ 0 % 4 = 0 /\ place + 0 = place
        BY <2>5, <2>8, BlocksAreWords
      <4> QED
        BY <1>3, <2>2, <2>4, <4>1 DEF Moving
    <3>5. Single(card', host', card'.offset, Kind(cmd))
      <4>1. ~card'.multi /\ ~host'.multi
        BY <1>3, <2>2, <2>4, <2>10
      <4>2. host'.expected = card'.blocklen /\ card'.blocklen \in BlockLens
        BY <1>3, <2>2, <2>4, <2>8
      <4>3. Kind(cmd) = "read" => host'.datfull
        BY <1>3, <2>2, <3>2, <3>3
      <4>4. card'.state = IF Kind(cmd) = "read" THEN "SEND" ELSE "RECV"
        BY <2>4, <3>2
      <4> QED
        BY <3>4, <4>1, <4>2, <4>3, <4>4 DEF Single
    <3>6. Kind(cmd) \in {"read", "write"}
      BY <3>2
    <3> QED
      BY <2>1, <2>2, <2>4, <2>7, <3>5, <3>6 DEF Book
  <2> QED
    BY <2>9, <2>10
<1>6. CASE OffTheBook
  <2>1. 0 \in 0..(CardSize - 1)
    BY CardAssumption
  <2>2. TypeOK'
    BY <1>1, <1>3, <1>4, <1>6, <2>1 DEF TypeOK, OffTheBook, Transfers
  <2> QED
    BY <1>6, <2>2, NoBook DEF OffTheBook
<1>7. CASE /\ UNCHANGED book /\ ~cmdwd /\ card'.state = card.state
           /\ cmd \notin BlockCommands \cup {"SD_SEND_SCR", "SET_BLOCKLEN"}
  <2>1. TypeOK'
    BY <1>1, <1>3, <1>4, <1>7 DEF TypeOK, book
  <2>2. CASE xfer = "none"
    BY <1>7, <2>1, <2>2 DEF Book, book
  <2>3. CASE xfer # "none"
    <3>1. card.state \in {"SEND", "RECV", "TRANS"}
      BY <2>3, BookStates DEF TypeOK
    <3>2. /\ card'.multi = card.multi /\ card'.scr = card.scr
          /\ card'.blocklen = card.blocklen
          /\ card'.bytecount = card.bytecount /\ card'.offset = card.offset
      BY <1>1, <1>7, <3>1, QuietCommand DEF TypeOK
    <3>3. Book(card', host, xfer, begun, hurt)
      BY <1>7, <3>2 DEF Book, Single, Hurt, Moving
    <3> QED
      BY <1>3, <1>7, <2>1, <3>3 DEF book
  <2> QED
    BY <2>2, <2>3
<1> QED
  BY <1>5, <1>6, <1>7 DEF RunCommand

------------------------------------------------------------------------------
(* The theorems. *)

\* Every step of the host keeps the book.
LEMMA BookStep == BookInv /\ [Next]_vars => BookInv'
<1> SUFFICES ASSUME BookInv, [Next]_vars PROVE BookInv'
  OBVIOUS
<1>1. ASSUME NEW n \in {4} \cup DmaSizes, ReadData(n) PROVE BookInv'
  BY <1>1, ReadDataStep
<1>2. ASSUME NEW n \in {4} \cup DmaSizes, NEW bad \in 0..(n \div 4), WriteData(n, bad)
      PROVE  BookInv'
  BY <1>2, WriteDataStep
<1>3. ASSUME NEW n \in BlockLens, WriteControl(n) PROVE BookInv'
  BY <1>3, WriteControlStep
<1>4. ASSUME NEW cmd \in Driver, NEW arg \in Arguments(cmd), NEW f \in DataFlags,
             RunCommand(cmd, arg, f[1], f[2], f[3])
      PROVE  BookInv'
  <2>1. cmd \in Commands
    BY HostAssumption
  <2>2. f[1] \in BOOLEAN /\ f[2] \in BOOLEAN /\ f[3] \in BOOLEAN
    <3>1. CASE f = <<FALSE, FALSE, FALSE>>
      BY <3>1
    <3>2. CASE f \in {TRUE} \X BOOLEAN \X BOOLEAN
      BY <3>2
    <3> QED
      BY <3>1, <3>2 DEF DataFlags
  <2> QED
    BY <1>4, <2>1, <2>2, RunCommandStep
<1>5. CASE IniCard \/ SoftReset
  BY <1>5, ResetSteps
<1>6. CASE Exited \/ UNCHANGED vars
  BY <1>6 DEF Exited, vars, book, BookInv, TypeOK, Book, Single, Hurt, Moving
<1> QED
  BY <1>1, <1>2, <1>3, <1>4, <1>5, <1>6 DEF Next

\* Card and interface keep the book of every transfer.
THEOREM BookIsKept == Spec => []BookInv
BY BookInit, BookStep, PTL DEF Spec

\* Whoever waits for DATCOM or reads while DATBUFFULL is up finds the card in the
\* state it expects, and a write stays in its block.
THEOREM FlagsFollow == Spec => []SdInv
<1>1. BookInv => SdInv
  <2> SUFFICES ASSUME BookInv PROVE SdInv
    OBVIOUS
  <2> USE DEF BookInv
  <2>1. FlagsFollowCard
    BY DEF FlagsFollowCard, Book, Single, Moving, InData, TypeOK, HostType
  <2>2. WriteStaysInBlock
    <3> SUFFICES ASSUME xfer = "write" PROVE WriteStaysInBlock
      BY DEF WriteStaysInBlock
    <3>1. begun \in Nat /\ card.bytecount \in Nat /\ card.offset \in Int
      BY CardAssumption, HostAssumption DEF TypeOK, CardType, OffsetFloor
    <3>2. card.blocklen \in Nat
      BY LengthsAreNatural DEF TypeOK, CardType, Lengths
    <3>3. CASE hurt
      <4>1. Hurt(card, begun)
        BY <3>3 DEF Book
      <4> QED
        BY <3>1, <3>2, <3>3, <4>1 DEF Hurt, WriteStaysInBlock, InData
    <3>4. CASE ~hurt
      <4>1. Single(card, host, begun, "write")
        BY <3>4 DEF Book
      <4> QED
        BY <3>1, <3>2, <3>4, <4>1 DEF Single, Moving, WriteStaysInBlock, InData
    <3> QED
      BY <3>3, <3>4
  <2> QED
    BY <2>1, <2>2 DEF SdInv
<1> QED
  BY <1>1, BookIsKept, PTL

\* Until it is stopped a transfer of several blocks stays open.
THEOREM SeveralStayOpen == Spec => []MultiStaysOpen
<1>1. BookInv => MultiStaysOpen
  BY DEF BookInv, Book, MultiStaysOpen, InData
<1> QED
  BY <1>1, BookIsKept, PTL

\* No state of the APP_CMD bit keeps a card from starting a block command.
THEOREM BlocksStart == Spec => []BlockCommandStarts
<1>1. BookInv => BlockCommandStarts
  <2> SUFFICES ASSUME BookInv, card.state = "TRANS",
                      NEW cmd \in BlockCommands, NEW s \in 0..(CardSize \div Sector - 1)
               PROVE  CardCommand(card, cmd, s).state \in {"SEND", "RECV"}
    BY DEF BlockCommandStarts
  <2> DEFINE size == CardSize \div Sector
  <2>1. size \in Nat /\ size * Sector = CardSize /\ Sector \in Nat \ {0}
    BY CardAssumption, Quotient
  <2>2. s \in Nat /\ s < size
    BY <2>1
  <2> HIDE DEF size
  <2>3. s * Sector + Sector <= CardSize
    BY <2>1, <2>2, ProductsGrow
  <2>4. s * Sector < CardSize
    <3>1. s * Sector \in Nat /\ CardSize \in Nat
      BY <2>1, <2>2, SectorsAreBytes, CardAssumption
    <3> QED
      BY <2>1, <2>3, <3>1
  <2> QED
    BY <2>2, <2>4, BlockCommandEffect DEF BookInv, TypeOK
<1> QED
  BY <1>1, BookIsKept, PTL

\* On a card of any size, erasing clears the sectors whose numbers are the
\* remainders of the ones it names, and no other: what it names within the first
\* 2^32 bytes, and something else above.
THEOREM EraseIsExact == Spec => []EraseClearsRemainders
<1>1. BookInv => EraseClearsRemainders
  <2> SUFFICES ASSUME BookInv, card.state = "TRANS", card.blocklen = Sector,
                      NEW first \in 0..(CardSize \div Sector) \cup Places,
                      NEW last \in 0..(CardSize \div Sector) \cup Places
               PROVE  LET named == CardCommand(CardCommand(card, "ERASE_WR_BLK_START", first),
                                               "ERASE_WR_BLK_END", last)
                      IN  Erased(named) =
                            {at \in 0..(CardSize - 1) :
                               at \div Sector \in (first % Reach)..(last % Reach)}
    BY DEF EraseClearsRemainders
  <2> DEFINE half == CardCommand(card, "ERASE_WR_BLK_START", first)
             named == CardCommand(half, "ERASE_WR_BLK_END", last)
             lower == first % Reach
             upper == last % Reach
  <2>1. first \in Nat /\ last \in Nat
    <3>1. CardSize \div Sector \in Nat /\ Places \subseteq Nat
      BY CardAssumption, Quotient
    <3> QED
      BY <3>1
  <2>2. /\ lower \in Nat /\ (first * Sector) % WordTop = lower * Sector
        /\ upper \in Nat /\ (last * Sector) % WordTop = upper * Sector
    BY <2>1, ProductIsCut
  <2> HIDE DEF lower, upper
  <2>3. card \in CardType
    BY DEF BookInv, TypeOK
  <2>4. /\ named.state = "TRANS" /\ named.blocklen = Sector
        /\ named.eraseBegin = lower * Sector /\ named.eraseEnd = upper * Sector
    <3>1. /\ named.state = "TRANS" /\ named.blocklen = card.blocklen
          /\ named.eraseBegin = (first * card.blocklen) % WordTop
          /\ named.eraseEnd = (last * card.blocklen) % WordTop
      BY <2>3, EraseRangeEffect
    <3> HIDE DEF named
    <3> QED
      BY <2>2, <3>1
  <2> HIDE DEF named
  <2> QED
    BY <2>2, <2>4, BlocksAreSectors DEF named, lower, upper
<1> QED
  BY <1>1, BookIsKept, PTL

------------------------------------------------------------------------------
(* The DMA controller. *)

\* Every channel has an interrupt line of its own.
LEMMA ChannelLines ==
  /\ \A c \in Chan : DmaIrq[c] \in IRQ
  /\ \A c, d \in Chan : DmaIrq[c] = DmaIrq[d] => c = d
<1>1. Chan \subseteq {0, 1, 2, 3}
  BY DmaAssumption
<1>2. DmaIrq[0] = 37 /\ DmaIrq[1] = 36 /\ DmaIrq[2] = 33 /\ DmaIrq[3] = 32
  BY DEF DmaIrq
<1>3. \A c, d \in {0, 1, 2, 3} : DmaIrq[c] = DmaIrq[d] => c = d
  BY <1>2
<1> QED
  BY <1>1, <1>3, DmaAssumption

\* The address a reset leaves in the APB address registers is one.
LEMMA ResetApbIsAddress == ResetApb \in Apb
<1>1. \E a \in Apb : a \notin {"sdTx", "sdRx"}
  BY DmaAssumption
<1> QED
  BY <1>1 DEF ResetApb

\* What acknowledging the channels in S leaves of lines and status bits.
LEMMA LowerLinesEffect ==
  ASSUME ApbInv, NEW S \in SUBSET Chan
  PROVE  /\ LowerLines(S) \in PicState
         /\ \A c \in Chan : DmaIrq[c] \in LowerLines(S).pending => c \in irqSts \ S
<1> DEFINE lines == {DmaIrq[c] : c \in S}
           p == LowerLines(S)
<1>1. p = [pic EXCEPT !.pending = @ \ lines, !.fired = @ \ lines]
  BY DEF LowerLines
<1>2. pic \in PicState
  BY DEF ApbInv, DmaTypeOK
<1> HIDE DEF lines, p
<1>3. p \in PicState /\ p.pending = pic.pending \ lines
  BY <1>1, <1>2 DEF PicState
<1>4. ASSUME NEW c \in Chan, DmaIrq[c] \in p.pending
      PROVE  c \in irqSts \ S
  <2>1. DmaIrq[c] \in pic.pending /\ DmaIrq[c] \notin lines
    BY <1>3, <1>4
  <2> QED
    BY <2>1 DEF lines, ApbInv, LineHasStatus
<1> QED
  BY <1>3, <1>4 DEF p

\* The guest writes a setting of a channel.
LEMMA WorkStep ==
  ASSUME ApbInv, NEW c \in Chan, NEW s \in Settings, WriteSetting(c, s)
  PROVE  ApbInv'
<1> USE DEF ApbInv
<1>1. /\ alive /\ c \notin busy
      /\ poked' = poked \ {c}
      /\ UNCHANGED <<start, end, apb>>
      /\ Complete(c, s) \/ Fail(c) \/ Refuse(c)
  BY DEF WriteSetting, Work, regs
<1>2. CASE Complete(c, s)
  <2>1. /\ pic' \in PicState
        /\ pic'.pending \subseteq pic.pending \cup {DmaIrq[c]}
    <3>1. pic \in PicState /\ DmaIrq[c] \in IRQ
      BY ChannelLines DEF DmaTypeOK
    <3> DEFINE q == SetIRQState(pic, DmaIrq[c], TRUE)
    <3>2. pic' = pic \/ pic' = q
      BY <1>2 DEF Complete
    <3>3. q \in PicState /\ q.pending = pic.pending \cup {DmaIrq[c]}
      BY <3>1, RaiseEffect
    <3> HIDE DEF q
    <3> QED
      BY <3>1, <3>2, <3>3
  <2>2. /\ busy' = busy \ {c} /\ irqSts' = irqSts \cup {c}
        /\ UNCHANGED <<alive, refused>>
    BY <1>2 DEF Complete
  <2>3. DmaTypeOK'
    BY <1>1, <2>1, <2>2 DEF DmaTypeOK
  <2>4. LineHasStatus'
    <3> SUFFICES ASSUME NEW d \in Chan, DmaIrq[d] \in pic'.pending
                 PROVE  d \in irqSts'
      BY DEF LineHasStatus
    <3>1. CASE DmaIrq[d] \in pic.pending
      BY <2>2, <3>1 DEF LineHasStatus
    <3>2. CASE DmaIrq[d] = DmaIrq[c]
      BY <2>2, <3>2, ChannelLines
    <3> QED
      BY <2>1, <3>1, <3>2
  <2>5. BusyIsExplained'
    BY <1>1, <2>2 DEF BusyIsExplained
  <2> QED
    BY <2>3, <2>4, <2>5
<1>3. CASE Fail(c)
  BY <1>1, <1>3 DEF Fail, DmaTypeOK, LineHasStatus, BusyIsExplained
<1>4. CASE Refuse(c)
  BY <1>1, <1>4 DEF Refuse, DmaTypeOK, LineHasStatus, BusyIsExplained
<1> QED
  BY <1>1, <1>2, <1>3, <1>4

\* Clearing entries of a register file keeps its type.
LEMMA ClearedType ==
  ASSUME NEW T, NEW f \in [Chan -> T], NEW S, NEW value \in T
  PROVE  Cleared(f, S, value) \in [Chan -> T]
BY DEF Cleared

\* The invariant of the controller holds at first.
LEMMA ApbInit == DmaInit => ApbInv
<1> SUFFICES ASSUME DmaInit PROVE ApbInv
  OBVIOUS
<1>1. 0 \in 0..(Top - 1)
  BY DmaAssumption
<1>2. DmaTypeOK
  BY <1>1, InitialPic, ResetApbIsAddress DEF DmaInit, DmaTypeOK
<1>3. pic.pending = {}
  BY DEF DmaInit, PicInit
<1> QED
  BY <1>2, <1>3 DEF ApbInv, LineHasStatus, BusyIsExplained, DmaInit

\* Every step keeps the invariant of the controller.
LEMMA ApbStep == ApbInv /\ [DmaNext]_dmaVars => ApbInv'
<1> SUFFICES ASSUME ApbInv, [DmaNext]_dmaVars PROVE ApbInv'
  OBVIOUS
<1> USE DEF ApbInv
<1>1. ASSUME NEW c \in Chan, WriteAddresses(c) PROVE ApbInv'
  <2>1. start' \in [Chan -> 0..(Top - 1)] /\ end' \in [Chan -> 0..(Top - 1)]
        /\ apb' \in [Chan -> Apb]
    BY <1>1, DmaAssumption DEF WriteAddresses, DmaTypeOK
  <2>2. UNCHANGED <<busy, irqSts, pic, alive, refused, poked>>
    BY <1>1 DEF WriteAddresses, hist
  <2> QED
    BY <2>1, <2>2 DEF DmaTypeOK, LineHasStatus, BusyIsExplained
<1>2. ASSUME NEW c \in Chan, NEW s \in Settings, WriteSetting(c, s) PROVE ApbInv'
  BY <1>2, WorkStep
<1>3. ASSUME NEW S \in SUBSET Chan, WriteBusy(S) PROVE ApbInv'
  BY <1>3 DEF WriteBusy, regs, DmaTypeOK, LineHasStatus, BusyIsExplained
<1>4. ASSUME NEW S \in SUBSET Chan, Acknowledge(S) PROVE ApbInv'
  <2>1. /\ pic' = LowerLines(S) /\ irqSts' = irqSts \ S
        /\ UNCHANGED <<start, end, apb, busy, alive, refused, poked>>
    BY <1>4 DEF Acknowledge, regs, hist
  <2>2. pic' \in PicState /\ LineHasStatus'
    BY <2>1, LowerLinesEffect DEF LineHasStatus
  <2> QED
    BY <2>1, <2>2 DEF DmaTypeOK, BusyIsExplained
<1>5. ASSUME NEW S \in SUBSET Chan, ResetChannels(S) PROVE ApbInv'
  <2>1. /\ pic' = LowerLines(S) /\ irqSts' = irqSts \ S /\ busy' = busy \ S
        /\ refused' = refused \ S /\ poked' = poked \ S
        /\ start' = Cleared(start, S, 0) /\ end' = Cleared(end, S, 0)
        /\ apb' = Cleared(apb, S, ResetApb)
        /\ UNCHANGED alive
    BY <1>5 DEF ResetChannels
  <2>2. pic' \in PicState /\ LineHasStatus'
    BY <2>1, LowerLinesEffect DEF LineHasStatus
  <2>3. 0 \in 0..(Top - 1)
    BY DmaAssumption
  <2>4. DmaTypeOK'
    BY <2>1, <2>2, <2>3, ClearedType, ResetApbIsAddress DEF DmaTypeOK
  <2> QED
    BY <2>1, <2>2, <2>4 DEF BusyIsExplained
<1>6. CASE DmaSoftReset
  <2>1. /\ busy' = {} /\ irqSts' = {} /\ refused' = {} /\ poked' = {}
        /\ pic' = [IRQDeviceReset(pic) EXCEPT !.queued = {}]
        /\ start' = Cleared(start, Chan, 0) /\ end' = Cleared(end, Chan, 0)
        /\ apb' = Cleared(apb, Chan, ResetApb)
        /\ UNCHANGED alive
    BY <1>6 DEF DmaSoftReset
  <2>2. pic' \in PicState /\ pic'.pending = {}
    BY <2>1, ResetEffect DEF DmaTypeOK
  <2>3. 0 \in 0..(Top - 1)
    BY DmaAssumption
  <2>4. DmaTypeOK'
    BY <2>1, <2>2, <2>3, ClearedType, ResetApbIsAddress DEF DmaTypeOK
  <2> QED
    BY <2>1, <2>2, <2>4 DEF LineHasStatus, BusyIsExplained
<1>7. CASE CpuTakes
  <2>1. PICK i \in pic.queued : pic' = [pic EXCEPT !.queued = @ \ {i}]
    BY <1>7 DEF CpuTakes
  <2>2. pic' \in PicState /\ pic'.pending = pic.pending
    BY <2>1, DequeueEffect DEF DmaTypeOK
  <2>3. UNCHANGED <<start, end, apb, busy, irqSts, alive, refused, poked>>
    BY <1>7 DEF CpuTakes, regs, hist
  <2> QED
    BY <2>2, <2>3 DEF DmaTypeOK, LineHasStatus, BusyIsExplained
<1>8. CASE Failed \/ UNCHANGED dmaVars
  BY <1>8 DEF Failed, dmaVars, regs, hist, DmaTypeOK, LineHasStatus, BusyIsExplained
<1> QED
  BY <1>1, <1>2, <1>3, <1>4, <1>5, <1>6, <1>7, <1>8 DEF DmaNext

\* Every line has its status bit and every busy bit its reason, for any channels,
\* addresses and order of stores.
THEOREM LinesAndBusyBits == DmaSpec => []ApbInv
BY ApbInit, ApbStep, PTL DEF DmaSpec

------------------------------------------------------------------------------
(* A hook and the loop move the same bytes. *)

\* A word of main memory lies below the end of memory.
LEMMA RegionsFit ==
  ASSUME NEW e \in MainRam
  PROVE  e \in Nat /\ e + 4 < Top
<1> DEFINE q == Top \div 4
<1>1. q \in Nat /\ Top = 4 * q /\ q >= 4 /\ Top \div 2 = 2 * q
  BY DmaAssumption
<1>2. e \in (2 * q)..(2 * q + q - 1)
  BY <1>1 DEF MainRam
<1> HIDE DEF q
<1> QED
  BY <1>1, <1>2

\* The loop of a region of `turns` units leaves after exactly that many turns.
LEMMA LoopLeaves ==
  ASSUME NEW s \in Settings, NEW b \in Nat, NEW e \in Nat, NEW turns \in Nat \ {0},
         b + turns * s.size = e + s.size, e + s.size < Top
  PROVE  LoopBytes(s, b, e) = s.size * turns
<1>1. s.size \in {1, 2, 4} /\ Top \in Nat
  BY DmaAssumption DEF Settings
<1>2. ASSUME NEW k \in 0..turns
      PROVE  LoopAddress(s, b, k) = b + k * s.size
  <2>1. b + k * s.size \in 0..(Top - 1)
    <3>1. CASE s.size = 1
      BY <1>1, <3>1
    <3>2. CASE s.size = 2
      BY <1>1, <3>2
    <3>3. CASE s.size = 4
      BY <1>1, <3>3
    <3> QED
      BY <1>1, <3>1, <3>2, <3>3
  <2> QED
    BY <1>1, <2>1, SmallIsItsRemainder DEF LoopAddress
<1>3. turns \in LoopExits(s, b, e)
  <2>1. LoopAddress(s, b, turns) > e
    BY <1>1, <1>2
  <2>2. turns \in 0..Top
    <3>1. CASE s.size = 1
      BY <1>1, <3>1
    <3>2. CASE s.size = 2
      BY <1>1, <3>2
    <3>3. CASE s.size = 4
      BY <1>1, <3>3
    <3> QED
      BY <1>1, <3>1, <3>2, <3>3
  <2> QED
    BY <2>1, <2>2 DEF LoopExits
<1>4. ASSUME NEW k \in LoopExits(s, b, e)
      PROVE  turns <= k
  <2>1. k \in Nat /\ LoopAddress(s, b, k) > e
    BY <1>1 DEF LoopExits
  <2> SUFFICES ASSUME k < turns PROVE FALSE
    BY <2>1
  <2>2. k \in 0..turns
    BY <2>1
  <2>3. b + k * s.size > e
    BY <1>2, <2>1, <2>2
  <2>4. k * s.size + s.size <= turns * s.size
    <3>1. CASE s.size = 1
      BY <2>1, <3>1
    <3>2. CASE s.size = 2
      BY <2>1, <3>2
    <3>3. CASE s.size = 4
      BY <2>1, <3>3
    <3> QED
      BY <1>1, <3>1, <3>2, <3>3
  <2> DEFINE x == k * s.size
             y == turns * s.size
  <2>5. x \in Nat /\ y \in Nat
    BY <1>1, <2>1, SectorsAreBytes
  <2>6. b + x > e /\ x + s.size <= y /\ b + y = e + s.size
    BY <2>3, <2>4
  <2> HIDE DEF x, y
  <2> QED
    BY <1>1, <2>5, <2>6
<1> DEFINE exits == LoopExits(s, b, e)
           k == CHOOSE k \in exits : \A j \in exits : k <= j
<1>5. k \in exits /\ \A j \in exits : k <= j
  BY <1>3, <1>4
<1>6. k = turns
  <2>1. k <= turns /\ turns <= k /\ k \in Nat
    BY <1>1, <1>3, <1>4, <1>5 DEF LoopExits
  <2> HIDE DEF k
  <2> QED
    BY <2>1
<1> QED
  BY <1>6 DEF LoopBytes

\* Moving by a hook or unit by unit makes no difference in main RAM.
THEOREM HookIsLoop == DmaSpec => []HookMovesWhatTheLoopWould
<1>1. ApbInv => HookMovesWhatTheLoopWould
  <2> SUFFICES ASSUME ApbInv, NEW c \in Chan, NEW s \in Settings,
                      start[c] \in MainRam, end[c] \in MainRam,
                      start[c] <= end[c], (end[c] - start[c]) % s.size = 0
               PROVE  HookBytes(s, start[c], end[c]) = LoopBytes(s, start[c], end[c])
    BY DEF HookMovesWhatTheLoopWould
  <2> DEFINE b == start[c]
             e == end[c]
             units == (e - b) \div s.size
  <2>1. b \in Nat /\ e \in Nat /\ b <= e /\ e + 4 < Top /\ Top \in Nat
    BY RegionsFit, DmaAssumption
  <2>2. s.size \in {1, 2, 4}
    BY DEF Settings
  <2> HIDE DEF b, e
  <2>3. units \in Nat /\ e - b = units * s.size
    <3>1. e - b \in Nat /\ (e - b) % s.size = 0 /\ s.size \in Nat \ {0}
      BY <2>1, <2>2 DEF b, e
    <3> QED
      BY <3>1, Quotient
  <2> HIDE DEF units
  <2>4. /\ units + 1 \in Nat \ {0} /\ b + (units + 1) * s.size = e + s.size
        /\ e + s.size < Top /\ s.size * (units + 1) = e - b + s.size
    <3>1. CASE s.size = 1
      BY <2>1, <2>3, <3>1
    <3>2. CASE s.size = 2
      BY <2>1, <2>3, <3>2
    <3>3. CASE s.size = 4
      BY <2>1, <2>3, <3>3
    <3> QED
      BY <2>2, <3>1, <3>2, <3>3
  <2>5. LoopBytes(s, b, e) = e - b + s.size
    <3>1. LoopBytes(s, b, e) = s.size * (units + 1)
      BY <2>1, <2>4, LoopLeaves
    <3> QED
      BY <2>4, <3>1
  <2>6. HookBytes(s, b, e) = e - b + s.size
    <3>1. e - b + s.size \in 0..(Top - 1)
      BY <2>1, <2>2, <2>4
    <3> QED
      BY <2>1, <3>1, SmallIsItsRemainder DEF HookBytes
  <2> QED
    BY <2>5, <2>6 DEF b, e
<1> QED
  BY <1>1, LinesAndBusyBits, PTL
==============================================================================
