------------------------------- MODULE SdHost --------------------------------
(***************************************************************************)
(* The SD interface of stor/sdperiph.cpp with the card behind it.  Both    *)
(* count the bytes of a transfer, each for itself: the interface to tell   *)
(* the guest when it is over (DATCOM, DATBUFFULL), the card to leave its   *)
(* data state.  The guest's driver may store to any register at any time,  *)
(* read data by the word or by DMA, and load an earlier state.             *)
(*                                                                         *)
(* Left out: the words of responses with CMDBUFFULL and STPCMD, which only *)
(* count them, and the flags CMDCOM and DATBUFEMPTY, which are only set.   *)
(***************************************************************************)
EXTENDS SdCard

CONSTANTS
  Driver,     \* the commands the guest issues
  DmaSizes,   \* bytes of a DMA transfer, in words
  FileTop     \* bound on the length of the image file

\* Blocks, and what DMA can move out of main RAM, are far from 2^32 bytes.
ASSUME HostAssumption ==
  /\ Driver \subseteq Commands
  /\ DmaSizes \subseteq {n \in Nat : n > 0 /\ n % 4 = 0}
  /\ FileTop \in Nat /\ FileTop >= CardSize
  /\ \A n \in BlockLens : n % 4 = 0 /\ n < 4096
  /\ \A n \in {4} \cup DmaSizes, b \in BlockLens \cup {Sector} : b + n <= WordTop

VARIABLES
  card,      \* the card
  host,      \* the interface: the fields of HostType
  file,      \* the length of the image file
  running,   \* the program has not left by exit(1)
  saved,     \* the state the user saved last, if any
  xfer,      \* history: the transfer the driver began by the book, if any
  begun,     \* history: where it began
  hurt       \* history: a write of it failed

book == <<xfer, begun, hurt>>
vars == <<card, host, file, running, saved, book>>

\* Bound: how far failures take the place of the next write before the file.
OffsetFloor == -4

\* Counting stops one word above the longest block: only < is asked of it.
CountTop == (CHOOSE n \in BlockLens \cup {Sector} :
               \A m \in BlockLens \cup {Sector} : m <= n) + 4

HostType ==
  [datcom : BOOLEAN,             \* SD_STATUS_DATCOM
   datfull : BOOLEAN,            \* SD_STATUS_DATBUFFULL
   blkReg : BlockLens \cup {0},  \* BLKLEN of sd_mode_ctrl
   xfrd : 0..CountTop,           \* sd_dat_bytes_xfrd
   expected : BlockLens \cup {0},\* sd_dat_bytes_expected
   multi : BOOLEAN]              \* isMultiBlock

CardType ==
  [state : CardStates, app : BOOLEAN, multi : BOOLEAN, scr : BOOLEAN,
   blocklen : BlockLens \cup {Sector}, bytecount : 0..(WordTop - 1),
   offset : OffsetFloor..FileTop, hasRca : BOOLEAN,
   eraseBegin : 0..(WordTop - 1), eraseEnd : 0..(WordTop - 1)]

Transfers == {"none", "read", "write", "reads", "writes"}

TypeOK ==
  /\ card \in CardType
  /\ host \in HostType
  /\ file \in CardSize..FileTop
  /\ running \in BOOLEAN
  /\ xfer \in Transfers
  /\ begun \in 0..(CardSize - 1)
  /\ hurt \in BOOLEAN

HostInit == [datcom |-> TRUE, datfull |-> FALSE, blkReg |-> 0, xfrd |-> 0,
             expected |-> 0, multi |-> FALSE]

NothingSaved == [xfer |-> "none"]

\* The reset value of sd_mode_ctrl has BLKLEN 512, if the guest ever uses that.
Init ==
  /\ card = CardInit
  /\ host = [HostInit EXCEPT !.blkReg = IF Sector \in BlockLens THEN Sector ELSE 0]
  /\ file = CardSize
  /\ running = TRUE
  /\ saved = NothingSaved
  /\ xfer = "none" /\ begun = 0 /\ hurt = FALSE

------------------------------------------------------------------------------
\* What every access to a data register does to the flags and the count.
CountBytes(h, n) ==
  LET x == IF h.xfrd + n > CountTop THEN CountTop ELSE h.xfrd + n
  IN  IF x < h.expected
      THEN [h EXCEPT !.xfrd = x, !.datfull = TRUE]
      ELSE [h EXCEPT !.xfrd = x, !.datcom = TRUE, !.datfull = @ /\ h.multi]

InData == card.state \in {"SEND", "RECV"}

OffTheBook == xfer' = "none" /\ begun' = 0 /\ hurt' = FALSE

\* The driver leaves the book when it moves data the wrong way.
KeepUnless(wrong) ==
  IF card.state = wrong THEN OffTheBook ELSE UNCHANGED book

\* A read of the data register, or of n bytes by the DMA hook.
ReadData(n) ==
  /\ running
  /\ IF ShortRead(card, n, file)
       THEN running' = FALSE /\ UNCHANGED <<card, host, book>>
       ELSE /\ card' = CardRead(card, n)
            /\ host' = CountBytes(host, n)
            /\ UNCHANGED running
            /\ KeepUnless("RECV")
  /\ UNCHANGED <<file, saved>>

\* A DMA to the card finds no hook, so it stores the words one by one: card and
\* interface after k of them.  The image file may refuse one of them, `bad`.
\* Bound: no other until the driver begins anew.
WriteData(n, bad) ==
  LET wr[k \in 0..(n \div 4)] ==
        IF k = 0 THEN [card |-> card, host |-> host]
        ELSE [card |-> CardWrite(wr[k - 1].card, 4, k = bad),
              host |-> CountBytes(wr[k - 1].host, 4)]
      end == wr[n \div 4]
      receiving == card.state = "RECV"
  IN  /\ running
      /\ bad # 0 => receiving /\ xfer # "none" /\ ~hurt
      /\ end.card.offset \in OffsetFloor..FileTop
      /\ card' = end.card
      /\ host' = end.host
      /\ file' = IF receiving /\ end.card.offset > file THEN end.card.offset ELSE file
      /\ IF bad # 0 THEN hurt' = TRUE /\ UNCHANGED <<xfer, begun>> ELSE KeepUnless("SEND")
      /\ UNCHANGED <<running, saved>>

WriteControl(n) ==
  /\ running
  /\ host' = [host EXCEPT !.blkReg = n]
  /\ UNCHANGED <<card, file, running, saved, book>>

------------------------------------------------------------------------------
(* The command register. *)

HostCommandKeepsDatcom(h, mulblk, tx) ==
  [h EXCEPT !.expected = h.blkReg, !.xfrd = 0, !.multi = mulblk,
            !.datfull = @ \/ ~tx]

\* A command with data.
HostCommandWithData(h, mulblk, tx) ==
  [h EXCEPT !.expected = h.blkReg, !.xfrd = 0, !.multi = mulblk,
            !.datfull = @ \/ ~tx, !.datcom = FALSE]

\* By the book: the card accepts, and the interface was told the same length,
\* the same direction and the same kind of transfer; no register is being read.
ByTheBook(cmd, cmdwd, mulblk, tx) ==
  /\ cmd \in BlockCommands
  /\ card.state = "TRANS" /\ card'.state \in {"SEND", "RECV"}
  /\ ~card.scr
  /\ cmdwd /\ host.blkReg = card.blocklen
  /\ mulblk = (cmd \in MultiCommands)
  /\ tx = (cmd \in WriteCommands)

Kind(cmd) == CASE cmd = "READ_SINGLE_BLOCK" -> "read"
               [] cmd = "READ_MULTIPLE_BLOCK" -> "reads"
               [] cmd = "WRITE_SINGLE_BLOCK" -> "write"
               [] OTHER -> "writes"

RunCommand(cmd, arg, cmdwd, mulblk, tx) ==
  /\ running
  /\ card' = CardCommand(card, cmd, arg)
  /\ host' = IF cmdwd THEN HostCommandWithData(host, mulblk, tx) ELSE host
  /\ IF ByTheBook(cmd, cmdwd, mulblk, tx)
       THEN xfer' = Kind(cmd) /\ begun' = card'.offset /\ hurt' = FALSE
       ELSE IF \/ cmdwd \/ card'.state # card.state
               \/ cmd \in BlockCommands \cup {"SD_SEND_SCR", "SET_BLOCKLEN"}
       THEN OffTheBook
       ELSE UNCHANGED book
  /\ UNCHANGED <<file, running, saved>>

\* INICARD: the card alone is reset.
IniCard ==
  /\ running
  /\ card' = CardReset(card)
  /\ OffTheBook
  /\ UNCHANGED <<host, file, running, saved>>

\* Soft reset: BLKLEN ends up as 0, the counts and isMultiBlock stay.
SoftReset ==
  /\ running
  /\ card' = CardReset(card)
  /\ host' = [host EXCEPT !.datcom = TRUE, !.datfull = FALSE, !.blkReg = 0]
  /\ OffTheBook
  /\ UNCHANGED <<file, running, saved>>

------------------------------------------------------------------------------
(* Saved states: SDDeviceState and SD_State. *)

Save ==
  /\ running
  /\ saved' = [card |-> card, host |-> host, xfer |-> xfer, begun |-> begun, hurt |-> hurt]
  /\ UNCHANGED <<card, host, file, running, book>>

\* The status word, and with it the APP_CMD bit, is saved; blocklen,
\* expectingMultiBlock, readingScr, RCA and the erase range are not.
Load ==
  /\ running
  /\ saved # NothingSaved
  /\ card' = [card EXCEPT !.offset = saved.card.offset,
                          !.state = saved.card.state,
                          !.bytecount = saved.card.bytecount,
                          !.app = saved.card.app]
  /\ host' = saved.host
  /\ xfer' = saved.xfer
  /\ begun' = saved.begun
  /\ hurt' = saved.hurt
  /\ UNCHANGED <<file, running, saved>>

Exited == ~running /\ UNCHANGED vars

\* CMDWD, MULBLK and TxDATA; the last two matter only with the first.
DataFlags == {<<FALSE, FALSE, FALSE>>} \cup ({TRUE} \X BOOLEAN \X BOOLEAN)

Next ==
  \/ \E n \in {4} \cup DmaSizes : ReadData(n) \/ \E bad \in 0..(n \div 4) : WriteData(n, bad)
  \/ \E n \in BlockLens : WriteControl(n)
  \/ \E cmd \in Driver : \E arg \in Arguments(cmd), f \in DataFlags :
       RunCommand(cmd, arg, f[1], f[2], f[3])
  \/ IniCard \/ SoftReset
  \/ Exited

Spec == Init /\ [][Next]_vars

\* With a user who saves and loads states as well.
SaveSpec == Init /\ [][Next \/ Save \/ Load]_vars

------------------------------------------------------------------------------
\* The two counts agree: while a single block is moved by the book, the guest
\* is told that it is over exactly when the card has left its data state, so a
\* driver that waits for DATCOM can give the next command, and one that reads
\* while DATBUFFULL is up reads the block and nothing else.  Only a write that
\* failed takes them apart.
FlagsFollowCard ==
  ~hurt => /\ xfer \in {"read", "write"} => (host.datcom <=> ~InData)
           /\ xfer = "read" => (host.datfull <=> InData)

\* A block that is written ends where it should, also when the DMA controller
\* stores more words than the block has.  A word that could not be written takes
\* card and place back by one, so what follows may end three bytes too late, or
\* the block ends at once, but nothing else of the card is written.
WriteStaysInBlock ==
  xfer = "write" =>
    /\ ~hurt => card.offset \in begun..(begun + card.blocklen)
    /\ hurt => card.offset \in (begun - 1)..(begun + card.blocklen + 3)
    /\ card.offset < begun => ~InData

SdInv == TypeOK /\ FlagsFollowCard /\ WriteStaysInBlock

\* A transfer of several blocks goes on until it is stopped, also when a write
\* fails.
MultiStaysOpen == xfer \in {"reads", "writes"} => InData /\ card.multi

\* The APP_CMD bit, which most application commands leave set, never makes the
\* card swallow a block command.
BlockCommandStarts ==
  card.state = "TRANS" =>
    \A cmd \in BlockCommands, s \in 0..(CardSize \div Sector - 1) :
      CardCommand(card, cmd, s).state \in {"SEND", "RECV"}

\* Wherever a driver has left the card, erasing with the block length of a sector
\* clears the sectors it names and no other, as long as they lie within the first
\* 2^32 bytes of the card.  Beyond that it does not: the two ends are 32-bit
\* products, while all other addresses are computed in 64 bits, so each end stands
\* for the sector whole multiples of 2^32 bytes below, and sectors nobody named are
\* cleared, or none.
Reach == WordTop \div Sector

EraseClearsRemainders ==
  card.state = "TRANS" /\ card.blocklen = Sector =>
    \A first, last \in 0..(CardSize \div Sector) \cup Places :
      LET named == CardCommand(CardCommand(card, "ERASE_WR_BLK_START", first),
                               "ERASE_WR_BLK_END", last)
      IN  Erased(named) = {at \in 0..(CardSize - 1) :
                             at \div Sector \in (first % Reach)..(last % Reach)}
==============================================================================
