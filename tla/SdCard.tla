------------------------------- MODULE SdCard --------------------------------
(***************************************************************************)
(* The SD card of stor/sdcard.cpp as pure operators on a record, so that a *)
(* handler of the interface may call it several times in one step:         *)
(*   state      currentState                                               *)
(*   app        the APP_CMD bit of currentCardStatus                       *)
(*   multi      expectingMultiBlock                                        *)
(*   scr        readingScr                                                 *)
(*   blocklen, bytecount, offset   the variables of that name, in bytes    *)
(*   hasRca     RCA has been assigned: it is 0 before and 0x9001 after     *)
(*   eraseBegin, eraseEnd          the variables of that name, in bytes    *)
(* The contents of responses, with the error bits of the status word that  *)
(* only they show, are left out.  Reading past the end of the image file   *)
(* ends the program: ShortRead says when.                                  *)
(***************************************************************************)
EXTENDS Integers

CONSTANTS
  Sector,     \* bytes an address counts: 512
  CardSize,   \* cardsize
  BlockLens,  \* lengths the guest gives to SET_BLOCKLEN
  Places,     \* addresses the guest gives to the commands that take one
  WordTop     \* 2^32: bytecount and the products of the erase commands wrap,
              \* which cards of up to 16 GiB exceed

ASSUME CardAssumption ==
  /\ Sector \in Nat \ {0}
  /\ CardSize \in Nat \ {0} /\ CardSize % Sector = 0
  /\ BlockLens \subseteq Nat \ {0}
  /\ Places \subseteq Nat
  /\ WordTop \in Nat \ {0} /\ WordTop % Sector = 0

ScrBytes == 8

CardStates == {"IDLE", "READY", "IDENT", "STDBY", "TRANS", "SEND", "RECV",
               "INACTIVE"}

CardReset(c) ==
  [c EXCEPT !.state = "IDLE", !.app = FALSE, !.multi = FALSE, !.scr = FALSE,
            !.blocklen = Sector, !.bytecount = 0, !.offset = 0,
            !.eraseBegin = 0, !.eraseEnd = 0]

CardInit == [state |-> "IDLE", app |-> FALSE, multi |-> FALSE, scr |-> FALSE,
             blocklen |-> Sector, bytecount |-> 0, offset |-> 0,
             hasRca |-> FALSE, eraseBegin |-> 0, eraseEnd |-> 0]

------------------------------------------------------------------------------
(* SD_Command. *)

ReadCommands  == {"READ_SINGLE_BLOCK", "READ_MULTIPLE_BLOCK"}
WriteCommands == {"WRITE_SINGLE_BLOCK", "WRITE_MULTIPLE_BLOCK"}
MultiCommands == {"READ_MULTIPLE_BLOCK", "WRITE_MULTIPLE_BLOCK"}
BlockCommands == ReadCommands \cup WriteCommands
\* Commands that matter to an app command or to nobody.
PlainCommands ==
  {"GO_IDLE_STATE", "ALL_SEND_CID", "SEND_RELATIVE_ADDR", "SELECT_CARD",
   "STOP_TRANSMISSION", "SEND_STATUS", "GO_INACTIVE_STATE", "SET_BLOCKLEN",
   "APP_CMD", "SD_SEND_OP_COND", "SD_SEND_OCR", "SD_SEND_SCR", "SD_SET_WIDTH",
   "ERASE_WR_BLK_START", "ERASE_WR_BLK_END", "ERASE", "OTHER"}
Commands == BlockCommands \cup PlainCommands

Addressed == {"STDBY", "TRANS", "SEND", "RECV"}

\* beginRead and beginWrite: the mode is set even if the command is refused.
BeginTransfer(c, cmd, sector) ==
  LET d == [c EXCEPT !.multi = cmd \in MultiCommands]
  IN  IF c.state = "TRANS" /\ sector * Sector < CardSize
      THEN [d EXCEPT !.state = IF cmd \in ReadCommands THEN "SEND" ELSE "RECV",
                     !.offset = sector * Sector, !.bytecount = 0]
      ELSE d

\* arg = 1 is the card's own address once it has one, 0 the address before.
SelectCard(c, arg) ==
  IF arg = (IF c.hasRca THEN 1 ELSE 0)
  THEN [c EXCEPT !.state = IF @ = "STDBY" THEN "TRANS" ELSE @]
  ELSE [c EXCEPT !.state = IF @ \in {"STDBY", "TRANS", "SEND"} THEN "STDBY" ELSE @]

AppCommandKeepsBit(c, cmd) ==
  CASE cmd \in {"SD_SEND_OP_COND", "SD_SEND_OCR"} ->
         [c EXCEPT !.state = IF @ = "IDLE" THEN "READY" ELSE @]
    [] cmd = "SD_SEND_SCR" -> [c EXCEPT !.scr = TRUE, !.multi = FALSE, !.bytecount = 0]
    [] OTHER -> c

\* The switch for application commands: those it knows keep the bit.
AppCommand(c, cmd) ==
  CASE cmd \in {"SD_SEND_OP_COND", "SD_SEND_OCR"} ->
         [c EXCEPT !.state = IF @ = "IDLE" THEN "READY" ELSE @]
    [] cmd = "SD_SEND_SCR" -> [c EXCEPT !.scr = TRUE, !.multi = FALSE, !.bytecount = 0]
    [] cmd \in {"SEND_STATUS", "APP_CMD", "SD_SET_WIDTH"} -> c
    [] OTHER -> [c EXCEPT !.app = FALSE]

NormalCommand(c, cmd, arg) ==
  CASE cmd = "GO_IDLE_STATE" -> CardReset(c)
    [] cmd = "ALL_SEND_CID" -> [c EXCEPT !.state = "IDENT"]
    [] cmd = "SEND_RELATIVE_ADDR" ->
         [c EXCEPT !.hasRca = TRUE, !.state = IF @ = "IDENT" THEN "STDBY" ELSE @]
    [] cmd = "SELECT_CARD" -> SelectCard(c, arg)
    [] cmd = "STOP_TRANSMISSION" ->
         [c EXCEPT !.state = IF @ \in {"SEND", "RECV"} THEN "TRANS" ELSE @]
    [] cmd = "GO_INACTIVE_STATE" ->
         [c EXCEPT !.state = IF @ \in Addressed THEN "INACTIVE" ELSE @]
    [] cmd = "SET_BLOCKLEN" ->
         [c EXCEPT !.blocklen = IF c.state = "TRANS" THEN arg ELSE @]
    [] cmd \in BlockCommands -> BeginTransfer(c, cmd, arg)
    [] cmd = "ERASE_WR_BLK_START" -> [c EXCEPT !.eraseBegin = (arg * c.blocklen) % WordTop]
    [] cmd = "ERASE_WR_BLK_END" -> [c EXCEPT !.eraseEnd = (arg * c.blocklen) % WordTop]
    [] cmd = "APP_CMD" -> [c EXCEPT !.app = TRUE]
    [] OTHER -> c

\* Wrong variant: the block at eraseEnd stays.
ErasedStopsBefore(c) ==
  IF c.state # "TRANS" THEN {}
  ELSE {at \in 0..(CardSize - 1) :
          \E k \in 0..(CardSize \div c.blocklen) :
            LET i == c.eraseBegin + k * c.blocklen
            IN  /\ i < c.eraseEnd /\ i + c.blocklen <= CardSize
                /\ at \in i..(i + c.blocklen - 1)}

\* The bytes ERASE fills with 0xFF: whole blocks of the length that is set now, up
\* to the one at eraseEnd, but none that reaches beyond the card.
Erased(c) ==
  IF c.state # "TRANS" THEN {}
  ELSE {at \in 0..(CardSize - 1) :
          \E k \in 0..(CardSize \div c.blocklen) :
            LET i == c.eraseBegin + k * c.blocklen
            IN  /\ i <= c.eraseEnd /\ i + c.blocklen <= CardSize
                /\ at \in i..(i + c.blocklen - 1)}

\* A command the first switch does not know falls through to the second one.
CardCommand(c, cmd, arg) ==
  IF c.state = "INACTIVE" THEN c
  ELSE LET d == IF c.app THEN AppCommand(c, cmd) ELSE c
       IN  IF d.app THEN d ELSE NormalCommand(d, cmd, arg)

\* The arguments a command is given.
Arguments(cmd) ==
  CASE cmd = "SELECT_CARD" -> {0, 1}
    [] cmd = "SET_BLOCKLEN" -> BlockLens
    [] cmd \in BlockCommands \cup {"ERASE_WR_BLK_START", "ERASE_WR_BLK_END"} ->
         Places
    [] OTHER -> {0}

------------------------------------------------------------------------------
(* SD_Read and SD_Write of n bytes. *)

EndOfBlockIgnoresMulti(c) ==
  IF c.bytecount >= c.blocklen THEN [c EXCEPT !.state = "TRANS"] ELSE c

EndOfBlock(c) ==
  IF ~c.multi /\ c.bytecount >= c.blocklen THEN [c EXCEPT !.state = "TRANS"] ELSE c

\* pread64 returns less than what was asked for.
ShortRead(c, n, file) == ~c.scr /\ c.state = "SEND" /\ c.offset + n > file

\* The configuration register goes first, until its eighth byte is read.
CardRead(c, n) ==
  IF c.scr
  THEN LET left == IF c.bytecount >= ScrBytes THEN 1 ELSE ScrBytes - c.bytecount
       IN  IF n >= left
           THEN [c EXCEPT !.bytecount = (@ + left) % WordTop, !.scr = FALSE]
           ELSE [c EXCEPT !.bytecount = (@ + n) % WordTop]
  ELSE IF c.state = "SEND"
       THEN EndOfBlock([c EXCEPT !.offset = @ + n, !.bytecount = (@ + n) % WordTop])
       ELSE c

\* A write that fails returns -1, which is added to both.
CardWriteFails(c) ==
  EndOfBlock([c EXCEPT !.offset = @ - 1, !.bytecount = (@ + WordTop - 1) % WordTop])

\* `broken` is the outcome of pwrite64; a place before the file cannot be written.
CardWrite(c, n, broken) ==
  IF c.state # "RECV" THEN c
  ELSE IF broken \/ c.offset < 0 THEN CardWriteFails(c)
  ELSE EndOfBlock([c EXCEPT !.offset = @ + n, !.bytecount = (@ + n) % WordTop])
==============================================================================
