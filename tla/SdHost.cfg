\* A driver that gives any command at any time to a card of five sectors, of which
\* four lie within the range of a word.
SPECIFICATION Spec
CONSTANTS
  Sector = 4
  CardSize = 20
  BlockLens = {4, 8}
  Driver = {"ALL_SEND_CID", "SEND_RELATIVE_ADDR", "SELECT_CARD",
            "STOP_TRANSMISSION", "SET_BLOCKLEN", "APP_CMD", "SD_SEND_SCR",
            "READ_SINGLE_BLOCK", "READ_MULTIPLE_BLOCK", "WRITE_SINGLE_BLOCK",
            "WRITE_MULTIPLE_BLOCK"}
  DmaSizes = {8}
  FileTop = 20
  Places = {0, 4, 5}
  WordTop = 16
INVARIANTS
  SdInv
  MultiStaysOpen
  BlockCommandStarts
  EraseClearsRemainders
