\* The user saves and loads states while the driver moves blocks.
SPECIFICATION SaveSpec
CONSTANTS
  Sector = 8
  CardSize = 16
  BlockLens = {8}
  Driver = {"ALL_SEND_CID", "SEND_RELATIVE_ADDR", "SELECT_CARD",
            "STOP_TRANSMISSION", "READ_SINGLE_BLOCK", "READ_MULTIPLE_BLOCK"}
  DmaSizes = {8}
  FileTop = 16
  Places = {0, 1, 2}
  WordTop = 32
INVARIANT MultiStaysOpen
