\* Every mode, on rectangles that overlap, are clipped, or wrap their colours.
SPECIFICATION BlnSpec
CONSTANTS
  IRQ = {34}
  MemTop = 11
  MaxPaints = 2
  Pictures <- MCPictures
  Transfers <- MCTransfers
INVARIANTS
  BlnInv
  TransfersPaint
  DescrambleIsInvertible
