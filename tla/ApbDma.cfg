\* Two channels, with regions inside, outside and at the end of main RAM and at
\* the end of the address space.
SPECIFICATION DmaSpec
CONSTANTS
  IRQ = {36, 37}
  Chan = {0, 1}
  AddrBits = 5
  Starts = {4, 16, 20}
  Ends = {20, 31}
  Apb = {"sdRx", "other"}
INVARIANTS
  ApbInv
  HookMovesWhatTheLoopWould
