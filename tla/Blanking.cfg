\* Frames of four lines, and a guest that stores to any register at any time.
SPECIFICATION LiveSpec
CONSTANTS
  IRQ = {16, 46, 53, 55}
  EndLine = 0
  TveInit = 1
  StartLine = 2
  LastLine = 3
  Controls = {{"start", "end", "dma"}}
  Acks = {{"start"}}
  TveControls = {{"start", "end"}}
INVARIANTS
  BlankInv
  FiredIsServed
  LinesInStep
PROPERTY BlankingGoesOn
