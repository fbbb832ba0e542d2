\* The guest does what it likes with the camera's registers.
SPECIFICATION LiveSpec
CONSTANTS
  IRQ = {51}
  LastLine = 1
  CsiLine = 0
  Addr = {a1, a2}
  MayQuit = TRUE
INVARIANTS
  CsiInv
  FrameEndMeansFrame
  DestinationIsCurrent
PROPERTIES
  FramesKeepComing
  QuitEnds
