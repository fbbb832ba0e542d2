\* Every kind of event, and both threads fair.
SPECIFICATION RenderLiveSpec
CONSTANTS
  MaxLine = 3
  RenderLine = 1
  Events = {"close", "altf4", "load"}
  MaxEvents = 3
INVARIANTS
  RenderInv
  NoTickAfterShutdown
PROPERTIES
  LossesAreLate
  QuitEnds
  CloseExits
  PicturesKeepComing
