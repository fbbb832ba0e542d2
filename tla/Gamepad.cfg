\* Three buttons, two players; a guest that may be one tick late.
SPECIFICATION PadSpec
CONSTANTS
  IRQ = {28}
  Keys = 3
  Select = 2
  TZero = 1
  TOne = 4
  TStart = 7
  TStop = 10
  Latency = 1
  MaxEvents = 3
INVARIANT GamepadInv
PROPERTY ReceivedWasSent
