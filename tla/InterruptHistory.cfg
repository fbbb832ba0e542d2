\* Two lines, one in each half, and everything that may happen to them; and three
\* lines, two of them above the ticking one, so that a line can wait behind
\* another.  A fair tick and a CPU that keeps stepping.
SPECIFICATION MCLiveSpec
CONSTANTS
  IRQ = {16, 40, 56}
  Few = {16, 56}
  TickLine = 16
  EdgeCap = 2
INVARIANT HInv
PROPERTIES
  ReturnEnablesInterrupts
  ImplementsDelivery
  WaitingIsRescued
  QueuedIsEntered
