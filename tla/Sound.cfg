\* A queue of four samples, callbacks of two; the period moves by two in 2..6.
SPECIFICATION Spec
CONSTANTS
  IRQ = {62}
  Channel = {0}
  MaxBuf = 5
  Dropped = 1
  Low = 1
  Samples = 2
  FirstPeriod = 4
  MinPeriod = 3
  MaxPeriod = 5
  PeriodStep = 2
  BeatPeriods = {0, 4}
  Beats = {0, 1, 2}
INVARIANTS
  AudioInv
  BeatLineHasCause
  BusyMeansEnabled
