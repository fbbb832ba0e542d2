\* Two timers and a guest that writes any register at any time.
SPECIFICATION LiveSpec
CONSTANTS
  IRQ = {56}
  Timer = {t0, t1}
  MaxCount = 1
  Preloads = {3}
  Dividers = {2}
INVARIANTS
  TimerInv
  FlagHoldsLine
PROPERTY RunningTimerInterrupts
