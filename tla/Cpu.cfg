SPECIFICATION Spec
CONSTANTS
  Half = 4
  Bits = 3
  Space = 8
INVARIANT
  ConditionsCompare
PROPERTIES
  WideArithmetic
  CallReturns
