CONSTANTS
  Keys = {a, b, c}
  Limit = 2
  Window = 2
  MaxTracked = 2
  HitSpace = 5
  MaxHits = 3
  MaxTime = 5
SPECIFICATION Spec
CHECK_DEADLOCK FALSE
INVARIANT TypeOK
INVARIANT RefusalsAreEarned
INVARIANT SlidingBound
PROPERTY LiveWindowsKept
