SPECIFICATION Spec
CONSTANTS
  g = g
  p = p
  a = a
  b = b
  c = c
  None = None
  Block <- McBlock
  Genesis = g
  Parent <- McParent
  Spends <- McSpends
  Announced = {c}
  MaxSize = 5
  MaxCrash = 1
CHECK_DEADLOCK FALSE
INVARIANT RepairedCoinsMatch
