SPECIFICATION Spec
CONSTANTS
  g = g
  p = p
  a = a
  b = b
  c = c
  None = None
  Block <- McBlock
  Genesis = g
  Parent <- McParent
  Spends <- McSpends
  Announced = {c}
  MaxSize = 6
  MaxCrash = 2
CHECK_DEADLOCK FALSE
INVARIANTS CoinsMatchBest SavedChainLoadable CleanRestart
