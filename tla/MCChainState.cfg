CONSTANTS
  g = g
  a1 = a1
  a2 = a2
  a3 = a3
  b1 = b1
  b2 = b2
  None = None
  Block = {g, a1, a2, a3, b1, b2}
  Genesis = g
  Parent <- MCParent
  Anc <- MCAnc
  Work <- MCWork
  Scenes <- Checked
SPECIFICATION FairSpec
INVARIANTS CheckBlockIndex CandidatesComplete BestChainActive ActiveChainSound
PROPERTY ActivationEnds
CHECK_DEADLOCK FALSE
