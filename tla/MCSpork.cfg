CONSTANTS
  n1 = n1
  n2 = n2
  n3 = n3
  s1 = s1
  v1 = v1
  v2 = v2
  None = None
  Node = {n1, n2, n3}
  Signer = n1
  SporkID = {s1}
  Value = {v1, v2}
  Default <- MCDefault
  Restarts = TRUE
  MaxTime = 1
  MaxUpdates = 2
SPECIFICATION FairSpec
INVARIANTS SameTimeSameValue DurableExceptSigner
PROPERTIES ImplementsRegister TakenSporkSpreads
CHECK_DEADLOCK FALSE
