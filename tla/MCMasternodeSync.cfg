CONSTANTS
  p1 = p1
  p2 = p2
  h1 = h1
  Never = Never
  Peer = {p1, p2}
  Outdated = {p1}
  Hash = {h1}
  TIMEOUT = 0
  THRESHOLD = 1
  RetryDelay = 0
SPECIFICATION FairSpec
INVARIANTS TypeOK FinishedHasData
PROPERTIES SyncEnds FailureRetried
