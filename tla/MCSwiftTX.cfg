CONSTANTS
  t1 = t1
  t2 = t2
  a = a
  b = b
  m1 = m1
  m2 = m2
  NoTx = NoTx
  Tx <- MCTx
  Input <- MCInput
  vin <- MCvin
  MN = {m1}
  Self = m1
  Height = {0, 1, 2}
  SIGNATURES_REQUIRED = 1
  LockTicks = 1
  REPLAYED = 1
  MaxChain = 2
SPECIFICATION Spec
INVARIANTS VotesOnce RequestBehindLock
PROPERTIES  FirstLockWins CompleteIsStable RejectedThenLocked LocksEnd
CHECK_DEADLOCK FALSE
