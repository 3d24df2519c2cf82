CONSTANTS
  t1 = t1
  t2 = t2
  a = a
  b = b
  m1 = m1
  m2 = m2
  NoTx = NoTx
  Tx <- MCTx
  Input <- MCInput
  vin <- MCvin
  MN = {m1, m2}
  Self = m1
  Height = {0, 1}
  SIGNATURES_REQUIRED = 2
  LockTicks = 1
  REPLAYED = 1
  MaxChain = 1
SPECIFICATION Spec
PROPERTY ConflictingLocksCancel
CHECK_DEADLOCK FALSE
