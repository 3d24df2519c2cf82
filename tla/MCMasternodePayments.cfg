CONSTANTS
  m1 = m1
  m2 = m2
  x = x
  y = y
  net = net
  stake = stake
  NoPayee = NoPayee
  None = None
  Corrupt = Corrupt
  Foreign = Foreign
  MN = {m1, m2}
  Self = m1
  Payee = {x, y}
  Thread = {net, stake}
  MessageThread = net
  Signed <- MCSigned
  Forged <- MCForged
  Queue = {x, NoPayee}
  REQUIRED = 2
  Window = 0
  Ahead = 1
  OwnAhead = 1
  Limits = {1}
  ReorgDepth = 1
  MaxTip = 4
  MaxOwn = 3
  COIN = 1024
  HALVING = 2
  LAST_HEIGHT = 20
  LAST_POW = 1
  MaxMoneyOut = 5000
  GenesisCoins = 3000
  Supplies = {3000, 4700, 5000}
SPECIFICATION Spec
INVARIANTS RecordedIsCounted EnforcedHasQuorum OwnBlockAccepted
CHECK_DEADLOCK FALSE
