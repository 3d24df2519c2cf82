CONSTANTS
  m1 = m1
  MN = {m1}
  Broadcasts = 2
  OwnBroadcasts = 1
  NoPing = NoPing
  None = None
  EXPIRATION = 1
  REMOVAL = 2
  MIN_MNP = 1
  MIN_MNB = 1
  PING = 1
  WINDOW = 1
  Wallet = TRUE
  OldVersion = {1}
  Carried <- MCCarried
  Own = {None, m1}
SPECIFICATION ManFairSpec
PROPERTIES PingsForward MasternodeReturns SilentRemoved
