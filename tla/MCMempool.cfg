SPECIFICATION FairSpec
CONSTANTS
  a = a
  b = b
  c = c
  k = k
  s = s
  x = x
  g = g
  None = None
  Tx <- McTx
  Coinbase = {k, s}
  Old = {g}
  Outpoint <- McOutpoint
  Creator <- McCreator
  Inputs <- McInputs
  Peer = {p1, p2}
  COINBASE_MATURITY = 2
  MAX_ORPHAN = 2
  MaxHeight = 3
INVARIANT PoolMinable
INVARIANT IndexesExact
PROPERTIES OrphansDrained LoopsEnd
