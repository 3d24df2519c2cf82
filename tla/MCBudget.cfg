CONSTANTS
  m1 = m1  m2 = m2  p = p  z = z  b1 = b1  b2 = b2
  None = None
  Proposals = {p}
  Budgets = {b1, b2}
  Pays <- MCPays
  Amount <- MCAmount
  Total = 1
  FeeOrder <- MCFeeOrder
  MN = {m1, m2}
  Self = m1
  Times = {1}
  START = 1
  Scenes <- MCScenes
  CountEnabled = 10
  UPDATE_MIN = 1
SPECIFICATION BudgetFairSpec
INVARIANT BudgetBlockAccepted
PROPERTIES VotesForward VotesFollowList
