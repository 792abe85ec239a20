SPECIFICATION Spec
CONSTANTS
  Conversions = {"c1"}
  MerchantOf <- MCMerchantOf
  AgentOf <- MCAgentOf
  BountyOf <- MCBountyOf
  TakeRateBps = 0
  CommissionBps = 10000
  PartyOrder <- MCPartyOrder
  Clerks = {n1, n2}
  PayoutWorkers = {w1}
  MaxMonth = 2
  MaxRuns = 2
  MaxFailures = 1
  MaxWipes = 1
INVARIANTS EachFoldIsPaidOnce
PROPERTY RunsOfTheMonthArePaidOut
CHECK_DEADLOCK FALSE
