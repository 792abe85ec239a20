CONSTANTS
  Parts = {"projections", "analytics"}
  t1 = t1
  t2 = t2
  m1 = m1
  Transactions = {t1, t2}
  Bodies = {"ConversionVerified", "ConversionReversed"}
  MaxSeq = 3
  None = None
  BatchSize = 2
  MaxRebuilds = 1
  Monitors = {m1}
  Rebuilders = {m1}
  Tailers = {m1}
  Terms <- MCTerms
  TokenOf <- MCTokenOf
  ClaimOf <- MCClaimOf
  Reasons = {"BUDGET_EXHAUSTED"}
  MaxEvents = 6
  MaxDays = 2
  Window = 0
  MinMints = 1
  FloorBps = 2500
  MaxReplays = 1
  MaxFailed = 1
  Missing = Missing
  NotThere = NotThere
SPECIFICATION FairReaders
INVARIANTS
  
  TablesAgree
PROPERTIES
  ImplementsLog
  ReadersCatchUp
