CONSTANTS
  c1 = c1
  h1 = h1
  h2 = h2
  k1 = k1
  k2 = k2
  j1 = j1
  j2 = j2
  q1 = q1
  q2 = q2
  m1 = m1
  a1 = a1
  None = None
  Handlers = {h1, h2}
  Reversers = {}
  Minters = {mint1}
  Commitments = {c1}
  Cor <- OpenCor
  MintRequests <- CapMints
  Jtis = {j1, j2}
  TokenTtl = 2
  ClaimIds = {"clm_1", "clm_2"}
  Claims <- ClashClaims
  Keys = {k1, k2}
  Quotes = {q1, q2}
  Approvals = {}
  Approval <- NoMandates
  Mandates = {}
  Mandate <- NoMandates
  MonthLength = 10
  MaxTime = 0
SPECIFICATION FairSpec
PROPERTIES
  RequestsAreAnswered
