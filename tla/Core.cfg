SPECIFICATION CoreSpec
CONSTANTS
  Parts = {"editing", "browsing", "heads", "packs", "onboarding", "doors", "requests"}
  t1 = t1
  t2 = t2
  p1 = p1
  Transactions = {t1, t2}
  Bodies = {"ConversionVerified", "ConversionReversed"}
  MaxSeq = 3
  MaxDay = 2
  Publishers = {p1}
  Committed <- MCCommitted
  Tokens <- MCTokens
  Claims <- MCClaims
  MaxNumber = 7
  MaxAnchors = 1
  None = None
  Null = Null
  All = All
  email = email
  purchases = purchases
  diary = diary
  gold = gold
  anyone = anyone
  ListPrice <- MCListPrice
  Offers = {1, 2, 3}
  Operators = {p1, p2}
  Cors = {1, 2, 3}
  Cap = 2
  Merchants = {"aurora", "brio"}
  Budget = 2
  InitialTerms <- MCInitialTerms
  Patches <- MCPatches
  Readers = {r1}
  Inputs <- MCInputs
  MaxReads = 1
  Orders <- MCOrders
  Rules <- MCRules
  Settings <- MCSettings
  Priority <- MCPriority
  Keys = {email, purchases, diary}
  Class <- MCClass
  QuoteTtl = 3
  TokenTtlBound = 2
  AttributionWindow = 4
  Shops = {1, 2}
  Slugs = {1, 2, 3}
  Secrets = {1, 2, 3}
  Onboarders = {w1, w2}
  Deliveries = {p1, p2}
  DeliveryInputs <- MCDeliveries
  DoorSkew = 1
  DoorWindow = 1
  DoorLimit = 1
  MaxDoorTime = 1
  MaxSignups = 2
  MaxEdits = 2
  MaxDoorFailures = 1
  NoOne = NoOne
  Agents = {w1, w2}
  Requests = {p1, p2}
  RequestSkew = 1
  ClockOffsets <- MCOffsets
  MaxSigned = 1
  MaxRequestTime = 3
  MaxRequestFailures = 1
  Nobody = Nobody
SYMMETRY CoreSymmetry
INVARIANTS
  HistoryIsKept
  ReadsAreSound
  QuotesAreHonest
  WithheldStaysHome
  AuditNeverBroken
  HeadsAnchorTheChain
  
  OnboardedIsComplete
  
  ServedOncePerCredential

CHECK_DEADLOCK FALSE
