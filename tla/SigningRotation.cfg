SPECIFICATION WalletParts
CONSTANTS
  Parts = {"keys"}
  None = None
  c1 = c1
  c2 = c2
  a1 = a1
  cheap = cheap
  dear = dear
  e1 = e1
  p1 = p1
  p2 = p2
  Callers = {p1, p2}
  Consumers = {c1}
  Agents = {a1}
  Quotes = {cheap, dear}
  Quote <- MCQuote
  Grants <- MCGrants
  Patches <- MCPatches
  Scopes <- MCScopes
  Categories = {"shoes"}
  Merchants = {}
  AnyMerchant = AnyMerchant
  Flags = {}
  MaxMandates = 2
  Endpoints = {e1}
  MaxCalls = 4
  MaxCrashes = 1
  MaxTime = 1
  aurora = aurora
  other = other
  gold = gold
  far = far
  k1 = k1
  k2 = k2
  s1 = s1
  s2 = s2
  r1 = r1
  Ips = {s1}
  Emails = {c1, c2}
  Browsers = {p1, p2}
  Links = {1, 2, 3}
  PerIp <- MCPerIp
  PerEmail <- MCPerEmail
  LinkTtl = 1
  SessionTtl = 1
  MaxRequests = 4
  MaxSignInTime = 2
  Unset = Unset
  People = {c1, c2}
  Programmes = {aurora, other}
  Members = {gold, far}
  Programme <- MCProgramme
  Attempts = {1, 2}
  LinkIds = {1, 2}
  Claims = {k1}
  Owner <- MCOwner
  Workers = {p1, p2}
  MaxFailures = 1
  Nobody = Nobody
  Signers = {s1, s2}
  KeyCalls = {k1, k2}
  HomeOf <- MCOneHome
  MaxVersions = 2
  MaxRestarts = 0
  NoVersion = NoVersion
  Persons = {c1}
  Subs = {gold}
  SeededRows <- MCRows
  Hashes = {e1}
  Contexts <- MCContexts
  Readers = {p1, p2}
  MaxLinked = 2
  MaxReads = 2
  Unknown = Unknown
  Valets = {p1}
  Wants = {1, 2}
  Texts <- MCTexts
  Replies <- MCReplies
  Flags4Max = {NoPrice}
  Prices = {50, 80}
  Rails = {"fakeshop", "shopify", "ucp", "acp"}
  MaxAttempts = 2
  MaxQuoted = 2
  MaxSold = 2
  MaxClock = 1
  MaxMishaps = 1
  NoPrice = NoPrice
  NoModel = NoModel
  Nil = Nil
SYMMETRY MCSymmetry
INVARIANTS RetiredNeverSigns
CHECK_DEADLOCK FALSE
