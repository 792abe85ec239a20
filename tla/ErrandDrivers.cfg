CONSTANTS
  d1 = d1
  d2 = d2
  q1 = q1
  None = None
  Drivers = {d1, d2}
  Quotes = {q1}
  MaxTroubles = 1
  MaxOrders = 2
  MaxClaims = 2
SPECIFICATION Spec
SYMMETRY DriverSymmetry
INVARIANTS
  MirrorTellsTheTruth
  ApprovedBeforeBuying
  ConfirmedConverted
PROPERTIES
  ImplementsErrandRecord
