CONSTANTS
  d1 = d1
  d2 = d2
  q1 = q1
  None = None
  Drivers = {d1}
  Quotes = {q1}
  MaxTroubles = 0
  MaxOrders = 2
  MaxClaims = 2
SPECIFICATION Spec
INVARIANT NeverDoubleBuys
