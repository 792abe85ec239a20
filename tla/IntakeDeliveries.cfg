CONSTANTS
  d1 = d1
  d2 = d2
  d3 = d3
  f1 = f1
  t1 = t1
  garbage = garbage
  None = None
  Deliveries = {d1, d2, d3}
  Keys = {"k1"}
  Bodies <- AllBodies
  FormedClaims = {f1}
  Tokens = {t1, garbage}
  Garbage = {garbage}
SPECIFICATION FairSpec
CHECK_DEADLOCK FALSE
INVARIANTS
  IntakeFollowsTrio
  AnsweredIsRecorded
PROPERTIES
  ImplementsOneAnswer
  DeliveriesAreAnswered
