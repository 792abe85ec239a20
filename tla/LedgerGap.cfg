CONSTANTS
  Transactions = {t1, t2}
  Bodies = {"ConversionVerified", "TokenMinted"}
  MaxSeq = 3
  None = None
SPECIFICATION Spec
INVARIANTS
  AuditNeverGap
