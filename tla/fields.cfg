SPECIFICATION Spec
CONSTANTS
  Null = Null
  Closed = Closed
  Unknown = Unknown
  APPROVED_CURRENCY_CODES = {"EUR"}
  Reviewers = {r1, r2}
  Cases <- MCCases
  MaxEdits = 2
  MaxCorrections = 2
SYMMETRY ReviewerSymmetry
\* A behaviour ends when the corrections its bound allows are made.
CHECK_DEADLOCK FALSE
INVARIANTS
  ScreenIInv
  TypeOK
  AuditLogReplays
  UntouchedFieldsKeep
  MeaningIsKeptOrFlagged
