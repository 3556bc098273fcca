SPECIFICATION Spec
CONSTANTS
  Null = Null
  Closed = Closed
  Unknown = Unknown
  APPROVED_CURRENCY_CODES = {"EUR"}
  Reviewers = {r1}
  Cases <- MCCleared
  MaxEdits = 2
  MaxCorrections = 2
\* A behaviour ends when the corrections its bound allows are made.
CHECK_DEADLOCK FALSE
INVARIANT
  EntriesAreEdits
