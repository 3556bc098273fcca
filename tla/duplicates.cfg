SPECIFICATION Spec
CONSTANTS
  Null = Null
  Documents = {d1, d2}
  Invoices <- MCCopies
  Confidences <- MCConfident
  RunDate <- MCRunDate
  MaxTime = 1
  MaxNormalizations = 2
  MaxValidations = 1
SYMMETRY DocumentSymmetry
INVARIANT SearchIInv
INVARIANT DuplicatesAreReviewed
INVARIANT MatchesAreLive
\* Every bound may be used up.
CHECK_DEADLOCK FALSE
