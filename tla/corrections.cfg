SPECIFICATION Spec
CONSTANTS
  Workers = {w1, w2}
  MaxExtractions = 1
  MaxNormalizations = 0
  MaxValidations = 0
  MaxDecisions = 0
  MaxCorrections = 3
  RunbookFollowed = TRUE
SYMMETRY WorkerSymmetry
INVARIANT VerdictStands
INVARIANT ReviewsResolveEscalations
INVARIANT EscalationSticks
INVARIANT StatusHasReason
INVARIANT NoCorrectionLost
INVARIANT CorrectionHasItsChain
\* A document nobody asks anything of, or whose bounds are used up, rests.
CHECK_DEADLOCK FALSE
