SPECIFICATION ServiceSpec
CONSTANTS
  Workers = {w1, w2}
  MaxExtractions = 1
  MaxNormalizations = 0
  MaxValidations = 0
  MaxDecisions = 0
  MaxCorrections = 1
  RunbookFollowed = TRUE
SYMMETRY WorkerSymmetry
INVARIANT EscalationIsQueued
\* A document nobody asks anything of, or whose bounds are used up, rests.
CHECK_DEADLOCK FALSE
