SPECIFICATION Spec
CONSTANTS
  Workers = {w1, w2}
  MaxExtractions = 2
  MaxNormalizations = 2
  MaxValidations = 2
  MaxDecisions = 2
  MaxCorrections = 1
  RunbookFollowed = FALSE
SYMMETRY WorkerSymmetry
INVARIANT TypeOK
INVARIANT IInv
INVARIANT DocumentTracksExtraction
INVARIANT OneResultPerSource
PROPERTY HistoryIsImmutable
\* A document nobody asks anything of, or whose bounds are used up, rests.
CHECK_DEADLOCK FALSE
