SPECIFICATION AttendedSpec
CONSTANTS
  Workers = {w1, w2}
  MaxExtractions = 2
  MaxNormalizations = 0
  MaxValidations = 0
  MaxDecisions = 2
  MaxCorrections = 2
  RunbookFollowed = TRUE
SYMMETRY WorkerSymmetry
PROPERTY NewestJudgementWins
PROPERTY VerdictReopenedOnlyByCorrection
PROPERTY LifeCycle
PROPERTY OnlyEscapesAbandon
\* A document nobody asks anything of, or whose bounds are used up, rests.
CHECK_DEADLOCK FALSE
