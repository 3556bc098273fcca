SPECIFICATION FairSpec
CONSTANTS
  Workers = {w1, w2}
  MaxExtractions = 2
  MaxNormalizations = 0
  MaxValidations = 0
  MaxDecisions = 0
  MaxCorrections = 2
  RunbookFollowed = TRUE
PROPERTY RequestsEnd
PROPERTY DocumentLeavesProcessing
\* A document nobody asks anything of, or whose bounds are used up, rests.
CHECK_DEADLOCK FALSE
