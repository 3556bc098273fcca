SPECIFICATION Spec
CONSTANTS
  Documents = {d1, d2, d3}
  Clients = {c1, c2}
  WritesStopped = TRUE
SYMMETRY StoreSymmetry
INVARIANT LiveRowHasFile
INVARIANT UnavailableOnlyIfDeleted
INVARIANT OrphanNeedsFault
INVARIANT FailedUploadLeavesAtMostItsRow
\* Every uuid may be used up.
CHECK_DEADLOCK FALSE
