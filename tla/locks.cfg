SPECIFICATION FairSpec
CONSTANTS
  Clients = {c1, c2, c3}
  PoolSize = 2
INVARIANT TypeOK
INVARIANT HandlersAreNotAborted
INVARIANT DeadlocksNeedAnOutsider
PROPERTY TransactionsEnd
