SPECIFICATION FairSpec
CONSTANTS
  Requests = {1, 2, 3}
  Loads <- MCLoads
  CommitsLast = TRUE
  PoolSize = 2
  PoolTimeout = 1
  Threads = 1
  Attempts = 2
  Rounds = 2
  MaxOutages = 1
INVARIANT TypeOK
PROPERTIES EveryRequestIsAnswered OnlyLongWorkKeepsWaiting SourcesBelongToSummary
