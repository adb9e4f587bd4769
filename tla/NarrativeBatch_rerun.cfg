SPECIFICATION BatchFairSpec
CONSTANTS
  NumProducts = 4
  Limit = 2
  Workers = 2
  SkipExisting = TRUE
  Bad <- MCBad
  MaxFaults = 2
INVARIANTS
  FailuresAreIsolated
PROPERTIES
  EveryStoreIsSummarised
