SPECIFICATION ServiceFairSpec
CONSTANTS
  r1 = r1
  r2 = r2
  i1 = i1
  i2 = i2
  p1 = p1
  None = None
  Runs <- MCRuns
  Instances <- MCInstances
  CommitFirst <- MCCommitFirst
  Orchestrators <- MCOrchestrators
  Scripts <- MCScripts
  Generators <- MCGenerators
  Products <- MCProducts
  Attempts = 1
  MaxRaw = 2
  MaxLost = 0
INVARIANTS
  EarlyRunIsReported
  SuccessIsEndToEnd
  RunningIsStale
PROPERTIES
  StatusIsFinal
  AcceptedRunIsReported
CHECK_DEADLOCK FALSE
