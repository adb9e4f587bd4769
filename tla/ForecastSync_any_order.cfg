SPECIFICATION Spec
CONSTANTS
  p1 = p1
  p2 = p2
  o1 = o1
  o2 = o2
  s1 = s1
  Seed = Seed
  NoRows = NoRows
  Products <- MCProducts
  Orchestrators <- MCOrchestrators
  Converting <- MCConverting
  Scripts <- MCScripts
  BqRows <- MCBqRows
  MaxFaults = 1
  MaxVersion = 2
PROPERTIES
  TransactionsReplace
  EndedSyncIsComplete
  ForecastsNeverAge
  FailureKeepsRows
CHECK_DEADLOCK FALSE
