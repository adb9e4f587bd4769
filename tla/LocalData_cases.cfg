SPECIFICATION Spec
CONSTANTS
  Week = 2
  Recent = 4
  Older = 6
  Horizon = 2
  Short = 2
  Long = 3
  Shown = 9
  TotalStores = 3
  High = 12
  Low = 5
  Inputs <- MCInputs
INVARIANTS
  BacktestIsOfItsModels
  PanelsAgree
  StrictPassMeansData
PROPERTIES
  SeedIsServed
  EveryLineCounts
CHECK_DEADLOCK FALSE
