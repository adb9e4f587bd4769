SPECIFICATION FairSpec
CONSTANTS
  a = a
  b = b
  Stores <- MCStores
  Nothing = Nothing
  MaxSelections = 3
  MaxClicks = 2
INVARIANTS
  ShowsSelectedStoreOnly
PROPERTIES
  LoadingEndsUnlessHasty
  ForecastStays
  SummaryNeverAges
CHECK_DEADLOCK FALSE
