SPECIFICATION FairSpec
CONSTANTS
  a = a
  b = b
  Stores <- MCStores
  Nothing = Nothing
  MaxSelections = 3
  MaxClicks = 2
PROPERTIES
  LoadingEnds
CHECK_DEADLOCK FALSE
