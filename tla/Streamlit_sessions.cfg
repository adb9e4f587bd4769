SPECIFICATION Spec
CONSTANTS
  Script <- MCScript
  Ttl <- MCTtl
  Lag = 1
  Old = 5
  MaxChanges = 2
INVARIANTS
  RefreshShowsLatest
  PreviewIsNotOlder
PROPERTIES
  StalenessIsBounded
