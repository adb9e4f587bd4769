SPECIFICATION FairSpec
CONSTANTS
  p1 = p1
  p2 = p2
  w1 = w1
  w2 = w2
  full = full
  Seed = Seed
  NoRows = NoRows
  Products <- MCProducts
  Txns <- MCTxns
  Scope <- MCScope
  Fresh <- MCFresh
  Serialised = FALSE
INVARIANTS
  ReplacedForGood
  DuplicatesOnlyFromOverlap
PROPERTIES
  NoGapForReaders
  UndisturbedIsAtomic
  EveryReplacementEnds
CHECK_DEADLOCK FALSE
