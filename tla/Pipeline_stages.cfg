SPECIFICATION Spec
CONSTANTS
  o1 = o1
  b1 = b1
  g1 = g1
  p1 = p1
  None = None
  Orchestrators <- MCOrchestrators
  Scripts <- MCScripts
  Generators <- MCGenerators
  Products <- MCProducts
  Attempts = 2
  MaxRaw = 2
  MaxLost = 1
INVARIANTS
  Lineage
PROPERTIES
  NothingAges
  LoneRunIsEndToEnd
