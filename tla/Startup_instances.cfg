SPECIFICATION FairSpec
CONSTANTS
  c1 = c1
  c2 = c2
  c3 = c3
  b1 = b1
  s1 = s1
  s2 = s2
  d1 = d1
  d2 = d2
  d3 = d3
  Containers <- MCContainers
  Scripts <- MCScripts
  Servers <- MCServers
  Parent <- MCParent
  Dirs <- MCDirs
  DirOf <- MCDirOf
  Ephemeral <- MCEphemeral
  Compose <- MCCompose
  MaxDocs = 2
  MaxFaults = 1
INVARIANTS
  SchemaBeforeService
  ContainerHasIndex
  StoreIsOneBuild
PROPERTIES
  UnstampedForever
  EveryContainerServes
