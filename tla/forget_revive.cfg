SPECIFICATION FairSpec
CONSTANTS
  MemoryIDs = {1, 2, 3, 4}
  Spaces = {s1}
  Models = {m1}
  Policies <- Roomy
  Actors <- OneHuman
  Nil = Nil
  MaxExtends = 0
  MaxSources = 2
  MaxStray = 0
  MaxBatch = 0
INVARIANTS
  LineageIsChain
  OrphansExact
  ForgetsCommute
PROPERTIES
  ReviveMissesOnlyPastInnerVersion
  AscendingReviveEnds
