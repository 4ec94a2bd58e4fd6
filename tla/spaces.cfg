SPECIFICATION Spec
CONSTANTS
  MemoryIDs = {1, 2}
  Spaces = {s1, s2}
  Models = {m1, m2}
  Policies <- EpisodicOnly
  Actors <- OneHuman
  Nil = Nil
  MaxExtends = 1
  MaxSources = 0
  MaxStray = 1
  MaxBatch = 1

  
PROPERTIES
  MigrationLocksSpace
  MigrationUnifiesVectors
SYMMETRY Symmetry
