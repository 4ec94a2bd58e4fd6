SPECIFICATION FairSpec
CONSTANTS
  MemoryIDs = {1, 2, 3, 4}
  Spaces = {s1}
  Models = {m1}
  Policies <- EpisodicOnly
  Actors <- OneHuman
  Nil = Nil
  MaxExtends = 0
  MaxSources = 0
  MaxStray = 0
  MaxBatch = 0
PROPERTIES
  ReviveTerminates
