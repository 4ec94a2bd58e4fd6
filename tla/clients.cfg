SPECIFICATION ClientSpec
CONSTANTS
  MemoryIDs = {1, 2}
  Spaces = {s1}
  Models = {m1, m2}
  Clients = {c1, c2}
  Policies <- EpisodicOnly
  Actors <- OneHuman
  Nil = Nil
  MaxExtends = 0
  MaxSources = 0
  MaxStray = 0
  MaxBatch = 1
INVARIANTS
  OneModelUntilMigrated
PROPERTIES
  ImplementsStore
SYMMETRY Symmetry
