SPECIFICATION Spec
CONSTANTS
  MemoryIDs = {1, 2, 3}
  Spaces = {s1, s2}
  Models = {m1}
  Policies <- TightOrRoomy
  Actors <- HumanAndAgent
  Nil = Nil
  MaxExtends = 0
  MaxSources = 2
  MaxStray = 0
  MaxBatch = 2
INVARIANTS
  TypeOK
  LatestExclusive
  LiveIndexAgrees
  AuditTellsHistory
  RelationsAgree
PROPERTIES
  HistoryImmutable
  BatchAtomic
  RememberRespectsLimits
  ImplementsLineage
SYMMETRY Symmetry
