SPECIFICATION WorkspaceSpec
CONSTANTS
  MemoryIDs = {1, 2}
  Spaces = {"s1", "s2"}
  Models <- ThreeModels
  DefaultModel <- a2
  Policies <- NoPolicies
  Actors <- OneHuman
  Nil = Nil
  Threads = {t1, t2}
  ConfigFiles <- ConfigChoices
  Apis = {"cli", "mcp", "http", "grpc"}
  MaxOpens = 2
  MaxRequests = 2
INVARIANTS
  MisfitsShareAnID
  UnavailableOnlyByDrift
PROPERTIES
  ModelChangesByMigration
  ReconcileSettles
  DeclaredTrustCounts
SYMMETRY Symmetry
CHECK_DEADLOCK FALSE
