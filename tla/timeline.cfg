SPECIFICATION TimedSpec
CONSTANTS
  MemoryIDs = {1, 2, 3}
  Spaces = {s1}
  Models = {m1}
  Policies <- NoEpisodic
  Actors <- OneHuman
  Nil = Nil
  MaxExtends = 0
  MaxSources = 2
  MaxStray = 0
  MaxBatch = 2
  MaxTime = 1
  ForgetAfter <- FirstExpires
  Comparing = FALSE
INVARIANT
  ExportShowsThePast
