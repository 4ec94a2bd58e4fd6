SPECIFICATION ReportsSpec
CONSTANTS
  MemoryIDs = {1, 2, 3}
  Spaces = {s1}
  Models = {m1}
  Policies <- OnePolicy
  Actors <- OneHuman
  Nil = Nil
  MaxExtends = 0
  MaxSources = 2
  MaxStray = 0
  MaxBatch = 0
  Contents = {"p", "q", "r"}
  Similarity <- Near
  Noisy = {"r"}
  Attributes <- Texts
  TopK = 1
  MaxGroups = 2
  MinObservations = 2
  MinActors = 1
  MinWindows = 1
  MaxPlans = 2
  MaxMeanwhile <- TwoCommits
INVARIANTS
  ListingIsExact
  CountsDriftOnlyByFirstTouch
  PlansNameLiveTogether
  QuietPlansAreExact
  FactsSurvivePlans
  ObservationsCountOnce
  ProfileShowsLineagesOnce
  LintSeesDuplicates
