SPECIFICATION Spec
CONSTANTS
  Chunk = {c1}
  Id = {"a", "b"}
  HostOf <- OwnHosts
  StorageErrors = TRUE
  MaxTime = 2
  MaxRevision <- TwoRevisions
  FastListing = TRUE
  HashModes = {TRUE, FALSE}
  EndCut = TRUE
  PruneModes <- OptionModes
  Threads = 2
  ExtraTime = 0
  DormantAge = 0
  MaxCollections = 2
  SeededIds = {"b"}
  ActiveIds = {"a"}
  PromptBackups = FALSE
  MaxPending = 1
  PruneKilled = TRUE
  Overlap = {"a", "b"}
INVARIANTS RevisionsFresh
PROPERTIES LatestKept
CHECK_DEADLOCK FALSE
