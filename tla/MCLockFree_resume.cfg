SPECIFICATION Spec
CONSTANTS
  Chunk = {c1}
  Id = {"a", "b"}
  HostOf <- OwnHosts
  StorageErrors = FALSE
  MaxTime = 2
  MaxRevision <- FirstOfOthers
  FastListing = TRUE
  HashModes = {TRUE, FALSE}
  EndCut = FALSE
  PruneModes <- NormalModes
  Threads = 1
  ExtraTime = 0
  DormantAge = 9
  MaxCollections = 2
  SeededIds = {"a"}
  ActiveIds = {"a", "b"}
  PromptBackups = TRUE
  MaxPending = 1
  PruneKilled = TRUE
  Overlap = {"a"}
INVARIANTS NoChunkLost
CHECK_DEADLOCK FALSE
