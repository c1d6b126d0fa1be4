SPECIFICATION Spec
CONSTANTS
  Chunk = {c1}
  Id = {"a", "b"}
  HostOf <- OwnHosts
  StorageErrors = FALSE
  MaxTime = 2
  MaxRevision <- Revisions
  FastListing = FALSE
  HashModes = {FALSE}
  EndCut = TRUE
  PruneModes <- NormalModes
  Threads = 2
  ExtraTime = 0
  DormantAge = 9
  MaxCollections = 2
  SeededIds = {"a", "b"}
  ActiveIds = {"a", "b"}
  PromptBackups = TRUE
  MaxPending = 1
  PruneKilled = TRUE
  Overlap = {"a", "b"}
INVARIANTS NoChunkLost
CHECK_DEADLOCK FALSE
