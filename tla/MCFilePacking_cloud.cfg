CONSTANTS
  Size <- MCSize
  ChunkSizes <- MCChunkSizes
  TimeStep = 2
  HashModes = {TRUE, FALSE}
  MemoryLimits = {2}
  Denials <- MCDeniedHalfway
  MaxRuns = 3
  MaxChanges = 2
  Threads = 2
SPECIFICATION Spec
INVARIANT ReadsBack
CHECK_DEADLOCK FALSE
