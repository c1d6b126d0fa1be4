CONSTANTS
  Size <- MCSize
  ChunkSizes <- MCChunkSizes
  TimeStep = 2
  HashModes = {TRUE, FALSE}
  MemoryLimits = {2}
  Denials <- MCDeniedAtOnce
  MaxRuns = 3
  MaxChanges = 2
  Threads = 2
SPECIFICATION Spec
INVARIANTS ReadsBack ListIsRight RestoresInPlace
PROPERTY ResumeKeeps
CHECK_DEADLOCK FALSE
