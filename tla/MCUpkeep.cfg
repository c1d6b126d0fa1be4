SPECIFICATION Spec
CONSTANTS
  DataShards = 2
  ParityShards = 1
  Arm64 = TRUE
  Chunk = {c1}
  Reader = {r1, r2}
  Damaged <- MCDamaged
  Givens <- MCGivens
  MaxFaults = 3
  MaxRevision = 3
  MaxVersion = 4
  Exclusive = FALSE
  PolicyLists <- MCPolicyLists
  MaxTime = 16
  Daily = TRUE
  Worker = {w1, w2, w3}
  MaxSnapshots = 4
  Directories <- MCDirectories
  Roots <- MCRoots
  Entries <- MCEntries
  Threads = 3
INVARIANTS ReadableIsRead CachedIsCurrent RetentionCovers LogIsSerial ListingWhole
PROPERTY RewriteKeeps
