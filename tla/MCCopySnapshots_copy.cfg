CONSTANTS
    Chunk = {"c1", "c2"}
    Downloader = {"d1", "d2"}
    Uploader = {"u1"}
    MaxRevision = 3
    Refs <- MCRefs
    RawModes = {TRUE, FALSE}
    OlderRevisions = FALSE
    Dormant = FALSE
    MayFail = TRUE
    MaxRuns = 2
SPECIFICATION Spec
INVARIANTS CopiedIsReadable CopiedIsIntact SnapshotsLast
PROPERTY CopyEnds
CHECK_DEADLOCK FALSE
