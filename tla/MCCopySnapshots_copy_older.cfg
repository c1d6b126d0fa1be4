CONSTANTS
    Chunk = {"c1", "c2"}
    Downloader = {"d1", "d2"}
    Uploader = {"u1"}
    MaxRevision = 3
    Refs <- MCRefsOlder
    RawModes = {FALSE}
    OlderRevisions = TRUE
    Dormant = FALSE
    MayFail = FALSE
    MaxRuns = 2
SPECIFICATION Spec
INVARIANT CopiedIsReadable
CHECK_DEADLOCK FALSE
