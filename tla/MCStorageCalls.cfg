CONSTANTS
    Backends <- MCBackends
    AttemptCap = 2
    MaxVersions = 4
    OtherOps = {"upload", "collect", "resurrect"}
SPECIFICATION Spec
INVARIANTS UploadedIsStored MovedIsThere AbsentIsTrue ListComplete
PROPERTIES ContentKept CallEnds
