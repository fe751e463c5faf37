SPECIFICATION Spec
CONSTANTS
    k1 = k1
    v1 = v1
    None = None
    NoFile = NoFile
    Key = {k1}
    Value = {v1}
    Name = {}
    Bundle <- NoBundle
    Faults = {"sync", "dirsync", "create"}
    FileSyncPersistsName = TRUE
    MaxBatch = 1
    MaxSeq = 2
    MaxGeneration = 4
    MaxPins = 1
INVARIANTS
    SnapshotsStable
PROPERTY
    StaleManifestNeverPublishes
CHECK_DEADLOCK FALSE
