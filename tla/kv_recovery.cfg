SPECIFICATION Spec
CONSTANTS
    k1 = k1
    v1 = v1
    None = None
    NoFile = NoFile
    Key = {k1}
    Value = {v1}
    Name = {ckpt}
    Bundle <- MCBundle
    Faults = {}
    FileSyncPersistsName = TRUE
    MaxBatch = 2
    MaxSeq = 2
    MaxGeneration = 3
    MaxPins = 0
INVARIANTS
    TypeOK
    Recoverable
    CheckpointsIntact
    MemoryMatchesFiles
    AckedSurvives
    RetryNeverRefused
PROPERTIES
    ImplementsDurableStore
CHECK_DEADLOCK FALSE
