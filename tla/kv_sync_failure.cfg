SPECIFICATION Spec
CONSTANTS
    k1 = k1
    v1 = v1
    None = None
    NoFile = NoFile
    Key = {k1}
    Value = {v1}
    Name = {ckpt}
    Bundle <- MCBundle
    Faults = {"sync"}
    FileSyncPersistsName = TRUE
    MaxBatch = 1
    MaxSeq = 2
    MaxGeneration = 3
    MaxPins = 0
INVARIANT
    AckedSurvives
CHECK_DEADLOCK FALSE
