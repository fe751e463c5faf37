\* The native engine: append_batch stores claims in the index, a commit keys.
SPECIFICATION Spec
CONSTANTS
    Pairs = {p1}
    Ranks = {1, 2}
    Objects = {o1, o2}
    AppendForm = "claim"
    CommitForm = "key"
    CommitKeysReused = TRUE
    Tampering = FALSE
    NoStamp = NoStamp
    NoTask = NoTask
    MaxClaims = 3
    MaxBatch = 2
    MaxBuffered = 2
SYMMETRY Symmetry
INVARIANT OnlyDriftDiverges
CHECK_DEADLOCK FALSE
