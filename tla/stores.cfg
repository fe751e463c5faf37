\* The native engine: append_batch stores claims in the index, a commit keys.
SPECIFICATION StoresSpec
CONSTANTS
    Pairs = {p1}
    Ranks = {1, 2}
    Objects = {o1, o2}
    AppendForm = "claim"
    CommitForm = "key"
    CommitKeysReused = FALSE
    Tampering = TRUE
    NoStamp = NoStamp
    NoTask = NoTask
    MaxClaims = 3
    MaxBatch = 2
    MaxBuffered = 2
    NoEnd = NoEnd
    w1 = w1
    w2 = w2
    r1 = r1
    r2 = r2
SYMMETRY Symmetry
INVARIANTS
    ProjectionIsNewest
    OnlyDriftDiverges
    EnginesAgree
    ResolvesWhatHolds
    ReferencesResolve
    LeaseProtectsHistory
    ReadsExact
    CacheStaysBounded
    BundlesTruthful
PROPERTIES
    QuarantineSticks
CHECK_DEADLOCK FALSE
