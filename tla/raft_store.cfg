SPECIFICATION Spec
CONSTANTS
    NoBinding = NoBinding
    NoSnapshot = NoSnapshot
    Retention = 2
    MaxIndex = 5
    MaxTerm = 2
    MaxBatch = 2
    Histories <- MCHistories
INVARIANTS
    StateIsReplay
    ReapplyPossible
    RequestTakesEffectOnce
    PlacementFencesWork
