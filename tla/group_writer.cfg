SPECIFICATION WriterSpec
CONSTANTS
    Client = {c1, c2}
    Owner = owner
    MaxPerBatch = 2
    QueueCapacity = 3
    MaxClaims = 4
    a1 = a1
    a2 = a2
    a3 = a3
INVARIANTS
    FlushIsDurable
    AcceptedInOrder
    NoLostWakeup
    EveryWriteKept
PROPERTIES
    CallsReturn
    ClaimsSettle
    MigrationSettles
CHECK_DEADLOCK FALSE
