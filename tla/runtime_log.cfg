SPECIFICATION RuntimeSpec
CONSTANTS
    NoEnd = NoEnd
    x = x
    y = y
    l = l
    d = d
    n1 = n1
    n2 = n2
    Home = home
    Scopes = {home, away}
    Authors = {a}
    Tracers = {t}
    Reasoners = {r1, r2}
    Hooks = {h}
    g1 = g1
    g2 = g2
    RunOrder <- MCRunOrder
    LegacyLedger <- MCLegacy
    Times = {1}
    Bodies <- MCBodies
    Instants = {0, 1}
    Retries = 2
    MaxCommits = 3
    MaxCalls = 2
    b1 = b1
    b2 = b2
    e1 = e1
    e2 = e2
SYMMETRY ClientSymmetry
INVARIANTS
    RuntimeSound
    StampReadsExactly
    TraceOnce
    LedgerLinear
    AnswersAreFaithful
    EmbeddingsGrounded
PROPERTIES
    PreviewIsCommit
CHECK_DEADLOCK FALSE
