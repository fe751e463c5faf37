SPECIFICATION Spec
CONSTANTS
    NoEnd = NoEnd
    x = x
    y = y
    l = l
    d = d
    n1 = n1
    n2 = n2
    Home = home
    Scopes = {home}
    Authors = {a}
    Tracers = {}
    Reasoners = {}
    Hooks = {}
    g1 = g1
    g2 = g2
    RunOrder <- MCRunOrder
    LegacyLedger <- MCLegacy
    Times = {1}
    Bodies <- UniqueBodies
    Instants = {0, 1}
    Retries = 2
    MaxCommits = 4
    MaxCalls = 2
INVARIANT
    VisibleRecordsUnique
CHECK_DEADLOCK FALSE
