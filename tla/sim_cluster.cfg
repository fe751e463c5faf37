SPECIFICATION ClusterSpec
CONSTANTS
    Voter = {a, b, c}
    Leader = a
    Command = {x, y}
    MaxIndex = 2
    MaxInFlight = 3
SYMMETRY SimSymmetry
INVARIANTS
    VerifySafety
    CallsAreGenuine
    RepliesTakeHold
