SPECIFICATION Spec
CONSTANTS
    Keys = {"a1"}
    Globs = {"as"}
    MatchPairs <- PairsOne
    NoBroadcastKeys = {}
    Denied = {"a1"}
    NoPatch = FALSE
    ForcePatch = FALSE
    Coarse = TRUE
    Writers = {w1}
    Workers = {v1}
    Conns = {c1, c2}
    Readers = {}
    MaxWrites = 2
    None = None
SYMMETRY Interchangeable
INVARIANTS
    ClientHoldsCache
    CleanClientCurrent
    RegisteredWhileServed
