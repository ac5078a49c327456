SPECIFICATION Spec
CONSTANTS
    Keys = {"a1"}
    Globs = {}
    MatchPairs <- PairsKey
    NoBroadcastKeys = {}
    Denied = {}
    NoPatch = TRUE
    ForcePatch = FALSE
    Coarse = FALSE
    Writers = {w1}
    Workers = {v1}
    Conns = {c1}
    Readers = {}
    MaxWrites = 1
    None = None
INVARIANT Reflected
