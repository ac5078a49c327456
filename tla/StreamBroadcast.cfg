SPECIFICATION Spec
CONSTANTS
    Keys = {"a1", "a2"}
    Globs = {"as", "s2"}
    MatchPairs <- PairsCrossed
    NoBroadcastKeys = {}
    Denied = {"a2"}
    NoPatch = FALSE
    ForcePatch = FALSE
    Coarse = FALSE
    Writers = {w1, w2}
    Workers = {v1, v2}
    Conns = {}
    Readers = {r1}
    MaxWrites = 2
    None = None
SYMMETRY Interchangeable
INVARIANTS
    TypeOK
    NoLostUpdate
    ToldIsCurrent
PROPERTIES
    NoStaleBroadcast
    ImplementsBus
