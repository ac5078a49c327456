SPECIFICATION FairSpec
CONSTANTS
    Keys = {"a1", "b1"}
    Globs = {}
    MatchPairs <- PairsApart
    NoBroadcastKeys = {"b1"}
    Denied = {}
    NoPatch = TRUE
    ForcePatch = FALSE
    Coarse = FALSE
    Writers = {w1, w2}
    Workers = {v1, v2}
    Conns = {c1}
    Readers = {}
    MaxWrites = 3
    None = None
PROPERTIES
    WriterReturns
    ToldEventually
    DroppedIsClosed
