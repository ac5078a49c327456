SPECIFICATION IoSpec
CONSTANTS
    Keys = {"x1", "x2"}
    Globs = {"xs"}
    MatchPairs <- MCPairs
    NoBroadcastKeys = {"x1"}
    History = {"x1"}
    Limits = {1}
    Ranges <- MCRanges
    PivotStamps <- MCStamps
    h1 = h1
    a1 = a1
    Callers = {h1, a1}
    Handlers = {h1}
    MaxTime = 2
    MaxOps = 4
    NoObj = NoObj
    None = None
    Write <- MCWrite
    Delete <- MCDelete
    Read <- MCRead
    SetKinds = {"item"}
    PivotKinds = {"text"}
    FilterKinds = {"other"}
    After = {"x2"}
    Static = TRUE
INVARIANTS
    IoTyped
    StampsTrue
    PageIsNewest
    AnswerIsTrue
    ReadsOwn
