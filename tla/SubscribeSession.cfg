SPECIFICATION SessionFairSpec
CONSTANTS
    MaxDials = 2
    MaxMessages = 3
    MaxWrites = 2
    Foreign = {1}
    Nothing = Nothing
    Garbage = Garbage
INVARIANTS
    PatchesFit
    CaughtUp
    OpenIsCurrent
    CloserMissesNone
PROPERTIES
    NeverGoesBack
    CatchesUp
    CloserComes
    ClosedReaderEnds
