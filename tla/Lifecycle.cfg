SPECIFICATION FairSpec
CONSTANTS
    Workers = 1
    Writers = {w1, w2}
    Closers = {c1, c2}
    MaxStarts = 2
INVARIANTS
    TypeOK
    ActiveIsWhole
    CloseIsComplete
    OnlyLateSendersFail
PROPERTIES
    ClosedIsLeft
    SenderIsAnswered
