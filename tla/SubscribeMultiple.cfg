SPECIFICATION FairSpec
CONSTANTS
    Paths = {p1, p2}
    Buffer = 2
    MaxMessages = 3
INVARIANTS
    TypeOK
    NoneLost
PROPERTIES
    ToldOnce
    Delivered
    NobodyHangs
