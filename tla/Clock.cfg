SPECIFICATION FairSpec
CONSTANTS
    Conns = {c1, c2}
    MaxTime = 3
INVARIANTS
    EventsPaired
    TimeGoesOn
PROPERTY HearsTicks
