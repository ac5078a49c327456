SPECIFICATION FairSpec
CONSTANTS
    MaxDials = 2
    MaxMessages = 1
PROPERTY CancelEnds
