SPECIFICATION FairSpec
CONSTANTS
    Eager = {TRUE}
    MaxMsg = 1
    MaxEvents = 1
PROPERTY EveryMessageArrives
CHECK_DEADLOCK FALSE
