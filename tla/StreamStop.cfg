SPECIFICATION FairSpec
CONSTANTS
    Records = 4
    Junk = {}
    PIPE = 1
    CHANNEL = 1
    StreamFaults = {"stop"}
    MaxFaults = 1
PROPERTIES RunReturns
CHECK_DEADLOCK FALSE
