SPECIFICATION Spec
CONSTANTS
    Last = 3
    Bad = {}
    Toxic = {}
    Refused = {}
    Modes = {TRUE}
    MAX_DELIVERIES = 2
    BATCH = 2
    MaxChan = 2
    Kinds = {"barrier"}
    MaxCrashes = 0
    MaxFaults = 1
INVARIANTS SnapshotStandsForAll
CHECK_DEADLOCK FALSE
