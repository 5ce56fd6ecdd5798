SPECIFICATION Spec
CONSTANTS
    Records = 3
    Junk = {}
    PIPE = 1
    CHANNEL = 2
    StreamFaults = {"publish"}
    MaxFaults = 1
INVARIANTS ZeroGap
CHECK_DEADLOCK FALSE
