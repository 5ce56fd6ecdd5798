SPECIFICATION Spec
CONSTANTS
    Callers = {1, 2}
    Refs = {"r", "s"}
    Unit = "r"
    MaxEvents = 0
INVARIANTS GetNeverTorn
CHECK_DEADLOCK FALSE
