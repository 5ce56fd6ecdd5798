SPECIFICATION Spec
CONSTANTS
    Callers = {"c1", "c2"}
    MaxHandles = 3
    MaxEdits = 1
    MaxFailures = 1
INVARIANTS OneSupervisor
CHECK_DEADLOCK FALSE
