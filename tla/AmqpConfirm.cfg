SPECIFICATION Spec
CONSTANTS
    Procs = {1}
    MaxMsg = 2
    MaxBatch = 1
    MaxEvents = 2
INVARIANTS AckedIsStored
CHECK_DEADLOCK FALSE
