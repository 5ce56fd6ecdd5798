SPECIFICATION FlowSpec
CONSTANTS
    s1 = s1
    s2 = s2
    m1 = m1
    m2 = m2
    Sups = {s1}
    Msgs = {m1, m2}
    Bad = {m2}
    Parts = {1}
    MAX_DELIVERIES = 2
    PULL_BATCH = 2
    MaxFaults = 1
INVARIANTS FlowTypeOK NothingLost DeadOnlyAtCap
PROPERTIES ImplementsAtLeastOnce FlowSettles
CHECK_DEADLOCK FALSE
