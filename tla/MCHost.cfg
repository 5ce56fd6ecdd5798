SPECIFICATION HostSpec
CONSTANTS
    n1 = n1  n2 = n2  q1 = q1  q2 = q2  l1 = l1  l2 = l2
    Nodes = {n1, n2}
    Reqs = {q1, q2}
    HomeOf <- HomeIs
    LitsOf <- LitsAre
    Lits = {l1, l2}
    MaxRev = 1
    MaxEvents = 3
    Props = {1}
INVARIANTS HostTypeOK GovernedOnly   
    EngineKeepsFaith  TextIsAsRead
PROPERTIES ChangesAddUp 
CHECK_DEADLOCK FALSE
