SPECIFICATION UnitsSpec
CONSTANTS
    Nodes = {n1, n2, n3}
    NoNode = NoNode
    MaxFaults = 3
INVARIANTS UnitsTypeOK OneLeader UnitHasOneSupervisor  
  
CHECK_DEADLOCK FALSE
