CONSTANTS
    s1 = s1
    s2 = s2
    Nodes <- ThreeNodes
    Coord = 2
    Affected <- OneAndThree
    Sessions <- OneSession
    TTL = 1
    OtherReserved = 0
    MaxLate = 0
    LastSnapshot = 1
    MaxNow = 2
SPECIFICATION Spec
INVARIANT ReconciledHoldsNothing
CHECK_DEADLOCK FALSE
