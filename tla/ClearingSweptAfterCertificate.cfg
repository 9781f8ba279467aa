CONSTANTS
    s1 = s1
    s2 = s2
    Nodes <- TwoNodes
    Coord = 1
    Affected <- OneAndTwo
    Sessions <- OneSession
    TTL = 1
    OtherReserved = 0
    MaxLate = 0
    LastSnapshot = 1
    MaxNow = 2
SPECIFICATION Spec
INVARIANT CertifiedIsNotReleased
CHECK_DEADLOCK FALSE
