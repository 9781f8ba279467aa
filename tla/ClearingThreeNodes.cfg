CONSTANTS
    s1 = s1
    s2 = s2
    Nodes <- ThreeNodes
    Coord = 2
    Affected <- OneAndTwo
    Sessions <- OneSession
    TTL = 2
    OtherReserved = 1
    MaxLate = 1
    LastSnapshot = 1
    MaxNow = 2
SPECIFICATION Spec
INVARIANTS TypeOK ApplyNeedsEveryApproval ReconciledMeansApplied
PROPERTY ImplementsContract
CHECK_DEADLOCK FALSE
