CONSTANTS
    s1 = s1
    s2 = s2
    Nodes <- TwoNodes
    Coord = 1
    Affected <- OneAndTwo
    Sessions <- TwoSessions
    TTL = 1
    OtherReserved = 0
    MaxLate = 0
    LastSnapshot = 1
    MaxNow = 2
SPECIFICATION Spec
INVARIANTS PreparedExposureExact NoOrphanedHold
PROPERTIES CertificateFinal OutcomeFinal
SYMMETRY SessionSymmetry
CHECK_DEADLOCK FALSE
