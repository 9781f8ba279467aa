CONSTANTS
    s1 = s1
    Nodes <- TwoNodes
    Coord = 2
    Affected <- TwoNodes
    Sessions <- OneSession
    Coordinators <- Participant
    TTL = 1
    OtherReserved = 1
    MaxLate = 1
    LastSnapshot = 1
    MaxNow = 3
SPECIFICATION WorkerSpec
PROPERTIES CertificateFinal ParticipantsLetGo
CHECK_DEADLOCK FALSE
