CONSTANTS
    officer1 = officer1
    officer2 = officer2
    commitment1 = commitment1
    commitment2 = commitment2
SPECIFICATION Spec
INVARIANTS
    TypeOK AidAccounted EmergencyBounded AppealGoverns SharesAccounted
    OneSignalPerSubject FindingsExact OffsetsBalance NothingLeftToOffset NetPositionsKept
SYMMETRY Symmetry
CHECK_DEADLOCK FALSE
