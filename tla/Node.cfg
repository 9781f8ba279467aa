SPECIFICATION Spec
INVARIANTS TypeOK HoldsMatchCases RightsBacked PurchaseSettled NodeAccountable SyncAtomic AccessCurrent TokensCurrent PersonsKept NoTwins ClearedByCycles DeliveriesBacked JournalKept
CHECK_DEADLOCK FALSE
