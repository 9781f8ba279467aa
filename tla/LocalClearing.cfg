CONSTANTS
    c1 = c1
    c2 = c2
    p1 = p1
    p2 = p2
    Members = {1, 2, 4, 5, 6}
    Deals = {1}
    Obligations = {1, 2}
    Terms <- MutualTerms
    Revisions <- MutualRevisions
    Slots = {1}
    MaxWrites = 5
    MaxNow = 1
    Policies <- TwoPolicies
    Cycles <- OneCycle
    Operators = {4}
    Controllers = {2, 5}
    Finalizers = {5, 6}
    Nobody = 0
    RequiredApprovals = 1
    DisputeWindow = 1
    Netting <- MCNetting
SPECIFICATION Spec
INVARIANTS TypeOK AmountsAccounted DealStatusAgrees BoundByOwnConfirmation BalancesKept DutiesSeparated
PROPERTY ContestedNotCleared
SYMMETRY Symmetry
CHECK_DEADLOCK FALSE
