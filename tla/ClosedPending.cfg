CONSTANTS
    c1 = c1
    c2 = c2
    p1 = p1
    p2 = p2
    Members = {1, 2, 4, 5, 6}
    Deals = {1}
    Obligations = {1, 2}
    Terms <- LargerTerms
    Revisions <- LargerRevisions
    Slots = {1, 2}
    MaxWrites = 7
    MaxNow = 0
    Policies <- OnePolicy
    Cycles <- OneCycle
    Operators = {4}
    Controllers = {2, 5}
    Finalizers = {5, 6}
    Nobody = 0
    RequiredApprovals = 1
    DisputeWindow = 0
    Netting <- MCNetting
SPECIFICATION Spec
CHECK_DEADLOCK FALSE
PROPERTY ClosedWithNothingPending
