CONSTANTS
    Members = {"eligible", "operator", "controller"}
    Operators = {"operator"}
    Controllers = {"controller"}
    Reviewers = {"controller"}
    Eligible = {"eligible"}
    Nobody = "nobody"
    Targets = {1}
    Mandates = {1}
    Rules = {1}
    Plans = {1, 2}
    Snapshots = {1}
    Forms = {}
    MaxAvailable = 1
    Maximum = 1
    MaximumEnd = 1
    MaxTime = 1
SPECIFICATION Spec
CHECK_DEADLOCK FALSE
INVARIANT StockGivenOnce
