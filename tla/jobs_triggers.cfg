CONSTANTS
    Job = {j1, j2, j3}
    Search = {}
    Threshold = 2
    Kinds = {"extract", "now", "later", "legacy"}
    BatchSize = 2
    Concurrency = 2
    MaxAttempts = 2
    MaxDeferrals = 2
    StoreFails = FALSE
    MaxCrashes = 1

SPECIFICATION Spec
SYMMETRY JobSymmetry

INVARIANTS
    NoTriggerLost

PROPERTIES
    ImmediateNotPostponed
