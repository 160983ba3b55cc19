CONSTANTS
    Job = {j1, j2}
    Search = {s1}
    Threshold = 2
    Kinds = {"embed", "media", "prune"}
    BatchSize = 2
    Concurrency = 2
    MaxAttempts = 2
    MaxDeferrals = 2
    StoreFails = TRUE
    MaxCrashes = 1

SPECIFICATION FairSpec

INVARIANTS
    TypeOK
    NoOrphans

PROPERTIES
    FinishedStaysFinished
    JobsSettle
