CONSTANTS
    Schedule = {s1, s2}
    None = None
    Modes = {"message", "notify"}
    ByHand = {s1}
    MaxCrashes = 1

SPECIFICATION FairSpec

INVARIANTS
    TypeOK
    FiringIsHeld
    RunsAreClosed

PROPERTIES
    CancelledNeverRuns
    DueOneShotFires
