CONSTANTS
    Call = {c1, c2, c3, c4}
    Threshold = 3

SPECIFICATION FairSpec

INVARIANTS
    HalfOpenHasProbe
    ClosedBelowThreshold

PROPERTIES
    SelfHeals
