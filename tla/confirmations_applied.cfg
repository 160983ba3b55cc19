CONSTANTS
    Request = {r1, r2}
    MaxCrashes = 0

SPECIFICATION Spec

INVARIANTS
    AppliedIsApplied
