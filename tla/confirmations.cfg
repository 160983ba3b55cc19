CONSTANTS
    Request = {r1, r2, r3}
    MaxCrashes = 1

SPECIFICATION FairSpec

INVARIANTS
    ViewsAgree

PROPERTIES
    DecisionReachesTheWaiter
    FirstDecisionStands
    RequestsClose
