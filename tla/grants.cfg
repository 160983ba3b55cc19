CONSTANTS
    Call = {1, 2, 3}
    Request = {r1, r2}
    Tool = {"read", "write"}
    ToolOf <- MCToolOf
    None = None
    MaxCrashes = 1

SPECIFICATION FairSpec
CHECK_DEADLOCK FALSE

INVARIANTS
    UsedAsApproved
    AskingIsSound

PROPERTIES
    ApprovedInTimeRuns
    ApprovalYieldsGrant
