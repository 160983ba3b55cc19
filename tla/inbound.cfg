SPECIFICATION FairSpec
CONSTANTS
    m1 = m1
    m2 = m2
    c1 = c1
    Chat = {c1}
    Message <- MCMessage
    ChatOf <- MCChatOf
    Kinds <- MCKinds
    Sweep = Sweep
    NoMessage = NoMessage
    MaxAttempts = 3
    MaxSegments = 2
    MaxSends = 2
    MaxReplays = 2
    MaxCrashes = 2
INVARIANTS
    OneOwner
    AnsweredOnce
    OnlyChatRuns
    CodeIsUsedOnceAndTold
PROPERTY
    EverythingSettles
CHECK_DEADLOCK FALSE
