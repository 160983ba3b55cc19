CONSTANTS
    m1 = m1
    m2 = m2
    m3 = m3
    None = None
    Msg <- MsgDef
    Size <- SizeDef
    MaxBytes = 2
    Kinds = {"text", "compact", "command"}
    FailSites = {"command", "drain", "tail"}
    MicrotaskLag = 0

SPECIFICATION FairSpec

INVARIANTS
    AnsweredAtMostOnce
    InOnePlace
    NothingStranded

PROPERTIES
    SentIsResolved
