CONSTANTS
    m1 = m1
    m2 = m2
    m3 = m3
    None = None
    Msg <- MsgDef
    Size <- SizeDef
    MaxBytes = 2
    Kinds = {"text", "solo", "compact", "command"}
    FailSites = {}
    MicrotaskLag = 0

SPECIFICATION Spec

INVARIANTS
    OneAgentLoop
