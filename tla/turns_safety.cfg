CONSTANTS
    m1 = m1
    m2 = m2
    m3 = m3
    None = None
    Msg <- MsgDef
    Size <- SizeDef
    MaxBytes = 2
    Kinds = {"text", "solo", "compact"}
    FailSites = {"post", "drain", "tail", "compact"}
    MicrotaskLag = 1

SPECIFICATION Spec

INVARIANTS
    BudgetKept
    OneOwner
    AnsweredExactlyOnce

PROPERTIES
    AbortsAreHonoured
    ImplementsPromise
