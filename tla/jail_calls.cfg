SPECIFICATION FairJailSpec
CONSTANTS
    ReqLen = 3
    RespLen = 3
    ErrLen = 1
    Capacity = 1
INVARIANTS ReportIsComplete ChildIsReaped
PROPERTIES BothEnd
