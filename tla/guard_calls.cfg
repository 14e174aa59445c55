SPECIFICATION FairSpec
CONSTANTS
    MaxDepth = 3
    MaxCalls = 4
    Kinds = {"guarded", "pump", "construct", "get"}
INVARIANTS BudgetHolds TimeoutHolds
PROPERTIES GuardedCallsReturn
