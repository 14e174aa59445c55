SPECIFICATION FairSpec
CONSTANTS
    MaxDepth = 1
    MaxCalls = 2
    Kinds = {"guarded", "get"}
PROPERTIES EntryReturns
