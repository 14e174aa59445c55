SPECIFICATION FairSpec
CONSTANTS
    Package = {app, gitdep, pinned, odd}
    Remote = {gitdep}
    Direct <- Declares
    Requires <- NoRequires
    Locked = {pinned}
    Divergent = {odd}
    PoolSize = 2
    CommandLines <- Typed
    MaxVersion = 1
    app = app
    gitdep = gitdep
    pinned = pinned
    odd = odd
INVARIANTS DecisionIsJustified ScanIsComplete LandedWasScanned
PROPERTIES Decides
