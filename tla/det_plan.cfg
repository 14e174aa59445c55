SPECIFICATION FairSpec
CONSTANTS
    Roles = {"alone", "main", "worker"}
    Root = root
    Deps <- TwoDeps
    DevDeps = {tool}
    Files <- TwoFiles
    Entry = index
    DropperCatch <- Catching
    Explore = TRUE
    Delays = {0, 5}
    MaxTimers = 2
    MaxExits = 1
    MaxPending = 2
    ActsPerFrame = 1
    dep = dep
    tool = tool
    index = index
    lib = lib
INVARIANTS AmbientOK GenuineIsHeard ExclusionsHold
PROPERTIES Ends
