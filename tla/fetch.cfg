SPECIFICATION Spec
CONSTANTS
    Workers = {w1, w2}
    Published <- Versions
    Tagged <- Tags
    Spelled <- Texts
    Characters <- Signs
    WordChars <- Flat
    Worlds <- AllWorlds
    Entries <- Pool
    MaxTarball = 4
    PackageDir <- Dir
    PackageJson <- Json
    MaxEntries = 3
    MaxBytes = 4
    MaxAsks = 2
CHECK_DEADLOCK FALSE
INVARIANTS LoadedIsAsked ResolvesToHighest ExtractionIsExact
