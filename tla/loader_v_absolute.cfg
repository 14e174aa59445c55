SPECIFICATION Spec
CONSTANTS
    Files <- AllFiles
    Tree <- InPackage
    Inside <- BelowBase
    Kind <- FileKinds
    Scope <- Owners
    Specs <- Names
    Form <- Syntax
    Candidates <- Ways
    Stubbed = {wanted}
    ForceThrow = FALSE
    MaxBridge = 2
    MaxOps = 4
    Host = host
    main = main
    lib = lib
    bad = bad
    hook = hook
    dep = dep
    gen = gen
    tmp = tmp
    code = code
    toMain = toMain
    toLib = toLib
    toBad = toBad
    toTmp = toTmp
    toDep = toDep
    fs = fs
    axios = axios
    gone = gone
    wanted = wanted
    inner = inner
    byPath = byPath
    root = root
    pkg = pkg
CHECK_DEADLOCK FALSE
INVARIANT AbsoluteLoads
