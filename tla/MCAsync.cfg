CONSTANTS
    MaxItems = 3
    MaxRequests = 4
    MaxAwaits = 3
    ThenGetter = TRUE
    MaxAfAwaits = 3
    MaxGenDepth = 3
    MaxGenSteps = 5
    Mods = {1, 2, 3}
    MdGraphs <- MCGraphs
    MaxImports = 2
    Agents = {"a1", "a2", "a3"}
    Addrs = {"p", "q"}
    AtMaxOps = 3
    Spurious = TRUE
SPECIFICATION AsyncSpec
INVARIANTS AllCounted RequestsInOrder AgSound AfSound GenSound MdSound AtSound
PROPERTIES AsyncProgress
CHECK_DEADLOCK FALSE
