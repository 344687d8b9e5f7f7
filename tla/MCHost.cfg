CONSTANTS
    Programs = {p1, p2}
    Bytes <- MCBytes
    MaxInput = 2
    Outputs <- MCOutputs
    MaxArgs = 2
    MaxWrites = 2
    MaxRuns = 2
    NoFile = NoFile
    Broken = Broken
    NotAString = NotAString
    nullopt = nullopt
    Addresses = {1, 2, 3, 4, 5, 6}
    Blocks = {r, b1, b2}
    RuntimeBlock = r
    WordSize = 16
    MALLOC_OVERHEAD = 1
    MaxSlack = 1
    Sizes = {1, 2, 14}
    Limits = {3, 15}
    Thresholds = {3, 15}
    FirstThreshold = 5
    Objects = {a, b}
    Cells = {v}
    Slots = {1, 2}
    MaxExt = 2
    Nil = Nil
SPECIFICATION HostSpec
INVARIANTS FuzzesTheProgram ConversionsFaithful Accounting HeapSound
PROPERTIES LimitEnforced GCDisabled CollectionComplete ReleasesOnlyGarbage
SYMMETRY Symmetry
CHECK_DEADLOCK FALSE
