CONSTANTS
    p1 = p1
    p2 = p2
    data = data
    prog = prog
    missing = missing
    Procs = {p1, p2}
    Primary = Primary
    NoDrive = NoDrive
    NoFile = NoFile
    PageSize = 4
    PerTable = 4
    Pages <- AddressSpace
    LowPages = 1
    Regions <- MemoryMap
    Slack = 2
    Word = 128
    MinimumBytes = 20
    TableAddress = 12
    HeapAddress = 16
    MaxFd = 3
    Disks <- TwoDisks
    PrimaryDisk = 1
    ProgramPage = 2
    StackPage = 1
    ProgramSize = 4
    StackSize = 4
    MallocSizes = {3, 8}
    ReallocSizes = {0, 4, 8}
    AreaSizes = {8}
    ProgramPath <- Program
    Paths <- SomePaths
    Modes = {"r"}
    MaxRecords = 2
    MaxLoose = 1
SPECIFICATION Spec
SYMMETRY Symmetry
INVARIANTS FramesApart UserMapsOwn HeldUsable HandleFits DescriptorsAccounted
CHECK_DEADLOCK FALSE
