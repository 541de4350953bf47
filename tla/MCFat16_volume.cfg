SPECIFICATION Spec
CONSTANTS
    boot = boot
    text = text
    longname = longname
    NoFd = NoFd
    fd1 = fd1
    fd2 = fd2
    Unused = Unused
    Deleted = Deleted
    Fds <- MCFds
    Slots <- MCSlots
    Names <- AllNames
    ShortName <- MCShortName
    TotalClusters = 6
    LastCluster = 4
    ClusterSize = 2
    MountFat <- MCMountFat
    MountDir <- MCMountDir
    Modes = {"r", "w", "a"}
    WriteSizes = {3}
    ReadSizes = {2}
    MaxPos = 3
    DriveFails = TRUE
SYMMETRY Symmetry
CONSTRAINT Unspoiled
INVARIANTS
    FilesApart
    ReadStaysInFile
    SizeCovered
PROPERTIES
    OthersUntouched
