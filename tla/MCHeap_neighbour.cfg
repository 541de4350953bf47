SPECIFICATION Spec
CONSTANTS
    c1 = c1
    c2 = c2
    c3 = c3
    Total = 4
    BlockSize = 4
    Word = 32
    Slack = 3
    Callers <- TwoCallers
    MallocSizes <- AnySizes
    ReallocSizes <- AnySizes
PROPERTY FreesOwnBlocksOnly
