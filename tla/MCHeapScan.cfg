SPECIFICATION ScanSpec
CONSTANTS
    Total = 6
    BlockSize = 4
    Slack = 0
    ENOMEM = 1
INVARIANTS
    FirstFit
PROPERTIES
    Terminates
CHECK_DEADLOCK FALSE
