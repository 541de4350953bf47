SPECIFICATION Spec
CONSTANTS
    SectorSize = 4
    DriveSectors = 6
    starting_lba = 1
    ending_lba = 4
    ReadRequests <- NonemptyRequests
    WriteRequests <- NonemptyRequests
    DriveFails = FALSE
INVARIANT OnlyRequested
