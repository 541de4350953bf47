SPECIFICATION Spec
CONSTANTS
    p1 = p1
    p2 = p2
    Procs <- TwoProcs
    Size = 3
    MaxUnread = 3
    MaxTyped = 4
INVARIANTS
    TypeOK
    CellsInUse
PROPERTIES
    IsKeyQueue
