SPECIFICATION Spec
CONSTANTS
    MaxTasks = 9
    MaxLive = 3
    MaxLiveAfterMishap = 2
    Mishaps <- AllMishaps
INVARIANTS
    ListWellFormed
    TableExact
    CurrentTaskRuns
    SavedRegistersOwn
    CurrentTaskAlive
PROPERTIES
    ExitReturnsToInvoker
CHECK_DEADLOCK FALSE
