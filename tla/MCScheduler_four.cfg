SPECIFICATION Spec
CONSTANTS
    MaxTasks = 6
    MaxLive = 4
    MaxLiveAfterMishap = 4
    Mishaps <- NoMishaps
INVARIANT CurrentTaskRuns
CHECK_DEADLOCK FALSE
