\* The timer strikes anywhere, also while the shared pid is being used.
CONSTANTS
    MAX_TASKS = 4
    AgingCount = 1
    MaxCount = 2
    WarmUp = 1
    Rounds = 2
    Preempt = TRUE
    Started <- Commented
    AgingPids = {0, 1, 2, 3}
    Priorities <- ProgramPriorities
    States = {}
    Immortal = {}
    OwnChildOnly = FALSE
    Uninit = {7}
SPECIFICATION ProgramSpec
PROPERTY BranchRight
