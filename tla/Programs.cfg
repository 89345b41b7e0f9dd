\* Every program; the timer does not strike between sysfork_return and the use of pid.
CONSTANTS
    MAX_TASKS = 4
    AgingCount = 1
    MaxCount = 2
    WarmUp = 1
    Rounds = 2
    Preempt = FALSE
    Started <- AllPrograms
    AgingPids = {0, 1, 2, 3}
    Priorities <- ProgramPriorities
    States = {}
    Immortal = {}
    OwnChildOnly = FALSE
    Uninit = {7}
SPECIFICATION FairProgramSpec
INVARIANTS DisciplineKept NeverReturns
PROPERTIES BranchRight ChildHasExited ComesToRest
