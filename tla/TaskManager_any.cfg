\* Any program: every system call with every argument.
CONSTANTS
    MAX_TASKS = 3
    AgingCount = 1
    MaxCount = 2
    AgingPids = {1}
    Priorities <- EqualPriorities
    States = {2}
    Immortal = {}
    OwnChildOnly = FALSE
    Uninit = {7}
SPECIFICATION Spec
INVARIANTS TypeOK ProcessTree ForkReturn
PROPERTIES RoundRobinProgress
