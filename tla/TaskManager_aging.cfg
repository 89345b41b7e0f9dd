\* As disciplined, with set_aging and a process that asks for a low priority.
CONSTANTS
    MAX_TASKS = 2
    AgingCount = 2
    MaxCount = 3
    AgingPids = {0, 1}
    Priorities <- TwoPriorities
    States = {0}
    Immortal = {0}
    OwnChildOnly = TRUE
    Uninit = {0}
SPECIFICATION FairSpec
PROPERTIES AgingPreventsStarvation
