\* As disciplined, but the first process may exit too, as in forktask_4.
CONSTANTS
    MAX_TASKS = 3
    AgingCount = 0
    MaxCount = 1
    AgingPids = {}
    Priorities <- EqualPriorities
    States = {0}
    Immortal = {}
    OwnChildOnly = TRUE
    Uninit = {0}
SPECIFICATION Spec
INVARIANTS TerminatedForever
