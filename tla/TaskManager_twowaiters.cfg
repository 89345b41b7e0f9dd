\* As disciplined, but a process may wait for any process.
CONSTANTS
    MAX_TASKS = 3
    AgingCount = 0
    MaxCount = 1
    AgingPids = {}
    Priorities <- EqualPriorities
    States = {0}
    Immortal = {0}
    OwnChildOnly = FALSE
    Uninit = {0}
SPECIFICATION Spec
INVARIANTS WaitersWoken
