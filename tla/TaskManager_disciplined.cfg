\* The discipline of the programs of kernel.cpp that keep a first process alive.
CONSTANTS
    MAX_TASKS = 3
    AgingCount = 0
    MaxCount = 1
    AgingPids = {}
    Priorities <- TwoPriorities
    States = {0}
    Immortal = {0}
    OwnChildOnly = TRUE
    Uninit = {0}
SPECIFICATION FairSpec
INVARIANTS WaiterRegistered TerminatedForever
PROPERTIES WaitpidSound NoStarvation WaitpidReturnsEventually
