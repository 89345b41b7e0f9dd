CONSTANTS
    MaxTasks = 3
    Levels <- MCLevels
SPECIFICATION FairSpec
INVARIANTS LoopPicks
PROPERTIES LoopAdvances LoopEnds
CHECK_DEADLOCK FALSE
