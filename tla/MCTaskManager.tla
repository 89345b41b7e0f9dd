---------------------------- MODULE MCTaskManager ----------------------------
(* TaskManager for TLC: the constants that a .cfg file cannot write.        *)
EXTENDS TaskManager

\* A level the scheduler never takes, next to -1 and the 1 of aging.
AnyPriorities == {255}

\* A lower level beside the -1 that fork and AddTask leave.
TwoPriorities == {3}

\* Nobody calls set_priority: every process keeps the -1 it was created with.
EqualPriorities == {}
==============================================================================
