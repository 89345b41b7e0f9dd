---------------------------- MODULE MCScheduleLoop ----------------------------
(* ScheduleLoop for TLC.                                                    *)
EXTENDS ScheduleLoop

\* The default of fork, two ordinary levels, and the first that is never taken.
MCLevels == {-1, 1, 254, 255}
===============================================================================
