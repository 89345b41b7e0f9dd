----------------------------- MODULE MCPrograms -----------------------------
(* Programs for TLC.                                                        *)
EXTENDS Programs

AllPrograms == DOMAIN Code \ {"worker", "forever"}

\* The program whose branches carry the comments "child" and "parent".
Commented == {"partA_strategy_waitpid"}
==============================================================================
