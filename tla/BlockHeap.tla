------------------------------ MODULE BlockHeap ------------------------------
(***************************************************************************)
(* What the heap promises to its callers: malloc hands out a block that     *)
(* lies in the heap and overlaps no block handed out before and not yet     *)
(* freed, or refuses.  held maps the address of every such block to the     *)
(* number of bytes its caller asked for.                                    *)
(***************************************************************************)
EXTENDS Integers

CONSTANTS Low, High, Requests   \* the heap is Low .. High - 1

VARIABLE held

Init == held = [p \in {} |-> 0]

Apart(p, n, q, m) == p + n <= q \/ q + m <= p

\* A block of n bytes at p; refusing a request leaves held alone.
Malloc(p, n) ==
    /\ Low <= p /\ p + n <= High
    /\ p \notin DOMAIN held
    /\ \A q \in DOMAIN held : Apart(p, n, q, held[q])
    /\ held' = [q \in DOMAIN held \cup {p} |-> IF q = p THEN n ELSE held[q]]

Free(p) == held' = [q \in DOMAIN held \ {p} |-> held[q]]

Next ==
    \/ \E p \in Low .. High, n \in Requests : Malloc(p, n)
    \/ \E p \in DOMAIN held : Free(p)

Spec == Init /\ [][Next]_held
==============================================================================
