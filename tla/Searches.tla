------------------------------ MODULE Searches -------------------------------
(***************************************************************************)
(* binarySearch and linearSearch, which two of the worker programs of        *)
(* kernel.cpp compute with: a round of each loop is a step.                  *)
(***************************************************************************)
EXTENDS Integers

CONSTANTS
    Lengths,    \* the lengths of the arrays searched
    Elements,   \* what they hold
    Wanted      \* what is searched for

ASSUME SearchesAssumption == Lengths \subseteq Nat /\ Elements \subseteq Int /\ Wanted \subseteq Int

VARIABLES
    arr, n, key,    \* the arguments of both searches
    bounds, i,      \* the loop variables: low and high, and i
    found           \* the result of each search, or Running

searchVars == <<arr, n, key, bounds, i, found>>

Running == -2

SearchInit ==
    /\ n \in Lengths /\ arr \in [0 .. n - 1 -> Elements] /\ key \in Wanted
    /\ bounds = [low |-> 0, high |-> n - 1]
    /\ i = 0
    /\ found = [binary |-> Running, linear |-> Running]

-----------------------------------------------------------------------------
\* Mutant: the loop stops with one element left.
LoopGoesOnStrict == bounds.low < bounds.high

LoopGoesOn == bounds.low <= bounds.high

Middle == bounds.low + ((bounds.high - bounds.low) \div 2)

binarySearch ==
    /\ found.binary = Running
    /\ \/ /\ LoopGoesOn /\ arr[Middle] = key
          /\ found' = [found EXCEPT !.binary = Middle]
          /\ UNCHANGED bounds
       \/ /\ LoopGoesOn /\ arr[Middle] < key
          /\ bounds' = [bounds EXCEPT !.low = Middle + 1]
          /\ UNCHANGED found
       \/ /\ LoopGoesOn /\ arr[Middle] > key
          /\ bounds' = [bounds EXCEPT !.high = Middle - 1]
          /\ UNCHANGED found
       \/ /\ ~LoopGoesOn
          /\ found' = [found EXCEPT !.binary = -1]
          /\ UNCHANGED bounds
    /\ UNCHANGED <<arr, n, key, i>>

linearSearch ==
    /\ found.linear = Running
    /\ \/ /\ i < n /\ arr[i] = key
          /\ found' = [found EXCEPT !.linear = i]
          /\ UNCHANGED i
       \/ /\ i < n /\ arr[i] # key
          /\ i' = i + 1
          /\ UNCHANGED found
       \/ /\ i >= n
          /\ found' = [found EXCEPT !.linear = -1]
          /\ UNCHANGED i
    /\ UNCHANGED <<arr, n, key, bounds>>

Searched == Running \notin {found.binary, found.linear} /\ UNCHANGED searchVars

SearchNext == binarySearch \/ linearSearch \/ Searched

SearchSpec == SearchInit /\ [][SearchNext]_searchVars

-----------------------------------------------------------------------------
Places == {j \in 0 .. n - 1 : arr[j] = key}

Sorted == \A j, k \in 0 .. n - 1 : j <= k => arr[j] <= arr[k]

\* Neither search passes over what it looks for: while it runs, every place of the key
\* is still ahead of it, and in the end it has found a place (the linear search the
\* first one) or there is none.  The binary search needs a sorted array for that.
SearchesFind ==
    /\ Sorted /\ found.binary = Running =>
          \A j \in Places : bounds.low <= j /\ j <= bounds.high
    /\ Sorted /\ found.binary # Running =>
          found.binary \in IF Places = {} THEN {-1} ELSE Places
    /\ found.linear = Running => \A j \in Places : i <= j
    /\ found.linear # Running =>
          IF Places = {} THEN found.linear = -1
          ELSE found.linear \in Places /\ \A j \in Places : found.linear <= j
==============================================================================
