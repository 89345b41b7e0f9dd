---------------------------- MODULE MemoryManager ----------------------------
(***************************************************************************)
(* The kernel heap of source/src/memorymanagement.cpp: a doubly linked list *)
(* of chunk headers inside the memory it manages.  heap maps the address of *)
(* every header in the list to its fields; a header that was merged away is *)
(* ordinary memory again.  The walk of malloc is one step per chunk; free   *)
(* is one step.  operator new and operator delete only call them.           *)
(*                                                                          *)
(* Callers free each block once, with the pointer malloc gave them: free    *)
(* checks nothing.  No sum here leaves the 32 bits of size_t: the last one  *)
(* malloc forms, size + sizeof(MemoryChunk) + 1, is formed only for a size  *)
(* below that of a chunk of the heap.                                       *)
(***************************************************************************)
EXTENDS Integers

CONSTANTS
    Start, Size,    \* the arguments of the constructor
    Header,         \* sizeof(MemoryChunk), 16 in the code
    Requests        \* the arguments of malloc

ASSUME HeapAssumption ==
    /\ Start \in Nat \ {0}
    /\ Size \in Nat
    /\ Header \in Nat \ {0}
    /\ Requests \subseteq Nat

VARIABLES
    heap,       \* address of a header |-> its fields
    pc,         \* "idle", or "scan" inside the loop of malloc
    request,    \* the size malloc was asked for
    chunk,      \* the cursor of the loop of malloc
    held        \* pointers given out and not yet freed |-> size asked for

vars == <<heap, pc, request, chunk, held>>

null == 0
Limit == Start + Size
Addresses == Start .. Limit - 1

Chunk == [next : Addresses \cup {null}, prev : Addresses \cup {null},
          allocated : BOOLEAN, size : Nat]

\* The list starts with one free chunk, or is empty when the memory is too small.
first == IF Size < Header THEN null ELSE Start

Init ==
    /\ heap = [a \in {first} \ {null} |->
                  [next |-> null, prev |-> null, allocated |-> FALSE,
                   size |-> Size - Header]]
    /\ pc = "idle"
    /\ request = 0
    /\ chunk = null
    /\ held = [p \in {} |-> 0]

-----------------------------------------------------------------------------
(* malloc                                                                   *)

\* Mutant: the walk leaves out the first chunk.
malloc_skipping(n) ==
    /\ pc = "idle"
    /\ pc' = "scan"
    /\ request' = n
    /\ chunk' = IF first = null THEN null ELSE heap[first].next
    /\ UNCHANGED <<heap, held>>

malloc(n) ==
    /\ pc = "idle"
    /\ pc' = "scan"
    /\ request' = n
    /\ chunk' = first
    /\ UNCHANGED <<heap, held>>

\* Mutant: the flag of the chunk is not looked at.
FitsAllocated(a, n) == heap[a].size > n

Fits(a, n) == heap[a].size > n /\ ~heap[a].allocated

\* Mutant: an allocated chunk is tested again instead of its successor.
MallocSkipStay ==
    /\ pc = "scan"
    /\ chunk # null
    /\ ~Fits(chunk, request)
    /\ chunk' = IF heap[chunk].allocated THEN chunk ELSE heap[chunk].next
    /\ UNCHANGED <<heap, pc, request, held>>

MallocSkip ==
    /\ pc = "scan"
    /\ chunk # null
    /\ ~Fits(chunk, request)
    /\ chunk' = heap[chunk].next
    /\ UNCHANGED <<heap, pc, request, held>>

\* if(x != 0) x->prev = p
SetPrev(h, x, p) == IF x # null THEN [h EXCEPT ![x].prev = p] ELSE h

\* Mutant: the chunk behind the new one keeps its old prev.
SplitNoBackLink(h, r, n) ==
    LET temp == r + Header + n
        fresh == [next |-> h[r].next, prev |-> r, allocated |-> FALSE,
                  size |-> h[r].size - n - Header]
        grown == [a \in DOMAIN h \cup {temp} |-> IF a = temp THEN fresh ELSE h[a]]
    IN  [grown EXCEPT ![r].size = n, ![r].next = temp]

\* The rest of chunk r behind n bytes becomes a free chunk of its own.
Split(h, r, n) ==
    LET temp == r + Header + n
        fresh == [next |-> h[r].next, prev |-> r, allocated |-> FALSE,
                  size |-> h[r].size - n - Header]
        grown == [a \in DOMAIN h \cup {temp} |-> IF a = temp THEN fresh ELSE h[a]]
    IN  [SetPrev(grown, h[r].next, temp) EXCEPT ![r].size = n, ![r].next = temp]

WorthSplitting(r, n) == heap[r].size >= n + Header + 1

MallocTake ==
    /\ pc = "scan"
    /\ chunk # null
    /\ Fits(chunk, request)
    /\ LET h == IF WorthSplitting(chunk, request)
                THEN Split(heap, chunk, request) ELSE heap
       IN  heap' = [h EXCEPT ![chunk].allocated = TRUE]
    /\ held' = [p \in DOMAIN held \cup {chunk + Header} |->
                   IF p = chunk + Header THEN request ELSE held[p]]
    /\ pc' = "idle"
    /\ chunk' = null
    /\ UNCHANGED request

\* The walk has come to the end of the list: malloc returns 0.
MallocRefuse ==
    /\ pc = "scan"
    /\ chunk = null
    /\ pc' = "idle"
    /\ UNCHANGED <<heap, request, chunk, held>>

-----------------------------------------------------------------------------
(* free                                                                     *)

\* Chunk x, the successor of p, becomes part of p.
Absorb(h, p, x) ==
    LET bigger == [h EXCEPT ![p].next = h[x].next,
                            ![p].size = @ + h[x].size + Header]
        linked == SetPrev(bigger, h[x].next, p)
    IN  [a \in DOMAIN h \ {x} |-> linked[a]]

\* Mutant: nothing is merged with the free chunk before it.
MergePrevNever(h, c) == h

MergePrev(h, c) ==
    IF h[c].prev # null /\ ~h[h[c].prev].allocated
    THEN Absorb(h, h[c].prev, c) ELSE h

MergeNext(h, c) ==
    IF h[c].next # null /\ ~h[h[c].next].allocated
    THEN Absorb(h, c, h[c].next) ELSE h

free(ptr) ==
    LET c == ptr - Header
        h == [heap EXCEPT ![c].allocated = FALSE]
        merged == MergePrev(h, c)
        \* chunk = chunk->prev when the chunk has become part of it
        c2 == IF c \in DOMAIN merged THEN c ELSE h[c].prev
    IN  /\ pc = "idle"
        /\ heap' = MergeNext(merged, c2)
        /\ held' = [p \in DOMAIN held \ {ptr} |-> held[p]]
        /\ UNCHANGED <<pc, request, chunk>>

Next ==
    \/ \E n \in Requests : malloc(n)
    \/ MallocSkip
    \/ MallocTake
    \/ MallocRefuse
    \/ \E p \in DOMAIN held : free(p)

Spec == Init /\ [][Next]_vars

\* malloc is ordinary code: once called, its loop goes on.
FairSpec == Spec /\ WF_vars(MallocSkip \/ MallocTake \/ MallocRefuse)

-----------------------------------------------------------------------------
\* The address behind chunk a of h.
End(h, a) == a + Header + h[a].size

\* The chunks tile the heap: each ends where its successor begins, the last one
\* at the end of the memory, and prev undoes next.
Tiled(h) ==
    /\ DOMAIN h \subseteq Addresses
    /\ \A a \in DOMAIN h :
          /\ h[a] \in Chunk
          /\ End(h, a) <= Limit
          /\ h[a].next = IF End(h, a) = Limit THEN null ELSE End(h, a)
          /\ h[a].next # null => h[a].next \in DOMAIN h /\ h[h[a].next].prev = a
          /\ h[a].prev = null <=> a = Start
          /\ h[a].prev # null => h[a].prev \in DOMAIN h /\ h[h[a].prev].next = a
          /\ \A b \in DOMAIN h : b <= a \/ b >= End(h, a)

\* The list of headers is a tiling of the heap after every malloc and free.
HeapTiled ==
    /\ Tiled(heap)
    /\ first # null => first \in DOMAIN heap
    /\ first = null => DOMAIN heap = {}

\* The variables keep their types, and the blocks handed out are the allocated
\* chunks, each with room for what was asked.
TypeOK ==
    /\ pc \in {"idle", "scan"}
    /\ request \in Nat
    /\ pc = "scan" => request \in Requests
    /\ chunk \in DOMAIN heap \cup {null}
    /\ pc = "idle" => chunk = null
    /\ DOMAIN held = {a + Header : a \in {b \in DOMAIN heap : heap[b].allocated}}
    /\ \A p \in DOMAIN held : held[p] \in Nat /\ held[p] <= heap[p - Header].size

\* free never leaves two free chunks side by side.
NoFreeNeighbours ==
    \A a \in DOMAIN heap :
        ~heap[a].allocated /\ heap[a].next # null => heap[heap[a].next].allocated

\* When every block has been freed, in whatever order, the heap is again the one
\* free chunk it started as.
HeapRestored ==
    DOMAIN held = {} => DOMAIN heap \subseteq {Start}

\* The walk of malloc is first fit: the chunks it has passed do not fit, so that
\* it refuses only when no free chunk is large enough.
FirstFit ==
    pc = "scan" =>
        \A a \in DOMAIN heap : chunk = null \/ a < chunk => ~Fits(a, request)

HeapInv == TypeOK /\ HeapTiled /\ NoFreeNeighbours /\ FirstFit

\* The heap implements BlockHeap: blocks in use lie in the heap and never overlap.
Blocks == INSTANCE BlockHeap WITH Low <- Start, High <- Limit
ImplementsBlockHeap == Blocks!Spec

\* The walk of malloc only goes up, inside the heap, or leaves the list at its end: no
\* order of splits and merges leaves a cycle or a stale link behind.
WalkGoesUp ==
    [][pc = "scan" /\ pc' = "scan" =>
          chunk' = null \/ (chunk + Header <= chunk' /\ chunk' + Header <= Limit)]_vars

\* Every call of malloc returns: its walk over the list comes to an end.
MallocReturns == pc = "scan" ~> pc = "idle"
==============================================================================
