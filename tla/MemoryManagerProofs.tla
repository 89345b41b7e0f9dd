------------------------- MODULE MemoryManagerProofs -------------------------
(***************************************************************************)
(* Proofs about the kernel heap, for every place and size of the heap, every*)
(* header size and every set of requests.                                   *)
(*                                                                          *)
(* Splitting, merging and the flag are described by relations on the fields *)
(* of the list before (h) and after (g), which the definitions of           *)
(* MemoryManager satisfy and which preserve Tiled.                          *)
(***************************************************************************)
EXTENDS MemoryManager, TLAPS

\* g is h with chunk x merged into its predecessor p.
Merged(h, g, p, x) ==
    /\ DOMAIN g = DOMAIN h \ {x}
    /\ \A a \in DOMAIN g :
          /\ g[a] \in Chunk
          /\ g[a].next = (IF a = p THEN h[x].next ELSE h[a].next)
          /\ g[a].prev = (IF a = h[x].next THEN p ELSE h[a].prev)
          /\ g[a].size = (IF a = p THEN h[p].size + h[x].size + Header ELSE h[a].size)
          /\ g[a].allocated = h[a].allocated

\* g is h with chunk r cut behind n bytes, before the chunk t.
Cut(h, g, r, t, n) ==
    /\ DOMAIN g = DOMAIN h \cup {t}
    /\ \A a \in DOMAIN h :
          /\ g[a] \in Chunk
          /\ g[a].next = (IF a = r THEN t ELSE h[a].next)
          /\ g[a].prev = (IF a = h[r].next THEN t ELSE h[a].prev)
          /\ g[a].size = (IF a = r THEN n ELSE h[a].size)
          /\ g[a].allocated = h[a].allocated
    /\ g[t] = [next |-> h[r].next, prev |-> r, allocated |-> FALSE,
               size |-> h[r].size - n - Header]

\* g is h up to the flags.
SameShape(h, g) ==
    /\ DOMAIN g = DOMAIN h
    /\ \A a \in DOMAIN h :
          /\ g[a] \in Chunk
          /\ g[a].next = h[a].next
          /\ g[a].prev = h[a].prev
          /\ g[a].size = h[a].size

\* The parts of Tiled that most steps need, with the arithmetic done: a chunk
\* is at least a header long, and its successor lies behind it.
LEMMA Neighbours ==
    ASSUME NEW h, Tiled(h), NEW a \in DOMAIN h
    PROVE  /\ null \notin DOMAIN h
           /\ a \in Nat /\ End(h, a) \in Nat /\ a + Header <= End(h, a)
           /\ a < End(h, a)
           /\ h[a].size \in Nat
           /\ h[a].next # null =>
                 h[a].next \in DOMAIN h /\ h[a].next = End(h, a) /\ a < h[a].next
           /\ h[a].prev # null =>
                 h[a].prev \in DOMAIN h /\ h[h[a].prev].next = a /\ h[a].prev < a
<1>1. null \notin DOMAIN h
  BY HeapAssumption DEF Tiled, Addresses, Limit, null
<1>2. \A b \in DOMAIN h : /\ b \in Nat /\ h[b].size \in Nat
                          /\ End(h, b) \in Nat /\ b + Header <= End(h, b)
                          /\ b < End(h, b)
  BY HeapAssumption DEF Tiled, Addresses, Limit, End, Chunk
<1>3. \A b \in DOMAIN h : h[b].next # null =>
          h[b].next \in DOMAIN h /\ h[b].next = End(h, b) /\ b < h[b].next
  BY <1>2 DEF Tiled
<1>4. h[a].prev # null =>
          h[a].prev \in DOMAIN h /\ h[h[a].prev].next = a /\ h[a].prev < a
  BY <1>1, <1>3 DEF Tiled
<1> QED
  BY <1>1, <1>2, <1>3, <1>4

\* Two different chunks do not overlap.
LEMMA Disjoint ==
    ASSUME NEW h, Tiled(h), NEW a \in DOMAIN h, NEW b \in DOMAIN h, a < b
    PROVE  End(h, a) <= b
<1>1. a \in Nat /\ b \in Nat /\ End(h, a) \in Nat
  BY Neighbours
<1>2. b <= a \/ b >= End(h, a)
  BY DEF Tiled
<1> QED
  BY <1>1, <1>2

\* A list with the same addresses, links and sizes is tiled too.
LEMMA SameShapeTiled ==
    ASSUME NEW h, NEW g, Tiled(h), SameShape(h, g)
    PROVE  Tiled(g)
<1>1. \A a \in DOMAIN h : End(g, a) = End(h, a)
  BY DEF SameShape, End
<1>2. DOMAIN g = DOMAIN h /\ DOMAIN g \subseteq Addresses
  BY DEF SameShape, Tiled
<1>3. \A a \in DOMAIN g :
        /\ g[a] \in Chunk
        /\ End(g, a) <= Limit
        /\ g[a].next = IF End(g, a) = Limit THEN null ELSE End(g, a)
        /\ g[a].prev = null <=> a = Start
        /\ \A b \in DOMAIN g : b <= a \/ b >= End(g, a)
  BY <1>1, <1>2 DEF SameShape, Tiled
<1>4. \A a \in DOMAIN g :
        /\ g[a].next # null => g[a].next \in DOMAIN g /\ g[g[a].next].prev = a
        /\ g[a].prev # null => g[a].prev \in DOMAIN g /\ g[g[a].prev].next = a
  BY <1>2 DEF SameShape, Tiled
<1> QED
  BY <1>2, <1>3, <1>4 DEF Tiled

-----------------------------------------------------------------------------
(* Merging                                                                  *)

\* Absorb merges two neighbours.
LEMMA AbsorbMerges ==
    ASSUME NEW h, Tiled(h), NEW p \in DOMAIN h, NEW x \in DOMAIN h, h[p].next = x
    PROVE  Merged(h, Absorb(h, p, x), p, x)
<1>1. p # x /\ x # null /\ h[x].next # x /\ h[x].next # p
  <2>1. p \in Nat /\ x \in Nat /\ null \notin DOMAIN h
    BY Neighbours
  <2>2. p < x
    BY <2>1, Neighbours
  <2>3. h[x].next # null => x < h[x].next /\ h[x].next \in DOMAIN h
    BY Neighbours
  <2> QED
    BY <2>1, <2>2, <2>3, Neighbours
<1>2. h[x].next # null => h[x].next \in DOMAIN h
  BY Neighbours
<1>3. \A a \in DOMAIN h : h[a] \in Chunk
  BY DEF Tiled
<1>4. p \in Addresses /\ h[x].next \in Addresses \cup {null}
      /\ h[p].size + h[x].size + Header \in Nat
  BY <1>3, HeapAssumption DEF Tiled, Chunk
<1> DEFINE bigger == [h EXCEPT ![p].next = h[x].next,
                               ![p].size = @ + h[x].size + Header]
           linked == SetPrev(bigger, h[x].next, p)
           g == Absorb(h, p, x)
<1>5. /\ DOMAIN bigger = DOMAIN h
      /\ \A a \in DOMAIN h :
            /\ bigger[a] \in Chunk
            /\ bigger[a].next = (IF a = p THEN h[x].next ELSE h[a].next)
            /\ bigger[a].prev = h[a].prev
            /\ bigger[a].size = (IF a = p THEN h[p].size + h[x].size + Header ELSE h[a].size)
            /\ bigger[a].allocated = h[a].allocated
  BY <1>3, <1>4 DEF Chunk
<1>6. /\ DOMAIN linked = DOMAIN h
      /\ \A a \in DOMAIN h :
            /\ linked[a] \in Chunk
            /\ linked[a].next = bigger[a].next
            /\ linked[a].prev = (IF a = h[x].next THEN p ELSE h[a].prev)
            /\ linked[a].size = bigger[a].size
            /\ linked[a].allocated = bigger[a].allocated
  <2>1. CASE h[x].next = null
    <3>1. linked = bigger
      BY <2>1 DEF SetPrev
    <3>2. null \notin DOMAIN h
      BY Neighbours
    <3> HIDE DEF bigger, linked
    <3> QED
      BY <2>1, <3>1, <3>2, <1>5
  <2>2. CASE h[x].next # null
    <3>1. linked = [bigger EXCEPT ![h[x].next].prev = p]
      BY <2>2 DEF SetPrev
    <3> HIDE DEF bigger, linked
    <3> QED
      BY <2>2, <3>1, <1>2, <1>4, <1>5 DEF Chunk
  <2> QED
    BY <2>1, <2>2
<1>7. g = [a \in DOMAIN h \ {x} |-> linked[a]]
  BY DEF Absorb
<1> HIDE DEF bigger, linked, g
<1>8. Merged(h, g, p, x)
  BY <1>5, <1>6, <1>7 DEF Merged
<1> QED
  BY <1>8 DEF g

\* Merging two neighbours keeps the list tiled.
LEMMA MergedTiled ==
    ASSUME NEW h, NEW g, Tiled(h), NEW p \in DOMAIN h, NEW x \in DOMAIN h,
           h[p].next = x, Merged(h, g, p, x)
    PROVE  /\ Tiled(g)
           /\ p \in DOMAIN g
           /\ x # Start
<1>1. /\ p \in Nat /\ x \in Nat /\ p < x /\ x = End(h, p) /\ x # null
      /\ h[x].prev = p
  BY Neighbours DEF Tiled
<1>2. p \in DOMAIN g /\ x # Start
  <2>1. p # null
    BY Neighbours
  <2> QED
    BY <1>1, <2>1 DEF Merged, Tiled
<1>3. End(g, p) = End(h, x) /\ \A a \in DOMAIN g : a # p => End(g, a) = End(h, a)
  <2>1. End(g, p) = End(h, x)
    BY <1>1, <1>2, Neighbours, HeapAssumption DEF Merged, End
  <2> QED
    BY <2>1 DEF Merged, End
<1>4. \A a \in DOMAIN g : a \in DOMAIN h /\ a # x
  BY DEF Merged
<1>5. ASSUME NEW a \in DOMAIN g
      PROVE  /\ g[a] \in Chunk
             /\ End(g, a) <= Limit
             /\ g[a].next = IF End(g, a) = Limit THEN null ELSE End(g, a)
  BY <1>3, <1>4, <1>1 DEF Merged, Tiled
<1>6. ASSUME NEW a \in DOMAIN g, g[a].next # null
      PROVE  g[a].next \in DOMAIN g /\ g[g[a].next].prev = a
  <2>1. CASE a = p
    <3>1. g[a].next = h[x].next
      BY <2>1 DEF Merged
    <3>2. h[x].next \in DOMAIN h /\ h[x].next # x
      BY <3>1, <1>6, Neighbours
    <3> QED
      BY <2>1, <3>1, <3>2 DEF Merged
  <2>2. CASE a # p
    <3>1. g[a].next = h[a].next
      BY <2>2 DEF Merged
    <3>2. h[a].next \in DOMAIN h /\ h[h[a].next].prev = a
      BY <3>1, <1>6, <1>4 DEF Tiled
    <3>3. h[a].next # x
      BY <2>2, <3>2, <1>1
    <3>4. h[a].next # h[x].next
      <4>1. SUFFICES ASSUME h[a].next = h[x].next PROVE FALSE
        OBVIOUS
      <4>2. h[h[x].next].prev = x
        BY <4>1, <3>1, <1>6 DEF Tiled
      <4> QED
        BY <4>1, <4>2, <3>2, <1>4
    <3> QED
      BY <3>1, <3>2, <3>3, <3>4 DEF Merged
  <2> QED
    BY <2>1, <2>2
<1>7. ASSUME NEW a \in DOMAIN g
      PROVE  /\ g[a].prev = null <=> a = Start
             /\ g[a].prev # null => g[a].prev \in DOMAIN g /\ g[g[a].prev].next = a
  <2>1. CASE a = h[x].next
    <3>1. g[a].prev = p /\ p # null
      BY <2>1, <1>2, Neighbours DEF Merged
    <3>2. h[a].prev = x
      BY <2>1, <1>4, Neighbours DEF Tiled
    <3>3. a # Start
      BY <3>2, <1>4, <1>1 DEF Tiled
    <3> QED
      BY <2>1, <3>1, <3>3, <1>2 DEF Merged
  <2>2. CASE a # h[x].next
    <3>1. g[a].prev = h[a].prev
      BY <2>2 DEF Merged
    <3>2. h[a].prev = null <=> a = Start
      BY <1>4 DEF Tiled
    <3>3. ASSUME h[a].prev # null
          PROVE  h[a].prev \in DOMAIN g /\ g[h[a].prev].next = a
      <4>1. h[a].prev \in DOMAIN h /\ h[h[a].prev].next = a
        BY <3>3, <1>4 DEF Tiled
      <4>2. h[a].prev # x /\ h[a].prev # p
        BY <4>1, <2>2, <1>4
      <4> QED
        BY <4>1, <4>2 DEF Merged
    <3> QED
      BY <3>1, <3>2, <3>3
  <2> QED
    BY <2>1, <2>2
<1>8. ASSUME NEW a \in DOMAIN g, NEW b \in DOMAIN g
      PROVE  b <= a \/ b >= End(g, a)
  <2>0. a \in Nat /\ b \in Nat /\ b \in DOMAIN h /\ a \in DOMAIN h /\ b # x
    BY <1>4, Neighbours
  <2>1. CASE a = p
    <3>1. b <= p \/ b >= x
      BY <2>0, <1>1 DEF Tiled
    <3>2. b <= x \/ b >= End(h, x)
      BY <2>0 DEF Tiled
    <3> QED
      BY <2>0, <2>1, <3>1, <3>2, <1>1, <1>3
  <2>2. CASE a # p
    BY <2>0, <2>2, <1>3 DEF Tiled
  <2> QED
    BY <2>1, <2>2
<1>9. DOMAIN g \subseteq Addresses
  BY <1>4 DEF Tiled
<1> QED
  BY <1>2, <1>5, <1>6, <1>7, <1>8, <1>9 DEF Tiled

-----------------------------------------------------------------------------
(* Splitting                                                                *)

\* Split cuts a chunk that has room for the bytes asked for, a header and one
\* more byte.
LEMMA SplitCuts ==
    ASSUME NEW h, Tiled(h), NEW r \in DOMAIN h, NEW n \in Nat,
           h[r].size >= n + Header + 1
    PROVE  /\ Cut(h, Split(h, r, n), r, r + Header + n, n)
           /\ r + Header + n \in Addresses
           /\ r + Header + n \notin DOMAIN h
<1> DEFINE t == r + Header + n
           fresh == [next |-> h[r].next, prev |-> r, allocated |-> FALSE,
                     size |-> h[r].size - n - Header]
           grown == [a \in DOMAIN h \cup {t} |-> IF a = t THEN fresh ELSE h[a]]
           linked == SetPrev(grown, h[r].next, t)
           g == Split(h, r, n)
<1>1. /\ r \in Nat /\ h[r].size \in Nat /\ r < t /\ t < End(h, r)
      /\ End(h, r) <= Limit /\ r \in Addresses /\ End(h, r) \in Nat /\ t \in Nat
  BY Neighbours, HeapAssumption DEF Tiled, End
<1>2. t \in Addresses
  BY <1>1, HeapAssumption DEF Addresses, Limit
<1>3. t \notin DOMAIN h
  <2>1. t \in DOMAIN h => t <= r \/ t >= End(h, r)
    BY DEF Tiled
  <2> HIDE DEF t
  <2> QED
    BY <1>1, <2>1
<1>4. h[r].next # null => h[r].next \in DOMAIN h /\ h[r].next # r /\ h[r].next # t
  BY <1>1, <1>3, Neighbours
<1>5. \A a \in DOMAIN h : h[a] \in Chunk
  BY DEF Tiled
<1> HIDE DEF t, fresh
<1>6. /\ DOMAIN grown = DOMAIN h \cup {t}
      /\ grown[t] = fresh
      /\ \A a \in DOMAIN h : grown[a] = h[a]
  BY <1>3
<1>7. /\ DOMAIN linked = DOMAIN h \cup {t}
      /\ linked[t] = fresh
      /\ \A a \in DOMAIN h :
            /\ linked[a] \in Chunk
            /\ linked[a].next = h[a].next
            /\ linked[a].prev = (IF a = h[r].next THEN t ELSE h[a].prev)
            /\ linked[a].size = h[a].size
            /\ linked[a].allocated = h[a].allocated
  <2>1. CASE h[r].next = null
    <3>1. linked = grown
      BY <2>1 DEF SetPrev
    <3>2. null \notin DOMAIN h
      BY Neighbours
    <3> HIDE DEF grown, linked
    <3> QED
      BY <2>1, <3>1, <3>2, <1>5, <1>6
  <2>2. CASE h[r].next # null
    <3>1. linked = [grown EXCEPT ![h[r].next].prev = t]
      BY <2>2 DEF SetPrev
    <3> HIDE DEF grown, linked
    <3> QED
      BY <2>2, <3>1, <1>2, <1>3, <1>4, <1>5, <1>6 DEF Chunk
  <2> QED
    BY <2>1, <2>2
<1>8. g = [linked EXCEPT ![r].size = n, ![r].next = t]
  BY DEF Split, t, fresh
<1> HIDE DEF linked, grown, g
<1>9. Cut(h, g, r, t, n)
  <2>1. DOMAIN g = DOMAIN h \cup {t}
    BY <1>7, <1>8
  <2>2. g[t] = fresh
    BY <1>3, <1>7, <1>8
  <2>3. \A a \in DOMAIN h :
            /\ g[a] \in Chunk
            /\ g[a].next = (IF a = r THEN t ELSE h[a].next)
            /\ g[a].prev = (IF a = h[r].next THEN t ELSE h[a].prev)
            /\ g[a].size = (IF a = r THEN n ELSE h[a].size)
            /\ g[a].allocated = h[a].allocated
    BY <1>2, <1>7, <1>8 DEF Chunk
  <2> QED
    BY <2>1, <2>2, <2>3 DEF Cut, fresh
<1> QED
  BY <1>2, <1>3, <1>9 DEF g, t

\* Cutting a chunk keeps the list tiled.
LEMMA CutTiled ==
    ASSUME NEW h, NEW g, Tiled(h), NEW r \in DOMAIN h, NEW n \in Nat, NEW t,
           t = r + Header + n, t \in Addresses, t \notin DOMAIN h,
           h[r].size >= n + Header + 1, Cut(h, g, r, t, n)
    PROVE  Tiled(g)
<1>1. /\ r \in Nat /\ h[r].size \in Nat /\ r < t /\ t < End(h, r)
      /\ End(h, r) <= Limit /\ t \in Nat /\ t # null /\ End(h, r) \in Nat
      /\ Limit \in Nat /\ r # null
  BY Neighbours, HeapAssumption DEF Tiled, End, Addresses, Limit, null
<1>2. /\ End(g, r) = t
      /\ End(g, t) = End(h, r)
      /\ \A a \in DOMAIN h : a # r => End(g, a) = End(h, a)
  BY <1>1, HeapAssumption DEF Cut, End
<1>3. g[t] \in Chunk
  <2>1. h[r] \in Chunk /\ r \in Addresses
    BY DEF Tiled
  <2>2. h[r].size - n - Header \in Nat
    BY <1>1, HeapAssumption
  <2> QED
    BY <2>1, <2>2 DEF Cut, Chunk
<1>4. ASSUME NEW a \in DOMAIN g
      PROVE  /\ g[a] \in Chunk
             /\ End(g, a) <= Limit
             /\ g[a].next = IF End(g, a) = Limit THEN null ELSE End(g, a)
  <2>1. CASE a = t
    BY <2>1, <1>1, <1>2, <1>3 DEF Cut, Tiled
  <2>2. CASE a = r
    BY <2>2, <1>1, <1>2 DEF Cut
  <2>3. CASE a \in DOMAIN h /\ a # r
    BY <2>3, <1>2 DEF Cut, Tiled
  <2> QED
    BY <2>1, <2>2, <2>3 DEF Cut
<1>5. ASSUME NEW a \in DOMAIN g, g[a].next # null
      PROVE  g[a].next \in DOMAIN g /\ g[g[a].next].prev = a
  <2>1. CASE a = t
    <3>1. g[a].next = h[r].next
      BY <2>1 DEF Cut
    <3>2. h[r].next \in DOMAIN h
      BY <3>1, <1>5 DEF Tiled
    <3> QED
      BY <2>1, <3>1, <3>2 DEF Cut
  <2>2. CASE a = r
    BY <2>2 DEF Cut
  <2>3. CASE a \in DOMAIN h /\ a # r
    <3>1. g[a].next = h[a].next
      BY <2>3 DEF Cut
    <3>2. h[a].next \in DOMAIN h /\ h[h[a].next].prev = a
      BY <3>1, <1>5, <2>3 DEF Tiled
    <3>3. h[a].next # h[r].next
      BY <2>3, <3>1, <3>2, <1>5 DEF Tiled
    <3> QED
      BY <3>1, <3>2, <3>3 DEF Cut
  <2> QED
    BY <2>1, <2>2, <2>3 DEF Cut
<1>6. ASSUME NEW a \in DOMAIN g
      PROVE  /\ g[a].prev = null <=> a = Start
             /\ g[a].prev # null => g[a].prev \in DOMAIN g /\ g[g[a].prev].next = a
  <2>1. CASE a = t
    <3>1. a # Start
      BY <2>1, <1>1, HeapAssumption DEF Tiled, Addresses
    <3> QED
      BY <2>1, <3>1, <1>1 DEF Cut
  <2>2. CASE a \in DOMAIN h /\ a = h[r].next
    <3>1. h[a].prev = r
      BY <2>2, <1>1, Neighbours DEF Tiled
    <3>2. a # Start
      BY <3>1, <2>2, <1>1 DEF Tiled
    <3> QED
      BY <2>2, <3>2, <1>1 DEF Cut
  <2>3. CASE a \in DOMAIN h /\ a # h[r].next
    <3>1. g[a].prev = h[a].prev
      BY <2>3 DEF Cut
    <3>2. h[a].prev = null <=> a = Start
      BY <2>3 DEF Tiled
    <3>3. ASSUME h[a].prev # null
          PROVE  h[a].prev \in DOMAIN g /\ g[h[a].prev].next = a
      <4>1. h[a].prev \in DOMAIN h /\ h[h[a].prev].next = a
        BY <3>3, <2>3 DEF Tiled
      <4>2. h[a].prev # r
        BY <4>1, <2>3
      <4> QED
        BY <4>1, <4>2 DEF Cut
    <3> QED
      BY <3>1, <3>2, <3>3
  <2> QED
    BY <2>1, <2>2, <2>3 DEF Cut
<1>7. ASSUME NEW a \in DOMAIN g, NEW b \in DOMAIN g
      PROVE  b <= a \/ b >= End(g, a)
  <2>1. CASE a \in DOMAIN h /\ b \in DOMAIN h /\ a # r
    BY <2>1, <1>2 DEF Tiled
  <2>2. CASE a = r /\ b \in DOMAIN h
    <3>1. b \in Nat /\ (b <= r \/ b >= End(h, r))
      BY <2>2, Neighbours DEF Tiled
    <3> QED
      BY <2>2, <3>1, <1>1, <1>2
  <2>3. CASE a = t /\ b \in DOMAIN h
    <3>1. b \in Nat /\ (b <= r \/ b >= End(h, r))
      BY <2>3, Neighbours DEF Tiled
    <3> QED
      BY <2>3, <3>1, <1>1, <1>2
  <2>4. CASE b = t /\ (a = r \/ a = t)
    BY <2>4, <1>1, <1>2
  <2>5. CASE b = t /\ a \in DOMAIN h /\ a # r
    <3>1. a \in Nat /\ End(h, a) \in Nat
      BY <2>5, Neighbours
    <3>2. CASE a < r
      <4>1. End(h, a) <= r
        BY <3>2, <2>5, Disjoint
      <4> QED
        BY <2>5, <4>1, <3>1, <1>1, <1>2
    <3>3. CASE r < a
      <4>1. End(h, r) <= a
        BY <3>3, <2>5, Disjoint
      <4> QED
        BY <2>5, <4>1, <3>1, <1>1, <1>2
    <3> QED
      BY <3>1, <3>2, <3>3, <2>5, <1>1
  <2> QED
    BY <2>1, <2>2, <2>3, <2>4, <2>5 DEF Cut
<1>8. DOMAIN g \subseteq Addresses
  BY DEF Cut, Tiled
<1> QED
  BY <1>4, <1>5, <1>6, <1>7, <1>8 DEF Tiled

-----------------------------------------------------------------------------
(* free                                                                     *)

\* The free chunks whose successor is free too.
FreePairs(h) ==
    {a \in DOMAIN h : ~h[a].allocated /\ h[a].next # null /\ ~h[h[a].next].allocated}

\* The allocated chunks of h and g are the same, with the same sizes.
SameBlocks(h, g) ==
    /\ \A a : a \in DOMAIN g /\ g[a].allocated <=> a \in DOMAIN h /\ h[a].allocated
    /\ \A a \in DOMAIN g : g[a].allocated => g[a].size = h[a].size

\* Merging two free neighbours p and x makes no new pair, but p takes over what
\* x had with its successor.
LEMMA MergedPairs ==
    ASSUME NEW h, NEW g, Tiled(h), NEW p \in DOMAIN h, NEW x \in DOMAIN h,
           h[p].next = x, ~h[p].allocated, ~h[x].allocated, Merged(h, g, p, x)
    PROVE  /\ \A a \in FreePairs(g) :
                 \/ a = p /\ x \in FreePairs(h)
                 \/ a # p /\ a # x /\ a \in FreePairs(h)
           /\ SameBlocks(h, g)
<1>1. SameBlocks(h, g)
  BY DEF SameBlocks, Merged
<1>2. ASSUME NEW a \in FreePairs(g)
      PROVE  \/ a = p /\ x \in FreePairs(h)
             \/ a # p /\ a # x /\ a \in FreePairs(h)
  <2>1. /\ a \in DOMAIN g /\ ~g[a].allocated
        /\ g[a].next # null /\ ~g[g[a].next].allocated
    BY DEF FreePairs
  <2>2. g[a].next \in DOMAIN g
    BY <2>1, MergedTiled DEF Tiled
  <2>3. g[g[a].next].allocated = h[g[a].next].allocated
    BY <2>2 DEF Merged
  <2> QED
    BY <2>1, <2>2, <2>3 DEF FreePairs, Merged
<1> QED
  BY <1>1, <1>2

\* After the first merge of free the chunk that may still have a free successor
\* is the one free goes on with.
LEMMA MergePrevCorrect ==
    ASSUME NEW h, Tiled(h), NEW c \in DOMAIN h, ~h[c].allocated,
           \A a \in FreePairs(h) : a = c \/ h[a].next = c,
           NEW g, g = MergePrev(h, c),
           NEW d, d = IF c \in DOMAIN g THEN c ELSE h[c].prev
    PROVE  /\ Tiled(g)
           /\ Start \in DOMAIN h => Start \in DOMAIN g
           /\ d \in DOMAIN g /\ ~g[d].allocated
           /\ FreePairs(g) \subseteq {d}
           /\ SameBlocks(h, g)
<1> DEFINE p == h[c].prev
<1>p. ASSUME NEW a \in FreePairs(h), h[a].next = c
      PROVE  a = p
  <2>1. a \in DOMAIN h /\ h[a].next # null
    BY <1>p DEF FreePairs
  <2>2. h[h[a].next].prev = a
    BY <2>1 DEF Tiled
  <2> QED
    BY <2>2, <1>p
<1>1. CASE p # null /\ ~h[p].allocated
  <2>1. p \in DOMAIN h /\ h[p].next = c
    BY <1>1 DEF Tiled
  <2>2. g = Absorb(h, p, c)
    BY <1>1 DEF MergePrev
  <2>3. Merged(h, g, p, c)
    BY <2>1, <2>2, AbsorbMerges
  <2>4. Tiled(g) /\ p \in DOMAIN g /\ c # Start
    BY <2>1, <2>3, MergedTiled
  <2>5. d = p
    BY <2>3 DEF Merged
  <2>6. /\ \A a \in FreePairs(g) :
              \/ a = p /\ c \in FreePairs(h)
              \/ a # p /\ a # c /\ a \in FreePairs(h)
        /\ SameBlocks(h, g)
    <3>1. ~h[p].allocated
      BY <1>1
    <3> HIDE DEF p
    <3> QED
      BY <3>1, <2>1, <2>3, MergedPairs
  <2>7. ASSUME NEW a \in FreePairs(h), a # c
        PROVE  a = p
    <3>1. h[a].next = c
      BY <2>7
    <3> HIDE DEF p
    <3> QED
      BY <3>1, <1>p
  <2>8. ~g[p].allocated
    BY <1>1, <2>3, <2>4 DEF Merged
  <2>9. Start \in DOMAIN h => Start \in DOMAIN g
    BY <2>3, <2>4 DEF Merged
  <2> QED
    BY <2>4, <2>5, <2>6, <2>7, <2>8, <2>9
<1>2. CASE ~(p # null /\ ~h[p].allocated)
  <2>1. g = h
    BY <1>2 DEF MergePrev
  <2>2. d = c
    BY <2>1
  <2>3. \A a \in FreePairs(h) : h[a].next = c => a = p
    <3> HIDE DEF p
    <3> QED
      BY <1>p
  <2>4. \A a \in FreePairs(h) : a \in DOMAIN h /\ ~h[a].allocated
    BY DEF FreePairs
  <2>5. null \notin DOMAIN h
    BY Neighbours
  <2>6. FreePairs(h) \subseteq {c}
    BY <1>2, <2>3, <2>4, <2>5
  <2> QED
    BY <2>1, <2>2, <2>6 DEF SameBlocks
<1> QED
  BY <1>1, <1>2

\* After the second merge no two free chunks are neighbours.
LEMMA MergeNextCorrect ==
    ASSUME NEW h, Tiled(h), NEW c \in DOMAIN h, ~h[c].allocated,
           FreePairs(h) \subseteq {c},
           NEW g, g = MergeNext(h, c)
    PROVE  /\ Tiled(g)
           /\ Start \in DOMAIN h => Start \in DOMAIN g
           /\ FreePairs(g) = {}
           /\ SameBlocks(h, g)
<1> DEFINE x == h[c].next
<1>1. CASE x # null /\ ~h[x].allocated
  <2>1. x \in DOMAIN h /\ x # c
    BY <1>1, Neighbours
  <2>2. g = Absorb(h, c, x)
    BY <1>1 DEF MergeNext
  <2>3. Merged(h, g, c, x)
    BY <2>1, <2>2, AbsorbMerges
  <2>4. Tiled(g) /\ x # Start
    BY <2>1, <2>3, MergedTiled
  <2>5. /\ \A a \in FreePairs(g) :
              \/ a = c /\ x \in FreePairs(h)
              \/ a # c /\ a # x /\ a \in FreePairs(h)
        /\ SameBlocks(h, g)
    BY <1>1, <2>1, <2>3, MergedPairs
  <2>6. Start \in DOMAIN h => Start \in DOMAIN g
    BY <2>3, <2>4 DEF Merged
  <2> HIDE DEF x
  <2> QED
    BY <2>1, <2>4, <2>5, <2>6
<1>2. CASE ~(x # null /\ ~h[x].allocated)
  <2>1. g = h
    BY <1>2 DEF MergeNext
  <2>2. FreePairs(h) = {}
    BY <1>2 DEF FreePairs
  <2> QED
    BY <2>1, <2>2 DEF SameBlocks
<1> QED
  BY <1>1, <1>2

-----------------------------------------------------------------------------
(* The invariant                                                            *)

\* The heap starts as one free chunk, or as nothing.
LEMMA InitInv == Init => HeapInv
<1> SUFFICES ASSUME Init PROVE HeapInv
  OBVIOUS
<1>1. CASE Size < Header
  <2>1. DOMAIN heap = {} /\ first = null
    BY <1>1 DEF Init, first
  <2>2. HeapTiled
    BY <2>1 DEF HeapTiled, Tiled
  <2>3. TypeOK
    BY <2>1, HeapAssumption DEF Init, TypeOK
  <2> QED
    BY <2>1, <2>2, <2>3 DEF Init, HeapInv, NoFreeNeighbours, FirstFit
<1>2. CASE ~(Size < Header)
  <2>1. /\ first = Start /\ Start # null
        /\ DOMAIN heap = {Start}
        /\ heap[Start] = [next |-> null, prev |-> null, allocated |-> FALSE,
                          size |-> Size - Header]
    BY <1>2, HeapAssumption DEF Init, first, null
  <2>2. Start \in Addresses /\ End(heap, Start) = Limit /\ Size - Header \in Nat
    BY <1>2, <2>1, HeapAssumption DEF Addresses, Limit, End
  <2>3. HeapTiled
    <3>1. heap[Start] \in Chunk
      BY <2>1, <2>2 DEF Chunk
    <3>2. Limit <= Limit /\ Start <= Start
      BY HeapAssumption DEF Limit
    <3>3. heap[Start].next = null /\ heap[Start].prev = null
      BY <2>1
    <3>4. Tiled(heap)
      BY <2>1, <2>2, <3>1, <3>2, <3>3 DEF Tiled
    <3> QED
      BY <2>1, <3>4 DEF HeapTiled
  <2>4. TypeOK
    BY <2>1, HeapAssumption DEF Init, TypeOK
  <2> QED
    BY <2>1, <2>3, <2>4 DEF Init, HeapInv, NoFreeNeighbours, FirstFit
<1> QED
  BY <1>1, <1>2

\* The steps of malloc that leave the list alone.
LEMMA WalkInv ==
    ASSUME HeapInv, (\E n \in Requests : malloc(n)) \/ MallocSkip \/ MallocRefuse
    PROVE  HeapInv'
<1> USE DEF HeapInv
<1>1. UNCHANGED <<heap, held>>
  BY DEF malloc, MallocSkip, MallocRefuse
<1>2. HeapTiled' /\ NoFreeNeighbours'
  BY <1>1 DEF HeapTiled, Tiled, End, NoFreeNeighbours
<1>3. TypeOK'
  <2>1. CASE \E n \in Requests : malloc(n)
    BY <1>1, <2>1, HeapAssumption DEF malloc, TypeOK, HeapTiled
  <2>2. CASE MallocSkip
    BY <1>1, <2>2 DEF MallocSkip, TypeOK, HeapTiled, Tiled
  <2>3. CASE MallocRefuse
    BY <1>1, <2>3 DEF MallocRefuse, TypeOK
  <2> QED
    BY <2>1, <2>2, <2>3
<1>4. FirstFit'
  <2>1. CASE \E n \in Requests : malloc(n)
    <3>1. chunk' = first
      BY <2>1 DEF malloc
    <3>2. \A a \in DOMAIN heap : ~(first = null \/ a < first)
      BY HeapAssumption DEF HeapTiled, Tiled, Addresses, Limit, first
    <3> QED
      BY <1>1, <3>1, <3>2 DEF FirstFit
  <2>2. CASE MallocSkip
    <3>1. /\ chunk \in DOMAIN heap /\ chunk' = heap[chunk].next
          /\ ~Fits(chunk, request) /\ request' = request /\ pc = "scan"
      BY <2>2 DEF MallocSkip, TypeOK
    <3>2. \A a \in DOMAIN heap : a < chunk => ~Fits(a, request)
      BY <3>1 DEF FirstFit
    <3>3. ASSUME NEW a \in DOMAIN heap, chunk' = null \/ a < chunk'
          PROVE  a <= chunk
      <4>1. /\ a \in Nat /\ chunk \in Nat /\ Limit \in Nat /\ a < Limit
            /\ End(heap, chunk) \in Nat /\ End(heap, chunk) # null
        BY <3>1, Neighbours, HeapAssumption DEF HeapTiled, Tiled, Addresses, Limit, null
      <4>2. a <= chunk \/ a >= End(heap, chunk)
        BY <3>1 DEF HeapTiled, Tiled
      <4>3. chunk' = IF End(heap, chunk) = Limit THEN null ELSE End(heap, chunk)
        BY <3>1 DEF HeapTiled, Tiled
      <4> QED
        BY <3>3, <4>1, <4>2, <4>3
    <3>4. \A a \in DOMAIN heap : a \in Nat /\ chunk \in Nat
      BY <3>1, Neighbours DEF HeapTiled
    <3>5. \A a \in DOMAIN heap : chunk' = null \/ a < chunk' => ~Fits(a, request)
      BY <3>1, <3>2, <3>3, <3>4
    <3>6. \A a : Fits(a, request)' <=> Fits(a, request)
      BY <1>1, <3>1 DEF Fits
    <3> QED
      BY <1>1, <3>5, <3>1 DEF FirstFit, Fits
  <2>3. CASE MallocRefuse
    BY <2>3 DEF MallocRefuse, FirstFit
  <2> QED
    BY <2>1, <2>2, <2>3
<1> QED
  BY <1>2, <1>3, <1>4

\* What the chunk found looks like when malloc has split it, or left it whole.
LEMMA SplitCorrect ==
    ASSUME HeapInv, MallocTake,
           NEW h, h = IF WorthSplitting(chunk, request)
                      THEN Split(heap, chunk, request) ELSE heap
    PROVE  /\ Tiled(h)
           /\ DOMAIN heap \subseteq DOMAIN h
           /\ ~h[chunk].allocated /\ request <= h[chunk].size
           /\ \A a \in DOMAIN h : h[a].allocated =>
                 a \in DOMAIN heap /\ heap[a].allocated /\ h[a].size = heap[a].size
           /\ \A a \in DOMAIN heap : heap[a].allocated =>
                 h[a].allocated /\ h[a].size = heap[a].size
           /\ FreePairs(h) \subseteq {chunk}
<1>1. /\ chunk \in DOMAIN heap /\ ~heap[chunk].allocated /\ heap[chunk].size > request
      /\ request \in Nat /\ heap[chunk].size \in Nat /\ Tiled(heap)
  BY Neighbours DEF MallocTake, Fits, HeapInv, TypeOK, HeapTiled
<1>2. FreePairs(heap) = {}
  BY DEF FreePairs, HeapInv, NoFreeNeighbours
<1>3. CASE ~WorthSplitting(chunk, request)
  BY <1>1, <1>2, <1>3
<1>4. CASE WorthSplitting(chunk, request)
  <2> DEFINE t == chunk + Header + request
  <2>1. heap[chunk].size >= request + Header + 1 /\ h = Split(heap, chunk, request)
    BY <1>4 DEF WorthSplitting
  <2>2. Cut(heap, h, chunk, t, request) /\ t \in Addresses /\ t \notin DOMAIN heap
    BY <1>1, <2>1, SplitCuts
  <2>3. Tiled(h)
    BY <1>1, <2>1, <2>2, CutTiled
  <2> HIDE DEF t
  <2>4. h[t].next = heap[chunk].next /\ ~h[t].allocated
    BY <2>2 DEF Cut
  <2>5. /\ DOMAIN heap \subseteq DOMAIN h
        /\ ~h[chunk].allocated /\ request <= h[chunk].size
        /\ \A a \in DOMAIN h : h[a].allocated =>
              a \in DOMAIN heap /\ heap[a].allocated /\ h[a].size = heap[a].size
        /\ \A a \in DOMAIN heap : heap[a].allocated =>
              h[a].allocated /\ h[a].size = heap[a].size
    BY <1>1, <2>2, <2>4 DEF Cut
  <2>6. ASSUME NEW a \in FreePairs(h), a # chunk
        PROVE  FALSE
    <3>1. /\ a \in DOMAIN h /\ ~h[a].allocated
          /\ h[a].next # null /\ ~h[h[a].next].allocated
      BY DEF FreePairs
    <3>2. CASE a = t
      <4>1. heap[chunk].next \in DOMAIN heap /\ heap[chunk].next # null
        BY <1>1, <2>4, <3>1, <3>2 DEF Tiled
      <4>2. ~heap[heap[chunk].next].allocated
        BY <2>2, <2>4, <3>1, <3>2, <4>1 DEF Cut
      <4> QED
        BY <1>1, <1>2, <4>1, <4>2 DEF FreePairs
    <3>3. CASE a # t
      <4>1. a \in DOMAIN heap /\ h[a].next = heap[a].next /\ ~heap[a].allocated
        BY <2>2, <2>6, <3>1, <3>3 DEF Cut
      <4>2. heap[a].next \in DOMAIN heap
        BY <1>1, <3>1, <4>1 DEF Tiled
      <4>3. ~heap[heap[a].next].allocated
        BY <2>2, <3>1, <4>1, <4>2 DEF Cut
      <4> QED
        BY <1>2, <3>1, <4>1, <4>3 DEF FreePairs
    <3> QED
      BY <3>2, <3>3
  <2> QED
    BY <2>3, <2>5, <2>6
<1> QED
  BY <1>3, <1>4

\* Handing out a chunk preserves the invariant.
LEMMA TakeInv ==
    ASSUME HeapInv, MallocTake
    PROVE  HeapInv'
<1>1. PICK h : /\ h = IF WorthSplitting(chunk, request)
                       THEN Split(heap, chunk, request) ELSE heap
               /\ heap' = [h EXCEPT ![chunk].allocated = TRUE]
  BY DEF MallocTake
<1>2. /\ Tiled(h)
      /\ DOMAIN heap \subseteq DOMAIN h
      /\ ~h[chunk].allocated /\ request <= h[chunk].size
      /\ \A a \in DOMAIN h : h[a].allocated =>
            a \in DOMAIN heap /\ heap[a].allocated /\ h[a].size = heap[a].size
      /\ \A a \in DOMAIN heap : heap[a].allocated =>
            h[a].allocated /\ h[a].size = heap[a].size
      /\ FreePairs(h) \subseteq {chunk}
  BY <1>1, SplitCorrect
<1>3. chunk \in DOMAIN heap /\ chunk \in DOMAIN h /\ request \in Nat
  BY <1>2 DEF MallocTake, HeapInv, TypeOK
<1>4. /\ SameShape(h, heap')
      /\ \A a \in DOMAIN h : heap'[a].allocated <=> a = chunk \/ h[a].allocated
  <2>1. \A a \in DOMAIN h : h[a] \in Chunk
    BY <1>2 DEF Tiled
  <2>2. /\ DOMAIN heap' = DOMAIN h
        /\ heap'[chunk] = [h[chunk] EXCEPT !.allocated = TRUE]
        /\ \A a \in DOMAIN h : a # chunk => heap'[a] = h[a]
    BY <1>1, <1>3
  <2>3. /\ heap'[chunk] \in Chunk /\ heap'[chunk].next = h[chunk].next
        /\ heap'[chunk].prev = h[chunk].prev /\ heap'[chunk].size = h[chunk].size
        /\ heap'[chunk].allocated
    BY <1>3, <2>1, <2>2 DEF Chunk
  <2>4. SameShape(h, heap')
    BY <2>1, <2>2, <2>3 DEF SameShape
  <2> QED
    BY <2>2, <2>3, <2>4
<1>5. HeapTiled'
  <2>1. Tiled(heap')
    BY <1>2, <1>4, SameShapeTiled
  <2>2. Tiled(heap)'
    BY <2>1 DEF Tiled, End
  <2>3. first # null /\ first \in DOMAIN heap'
    BY <1>2, <1>3, <1>4 DEF HeapInv, HeapTiled, SameShape
  <2> QED
    BY <2>2, <2>3 DEF HeapTiled, first
<1>6. NoFreeNeighbours'
  <2> SUFFICES ASSUME NEW a \in DOMAIN heap', ~heap'[a].allocated, heap'[a].next # null,
                      ~heap'[heap'[a].next].allocated
               PROVE  FALSE
    BY DEF NoFreeNeighbours
  <2>1. a \in DOMAIN h /\ a # chunk /\ ~h[a].allocated /\ h[a].next = heap'[a].next
    BY <1>4 DEF SameShape
  <2>2. h[a].next \in DOMAIN h
    BY <1>2, <2>1 DEF Tiled
  <2>3. a \in FreePairs(h)
    BY <1>4, <2>1, <2>2 DEF FreePairs
  <2> QED
    BY <1>2, <2>1, <2>3
<1>7. TypeOK'
  <2>1. pc' = "idle" /\ chunk' = null /\ request' = request
    BY DEF MallocTake
  <2>2. DOMAIN held' = DOMAIN held \cup {chunk + Header}
    BY DEF MallocTake
  <2>3. {b \in DOMAIN heap' : heap'[b].allocated}
           = {b \in DOMAIN heap : heap[b].allocated} \cup {chunk}
    BY <1>2, <1>3, <1>4 DEF SameShape
  <2>4. DOMAIN held' = {a + Header : a \in {b \in DOMAIN heap' : heap'[b].allocated}}
    BY <2>2, <2>3 DEF HeapInv, TypeOK
  <2>5. ASSUME NEW p \in DOMAIN held'
        PROVE  held'[p] \in Nat /\ held'[p] <= heap'[p - Header].size
    <3>1. CASE p = chunk + Header
      <4>1. held'[p] = request
        BY <3>1 DEF MallocTake
      <4>2. p - Header = chunk
        BY <3>1, <1>2, <1>3, Neighbours, HeapAssumption
      <4> QED
        BY <4>1, <4>2, <1>2, <1>3, <1>4 DEF SameShape
    <3>2. CASE p # chunk + Header
      <4>1. p \in DOMAIN held /\ held'[p] = held[p]
        BY <3>2, <2>2 DEF MallocTake
      <4>2. PICK a \in DOMAIN heap : heap[a].allocated /\ p = a + Header
        BY <4>1 DEF HeapInv, TypeOK
      <4>3. p - Header = a
        BY <4>2, Neighbours, HeapAssumption DEF HeapInv, HeapTiled
      <4>4. held[p] \in Nat /\ held[p] <= heap[a].size
        BY <4>1, <4>3 DEF HeapInv, TypeOK
      <4> QED
        BY <4>1, <4>2, <4>3, <4>4, <1>2, <1>4 DEF SameShape
    <3> QED
      BY <3>1, <3>2
  <2> QED
    BY <2>1, <2>4, <2>5, <1>3 DEF TypeOK
<1>8. FirstFit'
  BY DEF MallocTake, FirstFit
<1> QED
  BY <1>5, <1>6, <1>7, <1>8 DEF HeapInv

\* free preserves the invariant.
LEMMA FreeInv ==
    ASSUME HeapInv, NEW ptr \in DOMAIN held, free(ptr)
    PROVE  HeapInv'
<1> DEFINE c == ptr - Header
           h == [heap EXCEPT ![c].allocated = FALSE]
           g == MergePrev(h, c)
           d == IF c \in DOMAIN g THEN c ELSE h[c].prev
<1>1. heap' = MergeNext(g, d)
  BY DEF free
<1>2. c \in DOMAIN heap /\ heap[c].allocated /\ ptr = c + Header /\ Tiled(heap)
  <2>1. PICK a \in DOMAIN heap : heap[a].allocated /\ ptr = a + Header
    BY DEF HeapInv, TypeOK
  <2>2. a = c
    BY <2>1, Neighbours, HeapAssumption DEF HeapInv, HeapTiled
  <2> QED
    BY <2>1, <2>2 DEF HeapInv, HeapTiled
<1> HIDE DEF c
<1>3. /\ SameShape(heap, h)
      /\ \A a \in DOMAIN heap : h[a].allocated <=> a # c /\ heap[a].allocated
  <2>1. \A a \in DOMAIN heap : heap[a] \in Chunk
    BY <1>2 DEF Tiled
  <2> QED
    BY <1>2, <2>1 DEF SameShape, Chunk
<1> HIDE DEF h
<1>4. Tiled(h) /\ DOMAIN h = DOMAIN heap
  BY <1>2, <1>3, SameShapeTiled DEF SameShape
<1>5. \A a \in FreePairs(h) : a = c \/ h[a].next = c
  <2> SUFFICES ASSUME NEW a \in FreePairs(h), a # c, h[a].next # c
               PROVE  FALSE
    OBVIOUS
  <2>1. /\ a \in DOMAIN heap /\ ~h[a].allocated /\ h[a].next # null
        /\ ~h[h[a].next].allocated /\ h[a].next \in DOMAIN heap
    BY <1>4 DEF FreePairs, Tiled
  <2>2. ~heap[a].allocated /\ heap[a].next = h[a].next /\ ~heap[h[a].next].allocated
    BY <1>3, <2>1 DEF SameShape
  <2> QED
    BY <2>1, <2>2 DEF HeapInv, NoFreeNeighbours
<1>6. /\ Tiled(g)
      /\ Start \in DOMAIN h => Start \in DOMAIN g
      /\ d \in DOMAIN g /\ ~g[d].allocated
      /\ FreePairs(g) \subseteq {d}
      /\ SameBlocks(h, g)
  BY <1>2, <1>3, <1>4, <1>5, MergePrevCorrect
<1> HIDE DEF g, d
<1>7. /\ Tiled(heap')
      /\ Start \in DOMAIN g => Start \in DOMAIN heap'
      /\ FreePairs(heap') = {}
      /\ SameBlocks(g, heap')
  BY <1>1, <1>6, MergeNextCorrect
<1>8. HeapTiled'
  <2>1. Tiled(heap)'
    BY <1>7 DEF Tiled, End
  <2>2. first # null /\ first \in DOMAIN heap'
    BY <1>2, <1>4, <1>6, <1>7 DEF HeapInv, HeapTiled, first
  <2> QED
    BY <2>1, <2>2 DEF HeapTiled, first
<1>9. NoFreeNeighbours'
  BY <1>7 DEF NoFreeNeighbours, FreePairs
<1>10. /\ \A a : a \in DOMAIN heap' /\ heap'[a].allocated
                  <=> a \in DOMAIN heap /\ heap[a].allocated /\ a # c
       /\ \A a \in DOMAIN heap' : heap'[a].allocated => heap'[a].size = heap[a].size
  BY <1>3, <1>4, <1>6, <1>7 DEF SameBlocks, SameShape
<1>11. TypeOK'
  <2>1. /\ pc = "idle" /\ pc' = pc /\ chunk' = chunk /\ request' = request
        /\ held' = [p \in DOMAIN held \ {ptr} |-> held[p]]
    BY DEF free
  <2>2. ASSUME NEW p \in DOMAIN held, p # ptr
        PROVE  \E a \in DOMAIN heap' : heap'[a].allocated /\ p = a + Header
    <3>1. PICK a \in DOMAIN heap : heap[a].allocated /\ p = a + Header
      BY DEF HeapInv, TypeOK
    <3> QED
      BY <2>2, <3>1, <1>2, <1>10
  <2>3. ASSUME NEW a \in DOMAIN heap', heap'[a].allocated
        PROVE  a + Header \in DOMAIN held /\ a + Header # ptr
    <3>1. a \in DOMAIN heap /\ heap[a].allocated /\ a # c
      BY <2>3, <1>10
    <3>2. a \in Nat /\ c \in Nat
      BY <3>1, <1>2, Neighbours
    <3> QED
      BY <3>1, <3>2, <1>2, HeapAssumption DEF HeapInv, TypeOK
  <2>4. DOMAIN held' = {a + Header : a \in {b \in DOMAIN heap' : heap'[b].allocated}}
    BY <2>1, <2>2, <2>3
  <2>5. ASSUME NEW p \in DOMAIN held'
        PROVE  held'[p] \in Nat /\ held'[p] <= heap'[p - Header].size
    <3>1. p \in DOMAIN held /\ p # ptr /\ held'[p] = held[p]
      BY <2>1
    <3>2. PICK a \in DOMAIN heap' : heap'[a].allocated /\ p = a + Header
      BY <2>2, <3>1
    <3>3. a \in DOMAIN heap /\ heap'[a].size = heap[a].size
      BY <3>2, <1>10
    <3>4. p - Header = a
      BY <3>2, <3>3, <1>2, Neighbours, HeapAssumption
    <3> QED
      BY <3>1, <3>3, <3>4 DEF HeapInv, TypeOK
  <2>6. chunk = null
    BY <2>1 DEF HeapInv, TypeOK
  <2> QED
    BY <2>1, <2>4, <2>5, <2>6 DEF HeapInv, TypeOK
<1>12. FirstFit'
  BY DEF free, FirstFit
<1> QED
  BY <1>8, <1>9, <1>11, <1>12 DEF HeapInv

\* Every step of the heap preserves the invariant.
LEMMA StepInv == HeapInv /\ [Next]_vars => HeapInv'
<1> SUFFICES ASSUME HeapInv, [Next]_vars PROVE HeapInv'
  OBVIOUS
<1>1. CASE (\E n \in Requests : malloc(n)) \/ MallocSkip \/ MallocRefuse
  BY <1>1, WalkInv
<1>2. CASE MallocTake
  BY <1>2, TakeInv
<1>3. CASE \E p \in DOMAIN held : free(p)
  BY <1>3, FreeInv
<1>4. CASE UNCHANGED vars
  BY <1>4 DEF vars, HeapInv, TypeOK, HeapTiled, Tiled, End, NoFreeNeighbours, FirstFit, Fits
<1> QED
  BY <1>1, <1>2, <1>3, <1>4 DEF Next

-----------------------------------------------------------------------------
(* The theorems                                                             *)

\* After every malloc and free the chunk headers tile the heap and are linked
\* both ways, the allocated chunks are the blocks handed out, and no two free
\* chunks are neighbours.
THEOREM HeapInvariant == Spec => []HeapInv
<1> QED
  BY InitInv, StepInv, PTL DEF Spec

\* malloc is first fit: it refuses only when no free chunk is large enough.
THEOREM FirstFitCorrect == Spec => []FirstFit
<1>1. HeapInv => FirstFit
  BY DEF HeapInv
<1> QED
  BY <1>1, HeapInvariant, PTL

\* When all blocks are freed the heap is one chunk again: no memory is lost to
\* fragmentation, whatever the order of the calls of free was.
THEOREM HeapRestoredCorrect == Spec => []HeapRestored
<1>1. HeapInv => HeapRestored
  <2> SUFFICES ASSUME HeapInv, DOMAIN held = {}, NEW a \in DOMAIN heap, a # Start
               PROVE  FALSE
    BY DEF HeapRestored
  <2>1. \A b \in DOMAIN heap : ~heap[b].allocated
    BY DEF HeapInv, TypeOK
  <2>2. /\ heap[a].prev # null /\ heap[a].prev \in DOMAIN heap
        /\ heap[heap[a].prev].next = a
    BY DEF HeapInv, HeapTiled, Tiled
  <2>3. a # null
    BY Neighbours DEF HeapInv, HeapTiled
  <2> QED
    BY <2>1, <2>2, <2>3 DEF HeapInv, NoFreeNeighbours
<1> QED
  BY <1>1, HeapInvariant, PTL

\* The heap implements BlockHeap: a block handed out lies in the heap and
\* overlaps no block in use.
THEOREM HeapRefinesBlocks == Spec => ImplementsBlockHeap
<1>1. Init => Blocks!Init
  BY DEF Init, Blocks!Init
<1>2. HeapInv /\ [Next]_vars => [Blocks!Next]_held
  <2> SUFFICES ASSUME HeapInv, Next PROVE Blocks!Next \/ UNCHANGED held
    BY DEF vars
  <2>1. CASE (\E n \in Requests : malloc(n)) \/ MallocSkip \/ MallocRefuse
    BY <2>1 DEF malloc, MallocSkip, MallocRefuse
  <2>2. CASE \E p \in DOMAIN held : free(p)
    BY <2>2 DEF free, Blocks!Next, Blocks!Free
  <2>3. CASE MallocTake
    <3> DEFINE p == chunk + Header
    <3>1. /\ chunk \in DOMAIN heap /\ Tiled(heap) /\ ~heap[chunk].allocated
          /\ heap[chunk].size > request /\ request \in Nat /\ request \in Requests
      BY <2>3 DEF MallocTake, Fits, HeapInv, TypeOK, HeapTiled
    <3>2. /\ chunk \in Nat /\ heap[chunk].size \in Nat /\ Start <= chunk
          /\ End(heap, chunk) <= Limit /\ End(heap, chunk) \in Nat /\ Limit \in Nat
      BY <3>1, Neighbours, HeapAssumption DEF Tiled, Addresses, Limit
    <3>3. p \in Nat /\ Start <= p /\ p + request <= End(heap, chunk) /\ chunk < p
      BY <3>1, <3>2, HeapAssumption DEF End
    <3>4. ASSUME NEW q \in DOMAIN held
          PROVE  q # p /\ Blocks!Apart(p, request, q, held[q])
      <4>1. PICK b \in DOMAIN heap : heap[b].allocated /\ q = b + Header
        BY DEF HeapInv, TypeOK
      <4>2. /\ b \in Nat /\ b # chunk /\ q \in Nat /\ heap[b].size \in Nat
            /\ End(heap, b) \in Nat
        BY <4>1, <3>1, Neighbours, HeapAssumption
      <4>3. held[q] \in Nat /\ held[q] <= heap[b].size
        <5>1. q - Header = b
          BY <4>1, <4>2, HeapAssumption
        <5> QED
          BY <5>1 DEF HeapInv, TypeOK
      <4>4. q + held[q] <= End(heap, b)
        BY <4>1, <4>2, <4>3, HeapAssumption DEF End
      <4>5. CASE b < chunk
        <5>1. End(heap, b) <= chunk
          BY <4>5, <3>1, Disjoint
        <5> QED
          BY <5>1, <4>1, <4>2, <4>3, <4>4, <3>2, <3>3, HeapAssumption DEF Blocks!Apart
      <4>6. CASE chunk < b
        <5>1. End(heap, chunk) <= b
          BY <4>6, <3>1, Disjoint
        <5> QED
          BY <5>1, <4>1, <4>2, <4>3, <3>1, <3>2, <3>3, HeapAssumption DEF Blocks!Apart
      <4> QED
        BY <4>2, <4>5, <4>6, <3>2
    <3>5. held' = [q \in DOMAIN held \cup {p} |-> IF q = p THEN request ELSE held[q]]
      BY <2>3 DEF MallocTake
    <3>6. p \in Start .. Limit /\ p + request <= Limit
      BY <3>1, <3>2, <3>3
    <3> HIDE DEF p
    <3>7. Blocks!Malloc(p, request)
      BY <3>3, <3>4, <3>5, <3>6 DEF Blocks!Malloc
    <3> QED
      BY <3>1, <3>6, <3>7 DEF Blocks!Next
  <2> QED
    BY <2>1, <2>2, <2>3 DEF Next
<1> QED
  BY <1>1, <1>2, HeapInvariant, PTL DEF Spec, ImplementsBlockHeap, Blocks!Spec

\* The walk of malloc goes up through the heap and ends, for every heap and every history
\* of calls: what makes its loop end.
THEOREM WalkCorrect == Spec => WalkGoesUp
<1> DEFINE Up == pc = "scan" /\ pc' = "scan" =>
                     chunk' = null \/ (chunk + Header <= chunk' /\ chunk' + Header <= Limit)
<1>1. HeapInv /\ [Next]_vars => [Up]_vars
  <2> SUFFICES ASSUME HeapInv, Next, pc = "scan", pc' = "scan", chunk' # null
               PROVE  chunk + Header <= chunk' /\ chunk' + Header <= Limit
    OBVIOUS
  <2>1. /\ chunk \in DOMAIN heap /\ chunk' = heap[chunk].next
    BY DEF Next, malloc, MallocSkip, MallocTake, MallocRefuse, free, HeapInv, TypeOK
  <2>2. Tiled(heap)
    BY DEF HeapInv, HeapTiled
  <2>3. chunk' = End(heap, chunk) /\ chunk' \in DOMAIN heap
    BY <2>1, <2>2 DEF Tiled
  <2>4. End(heap, chunk') <= Limit /\ heap[chunk] \in Chunk /\ heap[chunk'] \in Chunk
    BY <2>1, <2>2, <2>3 DEF Tiled
  <2>5. /\ chunk \in Int /\ chunk' \in Int /\ Header \in Int /\ Limit \in Int
        /\ heap[chunk].size \in Nat /\ heap[chunk'].size \in Nat
    <3>1. Start \in Nat /\ Size \in Nat /\ Header \in Nat /\ Limit \in Int
      BY HeapAssumption DEF Limit
    <3>2. DOMAIN heap \subseteq Addresses /\ Addresses \subseteq Int
      BY <2>2, <3>1 DEF Tiled, Addresses
    <3>3. heap[chunk].size \in Nat /\ heap[chunk'].size \in Nat
      BY <2>4 DEF Chunk
    <3>4. chunk \in Int
      BY <2>1, <3>2
    <3>5. chunk' \in Int
      BY <2>3, <3>2
    <3> QED BY <3>1, <3>3, <3>4, <3>5
  <2> QED BY <2>3, <2>4, <2>5 DEF End
<1>2. WalkGoesUp <=> [][Up]_vars
  BY DEF WalkGoesUp
<1> QED BY <1>1, <1>2, HeapInvariant, PTL DEF Spec
=============================================================================
