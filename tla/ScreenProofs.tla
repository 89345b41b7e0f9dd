---------------------------- MODULE ScreenProofs ----------------------------
(***************************************************************************)
(* What the programs compute and what is on the screen: the searches, the  *)
(* cursor of printf, the mouse pointer, the windows of the desktop, and    *)
(* the integers that are printed and typed.                                *)
(***************************************************************************)
EXTENDS Searches, Console, Mouse, Desktop, IntToString, Scanf, Induction,
        SequenceTheorems

-----------------------------------------------------------------------------
(* Both searches are right for every array and every key.                   *)

SearchTypeOK ==
    /\ n \in Nat /\ arr \in [0 .. n - 1 -> Int] /\ key \in Int
    /\ bounds \in [low : Nat, high : Int] /\ bounds.high < n
    /\ i \in Nat
    /\ found \in [binary : Int, linear : Int]

SearchInv == SearchTypeOK /\ SearchesFind

LEMMA SearchStart == SearchInit => SearchInv
  <1> SUFFICES ASSUME SearchInit PROVE SearchInv
    OBVIOUS
  <1> USE SearchesAssumption DEF SearchInit
  <1>1. SearchTypeOK
    <2>1. n \in Nat /\ key \in Int /\ i \in Nat
      OBVIOUS
    <2>2. arr \in [0 .. n - 1 -> Int]
      OBVIOUS
    <2>3. bounds \in [low : Nat, high : Int] /\ bounds.high < n
      BY <2>1
    <2>4. found \in [binary : Int, linear : Int]
      BY DEF Running
    <2> QED
      BY <2>1, <2>2, <2>3, <2>4 DEF SearchTypeOK
  <1>2. SearchesFind
    BY <1>1 DEF SearchTypeOK, SearchesFind, Places, Running
  <1> QED
    BY <1>1, <1>2 DEF SearchInv

\* The middle lies between the bounds, and in the array.
LEMMA MiddleBetween ==
    ASSUME SearchTypeOK, LoopGoesOn
    PROVE  Middle \in Nat /\ bounds.low <= Middle /\ Middle <= bounds.high /\ Middle \in 0 .. n - 1
  <1> DEFINE d == bounds.high - bounds.low
  <1>1. d \in Nat
    BY DEF SearchTypeOK, LoopGoesOn
  <1>2. d \div 2 \in Nat /\ d \div 2 <= d
    BY <1>1
  <1>3. Middle = bounds.low + (d \div 2)
    BY DEF Middle
  <1>4. bounds.low \in Nat /\ bounds.high \in Int /\ n \in Nat /\ bounds.high < n
    BY DEF SearchTypeOK
  <1>5. bounds.low + d = bounds.high
    BY <1>4
  <1> HIDE DEF d
  <1> DEFINE h == d \div 2
  <1>6. h \in Nat /\ h <= d /\ Middle = bounds.low + h
    BY <1>2, <1>3
  <1> HIDE DEF h
  <1> QED
    BY <1>1, <1>4, <1>5, <1>6

LEMMA BinaryStep ==
    ASSUME SearchInv, binarySearch
    PROVE  SearchInv'
  <1> USE DEF SearchInv
  <1>0. UNCHANGED <<arr, n, key, i>> /\ found.binary = Running
    BY DEF binarySearch
  <1>1. Places' = Places /\ (Sorted' <=> Sorted)
    BY <1>0 DEF Places, Sorted
  <1>2. CASE LoopGoesOn /\ arr[Middle] = key /\ found' = [found EXCEPT !.binary = Middle] /\ UNCHANGED bounds
    <2>1. Middle \in Places /\ Middle # Running /\ Middle \in Int
      BY <1>2, MiddleBetween DEF Places, Running
    <2>2. SearchTypeOK'
      BY <1>0, <1>2, <2>1 DEF SearchTypeOK
    <2>3. found'.binary = Middle /\ found'.linear = found.linear
      BY <1>2 DEF SearchTypeOK
    <2> QED
      BY <1>0, <1>1, <1>2, <2>1, <2>2, <2>3 DEF SearchesFind
  <1>3. CASE LoopGoesOn /\ arr[Middle] < key /\ bounds' = [bounds EXCEPT !.low = Middle + 1] /\ UNCHANGED found
    <2>1. Middle \in 0 .. n - 1
      BY <1>3, MiddleBetween
    <2>2. bounds'.low = Middle + 1 /\ bounds'.high = bounds.high
      BY <1>3 DEF SearchTypeOK
    <2>3. SearchTypeOK'
      BY <1>0, <1>3, <2>1, <2>2 DEF SearchTypeOK
    <2>4. ASSUME Sorted, NEW j \in Places PROVE Middle + 1 <= j
      <3>1. j \in 0 .. n - 1 /\ arr[j] = key
        BY DEF Places
      <3>2. j <= Middle => arr[j] <= arr[Middle]
        BY <2>1, <2>4, <3>1 DEF Sorted
      <3> QED
        BY <1>3, <2>1, <3>1, <3>2 DEF SearchTypeOK
    <2> QED
      BY <1>0, <1>1, <1>3, <2>2, <2>3, <2>4 DEF SearchesFind
  <1>4. CASE LoopGoesOn /\ arr[Middle] > key /\ bounds' = [bounds EXCEPT !.high = Middle - 1] /\ UNCHANGED found
    <2>1. Middle \in 0 .. n - 1
      BY <1>4, MiddleBetween
    <2>2. bounds'.low = bounds.low /\ bounds'.high = Middle - 1
      BY <1>4 DEF SearchTypeOK
    <2>3. SearchTypeOK'
      BY <1>0, <1>4, <2>1, <2>2 DEF SearchTypeOK
    <2>4. ASSUME Sorted, NEW j \in Places PROVE j <= Middle - 1
      <3>1. j \in 0 .. n - 1 /\ arr[j] = key
        BY DEF Places
      <3>2. Middle <= j => arr[Middle] <= arr[j]
        BY <2>1, <2>4, <3>1 DEF Sorted
      <3> QED
        BY <1>4, <2>1, <3>1, <3>2 DEF SearchTypeOK
    <2> QED
      BY <1>0, <1>1, <1>4, <2>2, <2>3, <2>4 DEF SearchesFind
  <1>5. CASE ~LoopGoesOn /\ found' = [found EXCEPT !.binary = -1] /\ UNCHANGED bounds
    <2>1. found'.binary = -1 /\ found'.linear = found.linear
      BY <1>5 DEF SearchTypeOK
    <2>2. SearchTypeOK'
      BY <1>0, <1>5, <2>1 DEF SearchTypeOK
    <2>3. Sorted => Places = {}
      <3> SUFFICES ASSUME Sorted, NEW j \in Places PROVE FALSE
        OBVIOUS
      <3>1. j \in Int /\ bounds.low <= j /\ j <= bounds.high
        BY <1>0 DEF SearchesFind, Places
      <3> QED
        BY <1>5, <3>1 DEF LoopGoesOn, SearchTypeOK
    <2> QED
      BY <1>0, <1>1, <2>1, <2>2, <2>3 DEF SearchesFind, Running
  <1> QED
    BY <1>2, <1>3, <1>4, <1>5 DEF binarySearch

LEMMA LinearStep ==
    ASSUME SearchInv, linearSearch
    PROVE  SearchInv'
  <1> USE DEF SearchInv
  <1>0. UNCHANGED <<arr, n, key, bounds>> /\ found.linear = Running
    BY DEF linearSearch
  <1>1. Places' = Places /\ (Sorted' <=> Sorted)
    BY <1>0 DEF Places, Sorted
  <1>2. \A j \in Places : j \in Nat /\ i <= j /\ j < n
    BY <1>0 DEF SearchesFind, Places, SearchTypeOK
  <1>3. CASE i < n /\ arr[i] = key /\ found' = [found EXCEPT !.linear = i] /\ UNCHANGED i
    <2>1. found'.linear = i /\ found'.binary = found.binary
      BY <1>3 DEF SearchTypeOK
    <2>2. SearchTypeOK'
      BY <1>0, <1>3, <2>1 DEF SearchTypeOK
    <2>3. i \in Places /\ i # Running
      BY <1>3 DEF Places, SearchTypeOK, Running
    <2> QED
      BY <1>0, <1>1, <1>2, <2>1, <2>2, <2>3 DEF SearchesFind
  <1>4. CASE i < n /\ arr[i] # key /\ i' = i + 1 /\ UNCHANGED found
    <2>1. SearchTypeOK'
      BY <1>0, <1>4 DEF SearchTypeOK
    <2>2. \A j \in Places : i + 1 <= j
      BY <1>2, <1>4 DEF Places, SearchTypeOK
    <2> QED
      BY <1>0, <1>1, <1>4, <2>1, <2>2 DEF SearchesFind
  <1>5. CASE i >= n /\ found' = [found EXCEPT !.linear = -1] /\ UNCHANGED i
    <2>1. found'.linear = -1 /\ found'.binary = found.binary
      BY <1>5 DEF SearchTypeOK
    <2>2. SearchTypeOK'
      BY <1>0, <1>5, <2>1 DEF SearchTypeOK
    <2>3. Places = {}
      BY <1>2, <1>5 DEF SearchTypeOK
    <2> QED
      BY <1>0, <1>1, <2>1, <2>2, <2>3 DEF SearchesFind, Running
  <1> QED
    BY <1>3, <1>4, <1>5 DEF linearSearch

\* In every array, however long, linearSearch finds the first place of the key and
\* binarySearch, when the array is sorted, some place of it, or -1 when there is none.
THEOREM SearchesCorrect == SearchSpec => []SearchesFind
  <1>1. SearchInv /\ [SearchNext]_searchVars => SearchInv'
    <2> SUFFICES ASSUME SearchInv, [SearchNext]_searchVars PROVE SearchInv'
      OBVIOUS
    <2>1. CASE binarySearch
      BY <2>1, BinaryStep
    <2>2. CASE linearSearch
      BY <2>2, LinearStep
    <2>3. CASE UNCHANGED searchVars
      BY <2>3 DEF searchVars, SearchInv, SearchTypeOK, SearchesFind, Places, Sorted
    <2> QED
      BY <2>1, <2>2, <2>3 DEF SearchNext, Searched
  <1>2. SearchInv => SearchesFind
    BY DEF SearchInv
  <1> QED
    BY SearchStart, <1>1, <1>2, PTL DEF SearchSpec

-----------------------------------------------------------------------------
(* The cursor of printf.                                                     *)

\* Where a process is on its way to a test of x, or to setting it to 0.
WillCheckX ==
    {"row", "cell", "advance", "advance x", "newline", "newline y", "test x", "wrap x",
     "clear", "clear test y", "clear line", "clear test x", "clear row", "clear cell",
     "clear advance", "clear advance x", "clear next", "clear next y", "home x"}

\* All places inside printf, and outside of it.
PrintfSteps == WillCheckX \cup {"wrap", "wrap y", "test y", "home y"}
ConsoleSteps == PrintfSteps \cup {"idle"}

ConsoleTypeOK ==
    /\ x \in 0 .. Bytes - 1 /\ y \in 0 .. Bytes - 1
    /\ step \in [Printers -> ConsoleSteps]
    /\ register \in [Printers -> 0 .. Bytes - 1]
    /\ index \in Int
    /\ company \in {"none", "interrupts", "processes"}

\* Whoever took the cursor beyond the screen is still on the way to bring it back.
CursorWatched ==
    /\ x >= Columns => \E p \in Printers : step[p] \in WillCheckX
    /\ y >= Rows => \E p \in Printers : step[p] # "idle"

\* What a process that prints alone finds at each step s, with r loaded: where x and y
\* are on the screen, and where what it has loaded was.
Bounds(s, r) ==
    /\ s \in {"row", "cell", "advance", "advance x", "newline", "newline y", "wrap", "wrap y",
              "test y", "clear", "clear row", "clear cell", "clear advance",
              "clear advance x", "home y"} => x < Columns
    /\ s \in {"row", "cell", "advance", "advance x", "newline", "newline y", "wrap x", "wrap",
              "wrap y", "clear line", "clear test x", "clear row", "clear cell",
              "clear advance", "clear advance x", "clear next", "clear next y"} => y < Rows
    /\ s \in {"cell", "newline y", "wrap y", "clear cell", "clear next y"} => r < Rows
    /\ s \in {"advance x", "clear advance x"} => r < Columns
    /\ s = "test x" /\ x >= Columns => y < Rows

Alone ==
    company # "processes" =>
        /\ \A p, q \in Printers : step[p] # "idle" /\ step[q] # "idle" => p = q
        /\ x <= Columns /\ y <= Rows
        /\ \A p \in Printers : Bounds(step[p], register[p])

NobodyInside == (\A p \in Printers : step[p] = "idle") => company = "none"

ConsoleInv == ConsoleTypeOK /\ CursorWatched /\ Alone /\ NobodyInside

LEMMA ScreenSize ==
    /\ Bytes \in Nat /\ Columns \in Nat /\ Rows \in Nat
    /\ Columns > 0 /\ Rows > 0 /\ Columns < Bytes /\ Rows < Bytes
  BY ConsoleAssumption

LEMMA ByteSmall == ASSUME NEW k \in 0 .. Bytes - 1 PROVE Byte(k) = k
  <1>1. \A m \in Nat \ {0}, a \in Nat : a < m => a % m = a
    BY Z3
  <1> QED
    BY <1>1, ScreenSize DEF Byte

LEMMA ByteRange == ASSUME NEW k \in Int PROVE Byte(k) \in 0 .. Bytes - 1
  <1>1. \A m \in Nat \ {0}, a \in Int : a % m \in 0 .. m - 1
    BY Z3
  <1> QED
    BY <1>1, ScreenSize DEF Byte

LEMMA ConsoleStart == ConsoleInit => ConsoleInv
  BY ScreenSize DEF ConsoleInit, ConsoleInv, ConsoleTypeOK, CursorWatched, Alone, Bounds,
      NobodyInside, ConsoleSteps, PrintfSteps, WillCheckX

\* The company of a process that takes a step, without sets.
LEMMA CompanyAfter ==
    ASSUME ConsoleInv, NEW p \in Printers, printf(p), ConsoleTypeOK'
    PROVE  /\ (\A q \in Printers : step'[q] = "idle") => company' = "none"
           /\ company' # "processes" =>
                 /\ \A q \in Printers : step'[q] # "idle" => q = p
                 /\ step'[p] # "idle" => company' = company
  BY DEF printf, Inside

\* The same for the step s of one process, the only one inside.
AloneAt(s, r) ==
    /\ x <= Columns /\ y <= Rows
    /\ Bounds(s, r)
    /\ s = "idle" => x < Columns /\ y < Rows

\* What a step of one process has to show: the cursor is watched by this process when it
\* has moved it, and if it was alone it finds what Bounds says.
LEMMA StepKeeps ==
    ASSUME ConsoleInv, NEW p \in Printers, printf(p), ConsoleTypeOK',
           NEW s, step' = [step EXCEPT ![p] = s],
           x' >= Columns => s \in WillCheckX \/ (x' = x /\ step[p] \notin WillCheckX),
           y' >= Rows => s # "idle",
           \A q \in Printers : q # p => register'[q] = register[q],
           AloneAt(step[p], register[p]) => AloneAt(s, register[p])'
    PROVE  ConsoleInv'
  <1>1. /\ (\A q \in Printers : step'[q] = "idle") => company' = "none"
        /\ company' # "processes" =>
              /\ \A q \in Printers : step'[q] # "idle" => q = p
              /\ step'[p] # "idle" => company' = company
    BY CompanyAfter
  <1>2. step'[p] = s /\ \A q \in Printers : q # p => step'[q] = step[q]
    BY DEF ConsoleInv, ConsoleTypeOK
  <1>3. CursorWatched'
    <2>1. ASSUME x' >= Columns PROVE \E q \in Printers : step'[q] \in WillCheckX
      <3>1. CASE s \in WillCheckX
        BY <1>2, <3>1
      <3>2. CASE x' = x /\ step[p] \notin WillCheckX
        <4>1. PICK q \in Printers : step[q] \in WillCheckX
          BY <2>1, <3>2 DEF ConsoleInv, CursorWatched
        <4> QED
          BY <1>2, <3>2, <4>1
      <3> QED
        BY <2>1, <3>1, <3>2
    <2>2. y' >= Rows => \E q \in Printers : step'[q] # "idle"
      BY <1>2
    <2> QED
      BY <2>1, <2>2 DEF CursorWatched
  <1>4. Alone'
    <2> SUFFICES ASSUME company' # "processes"
                 PROVE  /\ \A q, r \in Printers : step'[q] # "idle" /\ step'[r] # "idle" => q = r
                        /\ x' <= Columns /\ y' <= Rows
                        /\ \A q \in Printers : Bounds(step[q], register[q])'
      BY DEF Alone
    <2>1. \A q \in Printers : step'[q] # "idle" => q = p
      BY <1>1
    <2>2. \A q \in Printers : step'[q] = "idle" => Bounds(step[q], register[q])'
      BY DEF Bounds
    <2>3. CASE s = "idle"
      <3>1. \A q \in Printers : step'[q] = "idle"
        BY <1>2, <2>1, <2>3
      <3>2. ~(x' >= Columns) /\ ~(y' >= Rows)
        BY <1>3, <3>1 DEF CursorWatched, WillCheckX
      <3>3. x' \in Nat /\ y' \in Nat
        BY DEF ConsoleTypeOK
      <3> QED
        BY <2>1, <2>2, <3>1, <3>2, <3>3, ScreenSize
    <2>4. CASE s # "idle"
      <3>1. company # "processes"
        BY <1>1, <1>2, <2>4
      <3>2. x <= Columns /\ y <= Rows /\ Bounds(step[p], register[p])
        BY <3>1 DEF ConsoleInv, Alone
      <3>3. step[p] = "idle" => x < Columns /\ y < Rows
        <4> SUFFICES ASSUME step[p] = "idle" PROVE x < Columns /\ y < Rows
          OBVIOUS
        <4>1. \A q \in Printers : step[q] = "idle"
          BY <1>2, <2>1
        <4>2. ~(x >= Columns) /\ ~(y >= Rows)
          BY <4>1 DEF ConsoleInv, CursorWatched, WillCheckX
        <4> QED
          BY <4>2, ScreenSize DEF ConsoleInv, ConsoleTypeOK
      <3>4. AloneAt(s, register[p])'
        BY <3>2, <3>3 DEF AloneAt
      <3>5. x' <= Columns /\ y' <= Rows /\ Bounds(step[p], register[p])'
        BY <1>2, <3>4 DEF AloneAt, Bounds
      <3>6. \A q \in Printers : Bounds(step[q], register[q])'
        BY <2>1, <2>2, <3>5
      <3> QED
        BY <2>1, <3>5, <3>6
    <2> QED
      BY <2>3, <2>4
  <1>5. NobodyInside'
    BY <1>1 DEF NobodyInside
  <1> QED
    BY <1>3, <1>4, <1>5 DEF ConsoleInv

\* A step along an edge of the control flow keeps the types.
LEMMA EdgeKeepsTypes ==
    ASSUME ConsoleInv, NEW p \in Printers, printf(p),
           NEW s \in ConsoleSteps, step' = [step EXCEPT ![p] = s],
           x' \in 0 .. Bytes - 1, y' \in 0 .. Bytes - 1, index' \in Int,
           NEW r \in 0 .. Bytes - 1, register' = [register EXCEPT ![p] = r]
    PROVE  /\ ConsoleTypeOK'
           /\ register'[p] = r
           /\ \A q \in Printers : q # p => register'[q] = register[q]
  <1>1. company' \in {"none", "interrupts", "processes"}
    BY DEF printf, ConsoleInv, ConsoleTypeOK
  <1> QED
    BY <1>1 DEF ConsoleInv, ConsoleTypeOK

LEMMA SameRegister ==
    ASSUME ConsoleInv, NEW p \in Printers, register' = register
    PROVE  register[p] \in 0 .. Bytes - 1 /\ register' = [register EXCEPT ![p] = register[p]]
  BY DEF ConsoleInv, ConsoleTypeOK

LEMMA LoadYKeeps ==
    ASSUME ConsoleInv, NEW p \in Printers, printf(p), LoadY(p)
    PROVE  ConsoleInv'
  <1>1. PICK s :
           /\ step' = [step EXCEPT ![p] = s]
           /\ \/ step[p] = "row" /\ s = "cell"
              \/ step[p] = "clear row" /\ s = "clear cell"
              \/ step[p] = "newline" /\ s = "newline y"
              \/ step[p] = "wrap" /\ s = "wrap y"
              \/ step[p] = "clear next" /\ s = "clear next y"
    BY DEF LoadY, Along
  <1>2. register' = [register EXCEPT ![p] = y] /\ UNCHANGED <<x, y, index>>
    BY DEF LoadY
  <1>3. x \in 0 .. Bytes - 1 /\ y \in 0 .. Bytes - 1 /\ index \in Int
    BY DEF ConsoleInv, ConsoleTypeOK
  <1>4. s \in ConsoleSteps
    BY <1>1 DEF ConsoleSteps, PrintfSteps, WillCheckX
  <1>5. /\ ConsoleTypeOK' /\ register'[p] = y
        /\ \A q \in Printers : q # p => register'[q] = register[q]
    BY <1>1, <1>2, <1>3, <1>4, EdgeKeepsTypes
  <1>6. x' >= Columns => s \in WillCheckX \/ (x' = x /\ step[p] \notin WillCheckX)
    BY <1>1, <1>2 DEF WillCheckX
  <1>7. AloneAt(step[p], register[p]) => AloneAt(s, register[p])'
    BY <1>1, <1>2, <1>5 DEF AloneAt, Bounds
  <1>8. y' >= Rows => s # "idle"
    BY <1>1
  <1> QED
    BY <1>1, <1>5, <1>6, <1>7, <1>8, StepKeeps

LEMMA StoreCellKeeps ==
    ASSUME ConsoleInv, NEW p \in Printers, printf(p), StoreCell(p)
    PROVE  ConsoleInv'
  <1>1. PICK s :
           /\ step' = [step EXCEPT ![p] = s]
           /\ \/ step[p] = "cell" /\ s = "advance"
              \/ step[p] = "clear cell" /\ s = "clear advance"
    BY DEF StoreCell, Along
  <1>2. register' = register /\ index' = Columns * register[p] + x /\ UNCHANGED <<x, y>>
    BY DEF StoreCell
  <1>3. x \in 0 .. Bytes - 1 /\ y \in 0 .. Bytes - 1
    BY DEF ConsoleInv, ConsoleTypeOK
  <1>4. s \in ConsoleSteps
    BY <1>1 DEF ConsoleSteps, PrintfSteps, WillCheckX
  <1>5. register[p] \in 0 .. Bytes - 1 /\ register' = [register EXCEPT ![p] = register[p]]
    BY <1>2, SameRegister
  <1>6. index' \in Int
    BY <1>2, <1>3, <1>5, ScreenSize
  <1>7. /\ ConsoleTypeOK' /\ register'[p] = register[p]
        /\ \A q \in Printers : q # p => register'[q] = register[q]
    BY <1>1, <1>2, <1>3, <1>4, <1>5, <1>6, EdgeKeepsTypes
  <1>8. x' >= Columns => s \in WillCheckX \/ (x' = x /\ step[p] \notin WillCheckX)
    BY <1>1, <1>2 DEF WillCheckX
  <1>9. AloneAt(step[p], register[p]) => AloneAt(s, register[p])'
    BY <1>1, <1>2, <1>7 DEF AloneAt, Bounds
  <1>10. y' >= Rows => s # "idle"
    BY <1>1
  <1> QED
    BY <1>1, <1>7, <1>8, <1>9, <1>10, StepKeeps

LEMMA LoadXKeeps ==
    ASSUME ConsoleInv, NEW p \in Printers, printf(p), LoadX(p)
    PROVE  ConsoleInv'
  <1>1. PICK s :
           /\ step' = [step EXCEPT ![p] = s]
           /\ \/ step[p] = "advance" /\ s = "advance x"
              \/ step[p] = "clear advance" /\ s = "clear advance x"
    BY DEF LoadX, Along
  <1>2. register' = [register EXCEPT ![p] = x] /\ UNCHANGED <<x, y, index>>
    BY DEF LoadX
  <1>3. x \in 0 .. Bytes - 1 /\ y \in 0 .. Bytes - 1 /\ index \in Int
    BY DEF ConsoleInv, ConsoleTypeOK
  <1>4. s \in ConsoleSteps
    BY <1>1 DEF ConsoleSteps, PrintfSteps, WillCheckX
  <1>5. /\ ConsoleTypeOK' /\ register'[p] = x
        /\ \A q \in Printers : q # p => register'[q] = register[q]
    BY <1>1, <1>2, <1>3, <1>4, EdgeKeepsTypes
  <1>6. x' >= Columns => s \in WillCheckX \/ (x' = x /\ step[p] \notin WillCheckX)
    BY <1>1, <1>2 DEF WillCheckX
  <1>7. AloneAt(step[p], register[p]) => AloneAt(s, register[p])'
    BY <1>1, <1>2, <1>5 DEF AloneAt, Bounds
  <1>8. y' >= Rows => s # "idle"
    BY <1>1
  <1> QED
    BY <1>1, <1>5, <1>6, <1>7, <1>8, StepKeeps

LEMMA StoreXKeeps ==
    ASSUME ConsoleInv, NEW p \in Printers, printf(p), StoreX(p)
    PROVE  ConsoleInv'
  <1>1. PICK s :
           /\ step' = [step EXCEPT ![p] = s]
           /\ \/ step[p] = "advance x" /\ s = "test x"
              \/ step[p] = "clear advance x" /\ s = "clear test x"
    BY DEF StoreX, Along
  <1>2. register' = register /\ x' = Byte(register[p] + 1) /\ UNCHANGED <<y, index>>
    BY DEF StoreX
  <1>3. y \in 0 .. Bytes - 1 /\ index \in Int
    BY DEF ConsoleInv, ConsoleTypeOK
  <1>4. s \in ConsoleSteps
    BY <1>1 DEF ConsoleSteps, PrintfSteps, WillCheckX
  <1>5. register[p] \in 0 .. Bytes - 1 /\ register' = [register EXCEPT ![p] = register[p]]
    BY <1>2, SameRegister
  <1>6. x' \in 0 .. Bytes - 1
    BY <1>2, <1>5, ByteRange
  <1>7. /\ ConsoleTypeOK' /\ register'[p] = register[p]
        /\ \A q \in Printers : q # p => register'[q] = register[q]
    BY <1>1, <1>2, <1>3, <1>4, <1>5, <1>6, EdgeKeepsTypes
  <1>8. x' >= Columns => s \in WillCheckX \/ (x' = x /\ step[p] \notin WillCheckX)
    BY <1>1 DEF WillCheckX
  <1>9. ASSUME AloneAt(step[p], register[p]) PROVE AloneAt(s, register[p])'
    <2>1. register[p] < Columns /\ y <= Rows /\ y < Rows
      BY <1>1, <1>9 DEF AloneAt, Bounds
    <2>2. register[p] + 1 \in 0 .. Bytes - 1
      BY <1>5, <2>1, ScreenSize
    <2>3. x' = register[p] + 1 /\ x' <= Columns
      BY <1>2, <1>5, <2>1, <2>2, ByteSmall, ScreenSize
    <2> QED
      BY <1>1, <1>2, <2>1, <2>3 DEF AloneAt, Bounds
  <1>10. y' >= Rows => s # "idle"
    BY <1>1
  <1> QED
    BY <1>1, <1>7, <1>8, <1>9, <1>10, StepKeeps

LEMMA StoreYKeeps ==
    ASSUME ConsoleInv, NEW p \in Printers, printf(p), StoreY(p)
    PROVE  ConsoleInv'
  <1>1. PICK s :
           /\ step' = [step EXCEPT ![p] = s]
           /\ \/ step[p] = "newline y" /\ s = "test x"
              \/ step[p] = "wrap y" /\ s = "test y"
              \/ step[p] = "clear next y" /\ s = "clear test y"
    BY DEF StoreY, Along
  <1>2. register' = register /\ y' = Byte(register[p] + 1) /\ UNCHANGED <<x, index>>
    BY DEF StoreY
  <1>3. x \in 0 .. Bytes - 1 /\ index \in Int
    BY DEF ConsoleInv, ConsoleTypeOK
  <1>4. s \in ConsoleSteps
    BY <1>1 DEF ConsoleSteps, PrintfSteps, WillCheckX
  <1>5. register[p] \in 0 .. Bytes - 1 /\ register' = [register EXCEPT ![p] = register[p]]
    BY <1>2, SameRegister
  <1>6. y' \in 0 .. Bytes - 1
    BY <1>2, <1>5, ByteRange
  <1>7. /\ ConsoleTypeOK' /\ register'[p] = register[p]
        /\ \A q \in Printers : q # p => register'[q] = register[q]
    BY <1>1, <1>2, <1>3, <1>4, <1>5, <1>6, EdgeKeepsTypes
  <1>8. x' >= Columns => s \in WillCheckX \/ (x' = x /\ step[p] \notin WillCheckX)
    BY <1>1, <1>2 DEF WillCheckX
  <1>9. ASSUME AloneAt(step[p], register[p]) PROVE AloneAt(s, register[p])'
    <2>1. register[p] < Rows /\ x <= Columns
      BY <1>1, <1>9 DEF AloneAt, Bounds
    <2>2. register[p] + 1 \in 0 .. Bytes - 1
      BY <1>5, <2>1, ScreenSize
    <2>3. y' = register[p] + 1 /\ y' <= Rows
      BY <1>2, <1>5, <2>1, <2>2, ByteSmall, ScreenSize
    <2>4. s \in {"test x", "test y"} => x < Columns
      BY <1>1, <1>9 DEF AloneAt, Bounds
    <2>5. x < Columns => ~(x >= Columns)
      BY <1>3, ScreenSize
    <2> QED
      BY <1>1, <1>2, <2>1, <2>3, <2>4, <2>5 DEF AloneAt, Bounds
  <1>10. y' >= Rows => s # "idle"
    BY <1>1
  <1> QED
    BY <1>1, <1>7, <1>8, <1>9, <1>10, StepKeeps

LEMMA ZeroXKeeps ==
    ASSUME ConsoleInv, NEW p \in Printers, printf(p), ZeroX(p)
    PROVE  ConsoleInv'
  <1>1. PICK s :
           /\ step' = [step EXCEPT ![p] = s]
           /\ \/ step[p] = "idle" /\ s = "newline"
              \/ step[p] = "wrap x" /\ s = "wrap"
              \/ step[p] = "clear line" /\ s = "clear test x"
              \/ step[p] = "home x" /\ s = "home y"
    BY DEF ZeroX, Along
  <1>2. register' = register /\ x' = 0 /\ UNCHANGED <<y, index>>
    BY DEF ZeroX
  <1>3. y \in 0 .. Bytes - 1 /\ index \in Int /\ 0 \in 0 .. Bytes - 1
    BY ScreenSize DEF ConsoleInv, ConsoleTypeOK
  <1>4. s \in ConsoleSteps
    BY <1>1 DEF ConsoleSteps, PrintfSteps, WillCheckX
  <1>5. register[p] \in 0 .. Bytes - 1 /\ register' = [register EXCEPT ![p] = register[p]]
    BY <1>2, SameRegister
  <1>6. /\ ConsoleTypeOK' /\ register'[p] = register[p]
        /\ \A q \in Printers : q # p => register'[q] = register[q]
    BY <1>1, <1>2, <1>3, <1>4, <1>5, EdgeKeepsTypes
  <1>7. x' < Columns /\ x' <= Columns /\ ~(x' >= Columns)
    BY <1>2, ScreenSize
  <1>8. AloneAt(step[p], register[p]) => AloneAt(s, register[p])'
    BY <1>1, <1>2, <1>6, <1>7 DEF AloneAt, Bounds
  <1>9. y' >= Rows => s # "idle"
    BY <1>1
  <1> QED
    BY <1>1, <1>6, <1>7, <1>8, <1>9, StepKeeps

LEMMA ZeroYKeeps ==
    ASSUME ConsoleInv, NEW p \in Printers, printf(p), ZeroY(p)
    PROVE  ConsoleInv'
  <1>1. PICK s :
           /\ step' = [step EXCEPT ![p] = s]
           /\ \/ step[p] = "clear" /\ s = "clear test y"
              \/ step[p] = "home y" /\ s = "idle"
    BY DEF ZeroY, Along
  <1>2. register' = register /\ y' = 0 /\ UNCHANGED <<x, index>>
    BY DEF ZeroY
  <1>3. x \in 0 .. Bytes - 1 /\ index \in Int /\ 0 \in 0 .. Bytes - 1
    BY ScreenSize DEF ConsoleInv, ConsoleTypeOK
  <1>4. s \in ConsoleSteps
    BY <1>1 DEF ConsoleSteps, PrintfSteps, WillCheckX
  <1>5. register[p] \in 0 .. Bytes - 1 /\ register' = [register EXCEPT ![p] = register[p]]
    BY <1>2, SameRegister
  <1>6. /\ ConsoleTypeOK' /\ register'[p] = register[p]
        /\ \A q \in Printers : q # p => register'[q] = register[q]
    BY <1>1, <1>2, <1>3, <1>4, <1>5, EdgeKeepsTypes
  <1>7. y' < Rows /\ y' <= Rows /\ ~(y' >= Rows)
    BY <1>2, ScreenSize
  <1>8. x' >= Columns => s \in WillCheckX \/ (x' = x /\ step[p] \notin WillCheckX)
    BY <1>1, <1>2 DEF WillCheckX
  <1>9. AloneAt(step[p], register[p]) => AloneAt(s, register[p])'
    BY <1>1, <1>2, <1>6, <1>7 DEF AloneAt, Bounds
  <1> QED
    BY <1>1, <1>6, <1>7, <1>8, <1>9, StepKeeps

\* Begin and Test leave the cursor alone.
LEMMA TestKeeps ==
    ASSUME ConsoleInv, NEW p \in Printers, printf(p), Begin(p) \/ Test(p)
    PROVE  ConsoleInv'
  <1>1. PICK s :
           /\ step' = [step EXCEPT ![p] = s]
           /\ \/ step[p] = "idle" /\ s = "row"
              \/ step[p] = "test x" /\ s = "wrap x" /\ x >= Columns
              \/ step[p] = "test x" /\ s = "test y" /\ ~(x >= Columns)
              \/ step[p] = "test y" /\ s = "clear"
              \/ step[p] = "test y" /\ s = "idle" /\ ~(y >= Rows)
              \/ step[p] = "clear test x" /\ s = "clear row" /\ x < Columns
              \/ step[p] = "clear test x" /\ s = "clear next"
              \/ step[p] = "clear test y" /\ s = "clear line" /\ y < Rows
              \/ step[p] = "clear test y" /\ s = "home x"
    BY DEF Begin, Test, Along, BehindLine, BelowScreen
  <1>2. UNCHANGED <<x, y, register, index>>
    BY DEF Begin, Test
  <1>3. x \in 0 .. Bytes - 1 /\ y \in 0 .. Bytes - 1 /\ index \in Int
    BY DEF ConsoleInv, ConsoleTypeOK
  <1>4. s \in ConsoleSteps
    BY <1>1 DEF ConsoleSteps, PrintfSteps, WillCheckX
  <1>5. register[p] \in 0 .. Bytes - 1 /\ register' = [register EXCEPT ![p] = register[p]]
    BY <1>2, SameRegister
  <1>6. /\ ConsoleTypeOK' /\ register'[p] = register[p]
        /\ \A q \in Printers : q # p => register'[q] = register[q]
    BY <1>1, <1>2, <1>3, <1>4, <1>5, EdgeKeepsTypes
  <1>7. (~(x >= Columns) => x < Columns) /\ (~(y >= Rows) => y < Rows)
    BY <1>3, ScreenSize
  <1>8. x' >= Columns => s \in WillCheckX \/ (x' = x /\ step[p] \notin WillCheckX)
    BY <1>1, <1>2 DEF WillCheckX
  <1>9. y' >= Rows => s # "idle"
    BY <1>1, <1>2
  <1>10. AloneAt(step[p], register[p]) => AloneAt(s, register[p])'
    BY <1>1, <1>2, <1>6, <1>7 DEF AloneAt, Bounds
  <1> QED
    BY <1>1, <1>6, <1>8, <1>9, <1>10, StepKeeps

\* An interrupt that prints leaves the cursor on the screen.
LEMMA InterruptKeeps ==
    ASSUME ConsoleInv, NEW newline \in BOOLEAN, printfInterrupt(newline)
    PROVE  ConsoleInv'
  <1> DEFINE x1 == IF newline THEN 0 ELSE Byte(x + 1)
             y1 == IF newline THEN Byte(y + 1) ELSE y
             x2 == IF x1 >= Columns THEN 0 ELSE x1
             y2 == IF x1 >= Columns THEN Byte(y1 + 1) ELSE y1
  <1>1. /\ x \in 0 .. Bytes - 1 /\ y \in 0 .. Bytes - 1 /\ index \in Int
        /\ x + 1 \in Int /\ y + 1 \in Int
    BY ScreenSize DEF ConsoleInv, ConsoleTypeOK
  <1>2. Byte(x + 1) \in 0 .. Bytes - 1 /\ Byte(y + 1) \in 0 .. Bytes - 1
    BY <1>1, ByteRange
  <1>3. x1 \in 0 .. Bytes - 1 /\ y1 \in 0 .. Bytes - 1
    BY <1>1, <1>2, ScreenSize
  <1>4. /\ x' = IF y2 >= Rows THEN 0 ELSE x2
        /\ y' = IF y2 >= Rows THEN 0 ELSE y2
        /\ index' = IF newline THEN index ELSE Columns * y + x
        /\ company' = IF Inside # {} /\ company = "none" THEN "interrupts" ELSE company
        /\ UNCHANGED <<step, register>>
    BY DEF printfInterrupt
  <1> HIDE DEF x1, y1
  <1>5. y1 + 1 \in Int
    BY <1>3, ScreenSize
  <1>6. Byte(y1 + 1) \in 0 .. Bytes - 1
    BY <1>5, ByteRange
  <1>7. x2 \in 0 .. Bytes - 1 /\ x2 < Columns /\ y2 \in 0 .. Bytes - 1
    BY <1>3, <1>6, ScreenSize
  <1> HIDE DEF x2, y2
  <1>8. /\ x' \in 0 .. Bytes - 1 /\ y' \in 0 .. Bytes - 1 /\ x' < Columns /\ y' < Rows
        /\ ~(x' >= Columns) /\ ~(y' >= Rows) /\ x' <= Columns /\ y' <= Rows
    BY <1>4, <1>7, ScreenSize
  <1>9. index' \in Int
    BY <1>1, <1>4, ScreenSize
  <1>10. company' \in {"none", "interrupts", "processes"}
    BY <1>4 DEF ConsoleInv, ConsoleTypeOK
  <1>11. ConsoleTypeOK'
    BY <1>4, <1>8, <1>9, <1>10 DEF ConsoleInv, ConsoleTypeOK
  <1>12. CursorWatched'
    BY <1>8 DEF CursorWatched
  <1>13. Alone'
    <2>1. company' # "processes" => company # "processes"
      BY <1>4
    <2>2. \A p \in Printers :
             Bounds(step[p], register[p]) => Bounds(step[p], register[p])'
      BY <1>4, <1>8 DEF Bounds
    <2> QED
      BY <1>4, <1>8, <2>1, <2>2 DEF Alone, ConsoleInv
  <1>14. NobodyInside'
    <2>1. (\A p \in Printers : step[p] = "idle") => Inside = {}
      BY DEF Inside
    <2> QED
      BY <1>4, <2>1 DEF NobodyInside, ConsoleInv
  <1> QED
    BY <1>11, <1>12, <1>13, <1>14 DEF ConsoleInv

LEMMA ConsoleStep == ConsoleInv /\ [ConsoleNext]_consoleVars => ConsoleInv'
  <1> SUFFICES ASSUME ConsoleInv, [ConsoleNext]_consoleVars PROVE ConsoleInv'
    OBVIOUS
  <1>1. ASSUME NEW p \in Printers, printf(p) PROVE ConsoleInv'
    <2>1. \/ Begin(p) \/ LoadY(p) \/ StoreCell(p) \/ LoadX(p) \/ StoreX(p)
          \/ StoreY(p) \/ ZeroX(p) \/ ZeroY(p) \/ Test(p)
      BY <1>1 DEF printf
    <2> QED
      BY <1>1, <2>1, LoadYKeeps, StoreCellKeeps, LoadXKeeps, StoreXKeeps, StoreYKeeps,
         ZeroXKeeps, ZeroYKeeps, TestKeeps
  <1>2. ASSUME NEW newline \in BOOLEAN, printfInterrupt(newline) PROVE ConsoleInv'
    BY <1>2, InterruptKeeps
  <1>3. CASE UNCHANGED consoleVars
    BY <1>3 DEF consoleVars, ConsoleInv, ConsoleTypeOK, CursorWatched, Alone, Bounds, NobodyInside
  <1> QED
    BY <1>1, <1>2, <1>3 DEF ConsoleNext

\* For every screen and any number of processes, however they are interleaved.
THEOREM CursorCorrect == ConsoleSpec => []CursorOnScreen
  <1>1. ConsoleInv => CursorOnScreen
    <2> SUFFICES ASSUME ConsoleInv, \A p \in Printers : step[p] = "idle"
                 PROVE  x < Columns /\ y < Rows
      BY DEF CursorOnScreen
    <2>1. ~(x >= Columns) /\ ~(y >= Rows)
      BY DEF ConsoleInv, CursorWatched, WillCheckX
    <2> QED
      BY <2>1, ScreenSize DEF ConsoleInv, ConsoleTypeOK
  <1> QED
    BY <1>1, ConsoleStart, ConsoleStep, PTL DEF ConsoleSpec

\* A cell in a row r and a column c.
LEMMA CellBound ==
    ASSUME NEW r \in Nat, NEW c \in Nat
    PROVE  /\ r < Rows /\ c < Columns => Columns * r + c < Columns * Rows
           /\ r <= Rows /\ c <= Columns => Columns * r + c <= Columns * (Rows + 1)
  <1>1. \A a, b, k \in Nat : a <= b => k * a <= k * b
    BY Z3
  <1>2. r < Rows => r + 1 \in Nat /\ r + 1 <= Rows
    BY ScreenSize
  <1>3. Columns * (r + 1) = Columns * r + Columns /\ Columns * (Rows + 1) = Columns * Rows + Columns
    BY ScreenSize, Z3
  <1>4. r < Rows => Columns * (r + 1) <= Columns * Rows
    BY <1>1, <1>2, ScreenSize
  <1>5. r <= Rows => Columns * r <= Columns * Rows
    BY <1>1, ScreenSize
  <1>6. Columns * r \in Int /\ Columns * Rows \in Int
    BY ScreenSize
  <1> QED
    BY <1>3, <1>4, <1>5, <1>6, ScreenSize

\* For every screen: alone, a process stores on the screen only, and interrupts that
\* print meanwhile at most one row below it.
THEOREM StoresCorrect == ConsoleSpec => StoresNearScreen
  <1>1. ConsoleInv /\ [ConsoleNext]_consoleVars =>
           [index' # index =>
              CASE company' = "none" -> index' < Columns * Rows
                [] company' = "interrupts" -> index' <= Columns * (Rows + 1)
                [] OTHER -> TRUE]_consoleVars
    <2> SUFFICES ASSUME ConsoleInv, ConsoleNext, index' # index
                 PROVE  /\ company' = "none" => index' < Columns * Rows
                        /\ company' = "interrupts" => index' <= Columns * (Rows + 1)
      OBVIOUS
    <2>1. x \in Nat /\ y \in Nat
      BY ScreenSize DEF ConsoleInv, ConsoleTypeOK
    <2>2. ASSUME NEW p \in Printers, printf(p)
          PROVE  company' # "processes" => index' < Columns * Rows
      <3> SUFFICES ASSUME company' # "processes" PROVE index' < Columns * Rows
        OBVIOUS
      <3>1. StoreCell(p)
        BY <2>2 DEF printf, Begin, LoadY, LoadX, StoreX, StoreY, ZeroX, ZeroY, Test
      <3>2. /\ step[p] \in {"cell", "clear cell"} /\ step'[p] # "idle"
            /\ index' = Columns * register[p] + x
        BY <3>1 DEF StoreCell, Along, ConsoleInv, ConsoleTypeOK
      <3>3. ConsoleTypeOK'
        BY ConsoleStep DEF ConsoleInv
      <3>4. company # "processes"
        BY <2>2, <3>2, <3>3, CompanyAfter
      <3>5. register[p] < Rows /\ x < Columns
        BY <3>2, <3>4 DEF ConsoleInv, Alone, Bounds
      <3>6. register[p] \in Nat
        BY ScreenSize DEF ConsoleInv, ConsoleTypeOK
      <3> QED
        BY <2>1, <3>2, <3>5, <3>6, CellBound
    <2>3. ASSUME NEW newline \in BOOLEAN, printfInterrupt(newline)
          PROVE  /\ company' = "none" => index' < Columns * Rows
                 /\ company' = "interrupts" => index' <= Columns * (Rows + 1)
      <3>1. /\ index' = Columns * y + x
            /\ company' = IF Inside # {} /\ company = "none" THEN "interrupts" ELSE company
        BY <2>3 DEF printfInterrupt
      <3>2. company' # "processes" => x <= Columns /\ y <= Rows
        BY <3>1 DEF ConsoleInv, Alone
      <3>3. ASSUME company' = "none" PROVE x < Columns /\ y < Rows
        <4>1. \A p \in Printers : step[p] = "idle"
          BY <3>1, <3>3 DEF Inside
        <4>2. ~(x >= Columns) /\ ~(y >= Rows)
          BY <4>1 DEF ConsoleInv, CursorWatched, WillCheckX
        <4> QED
          BY <2>1, <4>2, ScreenSize
      <3> QED
        BY <2>1, <3>1, <3>2, <3>3, CellBound
    <2>4. ASSUME NEW p \in Printers, printf(p)
          PROVE  index' < Columns * Rows => index' <= Columns * (Rows + 1)
      <3>1. ConsoleTypeOK'
        BY ConsoleStep DEF ConsoleInv
      <3>2. Columns * (Rows + 1) = Columns * Rows + Columns /\ Columns * Rows \in Int
        BY ScreenSize, Z3
      <3>3. index' \in Int
        BY <3>1 DEF ConsoleTypeOK
      <3> QED
        BY <3>2, <3>3, ScreenSize
    <2> QED
      BY <2>2, <2>3, <2>4 DEF ConsoleNext
  <1> QED
    BY <1>1, ConsoleStart, ConsoleStep, PTL DEF ConsoleSpec, StoresNearScreen

-----------------------------------------------------------------------------
(* The mouse driver.                                                         *)

OnScreen == [x : 0 .. Width - 1, y : 0 .. Height - 1]

Offset8 == 0 .. 255

\* What is left of a packet is what the driver still waits for; what it has of the
\* packet is in the buffer.
PacketUnderWay ==
    \/ /\ offset = 0 /\ wire = <<>> /\ told = held
    \/ /\ offset = 0 /\ \E dx, dy \in Offset8 : wire = <<held, dx, dy>>
    \/ /\ offset = 1 /\ buffer[1] = held /\ \E dx, dy \in Offset8 : wire = <<dx, dy>>
    \/ /\ offset = 2 /\ buffer[1] = held /\ buffer[2] \in Offset8
       /\ \E dy \in Offset8 : wire = <<dy>>

MouseInv ==
    /\ buffer = [e \in 1 .. 3 |-> buffer[e]]
    /\ pointer \in OnScreen /\ ideal = pointer /\ inverted = {pointer}
    /\ told = buttons
    /\ PacketUnderWay

\* A byte is a number of eight bits with its sign.
LEMMA Int8Range ==
    ASSUME NEW m \in Int
    PROVE  /\ Int8(m) \in -128 .. 127
           /\ m \in -128 .. 127 => Int8(m) = m
BY Z3 DEF Int8

LEMMA ClampRange ==
    ASSUME NEW m \in Int, NEW limit \in Nat \ {0}
    PROVE  Clamp(m, limit) \in 0 .. limit - 1
BY DEF Clamp

\* A movement leaves the pointer on the screen, where it belongs, and the only
\* inverted cell: the old one is inverted back before the new one is inverted.
LEMMA MovementKeeps ==
    ASSUME pointer \in OnScreen, ideal = pointer, inverted = {pointer},
           NEW dx \in -128 .. 127, NEW dy \in -127 .. 128,
           OnMouseMove(dx, dy)
    PROVE  pointer' \in OnScreen /\ ideal' = pointer' /\ inverted' = {pointer'}
<1> DEFINE nx == pointer.x + dx
           ny == pointer.y + dy
           to == [x |-> Clamp(Int8(nx), Width), y |-> Clamp(Int8(ny), Height)]
<1>1. pointer.x \in 0 .. 79 /\ pointer.y \in 0 .. 24
  BY DEF OnScreen, Width, Height
<1>2. nx \in Int /\ ny \in Int /\ nx >= -128 /\ ny >= -128
  BY <1>1
<1>3. pointer' = to /\ inverted' = Invert(Invert(inverted, pointer), to)
  BY DEF OnMouseMove
<1>4. to \in OnScreen
  <2> HIDE DEF nx, ny
  <2>1. Int8(nx) \in Int /\ Int8(ny) \in Int
    <3>1. Int8(nx) \in -128 .. 127 /\ Int8(ny) \in -128 .. 127
      BY <1>2, Int8Range
    <3> QED BY <3>1
  <2>2. Clamp(Int8(nx), Width) \in 0 .. Width - 1 /\ Clamp(Int8(ny), Height) \in 0 .. Height - 1
    <3>1. Width \in Nat \ {0} /\ Height \in Nat \ {0}
      BY DEF Width, Height
    <3> QED
      BY <2>1, <3>1, ClampRange
  <2> QED
    BY <2>2 DEF OnScreen
<1>5. ideal' = to
  <2>1. CASE nx > 127 \/ ny > 127
    BY <2>1 DEF OnMouseMove
  <2>2. CASE ~(nx > 127 \/ ny > 127)
    <3>1. Int8(nx) = nx /\ Int8(ny) = ny
      <4>1. nx \in -128 .. 127 /\ ny \in -128 .. 127
        BY <1>2, <2>2
      <4> QED
        BY <4>1, <1>2, Int8Range
    <3>2. ideal' = [x |-> Clamp(nx, Width), y |-> Clamp(ny, Height)]
      BY <2>2 DEF OnMouseMove
    <3> QED
      BY <3>1, <3>2
  <2> QED
    BY <2>1, <2>2
<1>6. inverted' = {to}
  BY <1>3 DEF Invert
<1> QED
  BY <1>3, <1>4, <1>5, <1>6

\* The button that differ are told of, so the handler knows the new ones.
LEMMA EventsTell ==
    ASSUME told = buttons, NEW flags
    PROVE  ButtonEvents(flags) = flags
BY DEF ButtonEvents

LEMMA MouseStart == MouseInit => MouseInv
BY DEF MouseInit, MouseInv, PacketUnderWay, OnScreen, Center, Width, Height

LEMMA SendKeeps ==
    ASSUME MouseInv, NEW flags \in Flags, NEW dx \in Offsets, NEW dy \in Offsets,
           SendPacket(flags, dx, dy)
    PROVE  MouseInv'
<1>1. dx \in Offset8 /\ dy \in Offset8
  BY MouseAssumption DEF Offset8
<1>2. offset = 0
  BY DEF MouseInv, PacketUnderWay, SendPacket
<1>3. PacketUnderWay'
  BY <1>1, <1>2 DEF PacketUnderWay, SendPacket
<1> QED
  BY <1>3 DEF MouseInv, SendPacket

\* A byte put into the buffer leaves the other bytes alone.
LEMMA PutByte ==
    ASSUME NEW f, f = [e \in 1 .. 3 |-> f[e]], NEW k \in 1 .. 3, NEW v,
           NEW g, g = [f EXCEPT ![k] = v]
    PROVE  /\ g = [e \in 1 .. 3 |-> g[e]]
           /\ g[k] = v
           /\ \A j \in 1 .. 3 : j # k => g[j] = f[j]
OBVIOUS

LEMMA HandleMouseKeeps ==
    ASSUME MouseInv, MouseInterrupt
    PROVE  MouseInv'
<1> USE DEF MouseInv
<1> DEFINE b == [buffer EXCEPT ![offset + 1] = Head(wire)]
<1>1. CASE /\ offset = 0 /\ \E dx, dy \in Offset8 : wire = <<held, dx, dy>>
  <2> PICK dx \in Offset8, dy \in Offset8 : wire = <<held, dx, dy>>
    BY <1>1
  <2>1. Head(wire) = held /\ Tail(wire) = <<dx, dy>>
    OBVIOUS
  <2>2. offset' = 1 /\ wire' = <<dx, dy>> /\ buffer' = [buffer EXCEPT ![1] = held]
        /\ UNCHANGED <<buttons, pointer, inverted, told, ideal, held>>
    BY <1>1, <2>1 DEF MouseInterrupt
  <2>3. buffer'[1] = held /\ buffer' = [e \in 1 .. 3 |-> buffer'[e]]
    <3>1. 1 \in 1 .. 3
      OBVIOUS
    <3> QED
      BY <2>2, <3>1, PutByte
  <2>4. PacketUnderWay'
    BY <2>2, <2>3 DEF PacketUnderWay
  <2> QED
    BY <2>2, <2>3, <2>4
<1>2. CASE /\ offset = 1 /\ buffer[1] = held /\ \E dx, dy \in Offset8 : wire = <<dx, dy>>
  <2> PICK dx \in Offset8, dy \in Offset8 : wire = <<dx, dy>>
    BY <1>2
  <2>1. Head(wire) = dx /\ Tail(wire) = <<dy>>
    OBVIOUS
  <2>2. offset' = 2 /\ wire' = <<dy>> /\ buffer' = [buffer EXCEPT ![2] = dx]
        /\ UNCHANGED <<buttons, pointer, inverted, told, ideal, held>>
    BY <1>2, <2>1 DEF MouseInterrupt
  <2>3. buffer'[1] = held /\ buffer'[2] = dx /\ buffer' = [e \in 1 .. 3 |-> buffer'[e]]
    <3>1. 1 \in 1 .. 3 /\ 2 \in 1 .. 3 /\ 1 # 2
      OBVIOUS
    <3> QED
      BY <1>2, <2>2, <3>1, PutByte
  <2>4. PacketUnderWay'
    BY <2>2, <2>3 DEF PacketUnderWay
  <2> QED
    BY <2>2, <2>3, <2>4
<1>3. CASE /\ offset = 2 /\ buffer[1] = held /\ buffer[2] \in Offset8
           /\ \E dy \in Offset8 : wire = <<dy>>
  <2> PICK dy \in Offset8 : wire = <<dy>>
    BY <1>3
  <2>1. Head(wire) = dy /\ Tail(wire) = <<>>
    OBVIOUS
  <2>2. (offset + 1) % 3 = 0 /\ offset + 1 = 3
    BY <1>3
  <2>3. b[1] = held /\ b[2] = buffer[2] /\ b[3] = dy /\ b = [e \in 1 .. 3 |-> b[e]]
    BY <1>3, <2>1, <2>2
  <2>4. /\ offset' = 0 /\ wire' = <<>> /\ buffer' = b /\ held' = held
        /\ IF b[2] # 0 \/ b[3] # 0
           THEN OnMouseMove(Int8(b[2]), -Int8(b[3]))
           ELSE UNCHANGED <<pointer, inverted, ideal>>
        /\ told' = ButtonEvents(b[1])
        /\ buttons' = b[1]
    BY <2>1, <2>2 DEF MouseInterrupt, NewButtons
  <2>5. told' = held /\ buttons' = held
    BY <2>3, <2>4, EventsTell
  <2>6. pointer' \in OnScreen /\ ideal' = pointer' /\ inverted' = {pointer'}
    <3>1. CASE b[2] # 0 \/ b[3] # 0
      <4>1. buffer[2] \in Int /\ dy \in Int
        BY <1>3 DEF Offset8
      <4>2. Int8(buffer[2]) \in -128 .. 127 /\ Int8(dy) \in -128 .. 127
        BY <4>1, Int8Range
      <4>3. -Int8(dy) \in -127 .. 128
        BY <4>2
      <4>4. OnMouseMove(Int8(buffer[2]), -Int8(dy))
        BY <2>3, <2>4, <3>1
      <4> QED
        BY <4>2, <4>3, <4>4, MovementKeeps
    <3>2. CASE ~(b[2] # 0 \/ b[3] # 0)
      BY <2>4, <3>2
    <3> QED
      BY <3>1, <3>2
  <2>7. PacketUnderWay'
    BY <2>4, <2>5 DEF PacketUnderWay
  <2> QED
    BY <2>3, <2>4, <2>5, <2>6, <2>7
<1>4. wire # <<>>
  BY DEF MouseInterrupt
<1> QED
  BY <1>1, <1>2, <1>3, <1>4 DEF PacketUnderWay

LEMMA MouseStep == MouseInv /\ [MouseNext]_mouseVars => MouseInv'
<1> SUFFICES ASSUME MouseInv, [MouseNext]_mouseVars PROVE MouseInv'
  OBVIOUS
<1>1. CASE UNCHANGED mouseVars
  BY <1>1 DEF mouseVars, MouseInv, PacketUnderWay
<1>2. CASE MouseInterrupt
  BY <1>2, HandleMouseKeeps
<1>3. ASSUME NEW flags \in Flags, NEW dx \in Offsets, NEW dy \in Offsets,
             SendPacket(flags, dx, dy)
      PROVE  MouseInv'
  BY <1>3, SendKeeps
<1> QED
  BY <1>1, <1>2, <1>3 DEF MouseNext

\* The driver never loses its place in the packets, and when it has taken a packet
\* the buttons and the pointer are those of the mouse: for all packets.
THEOREM MouseCorrect == MouseSpec => []MouseInStep
<1>1. MouseInv => MouseInStep
  BY DEF MouseInv, MouseInStep, PacketUnderWay
<1> QED
  BY <1>1, MouseStart, MouseStep, PTL DEF MouseSpec

-----------------------------------------------------------------------------
(* The desktop.                                                              *)

Points == 0 .. Len(Windows)

DesktopTypeOK ==
    /\ MouseX \in Int /\ MouseY \in Int
    /\ place \in Seq(Rectangles) /\ Len(place) <= Len(Windows)
    /\ Dragging \in [DOMAIN Windows -> BOOLEAN]
    /\ focussedChild = [e \in Points |-> focussedChild[e]]

\* A window that is dragged is under the pointer, and the left button is down.
FrontHeld ==
    Dragging[1] => /\ 1 \in pressed /\ place # <<>>
                   /\ ContainsCoordinate(place[1], MouseX, MouseY)

DesktopInv == DesktopTypeOK /\ KeysFollowClicks /\ FrontHeld

LEMMA WindowCount ==
    Len(Windows) \in Nat \ {0} /\ DOMAIN Windows = 1 .. Len(Windows) /\ 1 \in DOMAIN Windows
BY DesktopAssumption

\* The search finds the first child that contains the point, or none when no child does.
LEMMA FirstChildFirst ==
    ASSUME NEW rects \in Seq(Rectangles), NEW atX \in Int, NEW atY \in Int,
           NEW first, first = FirstChild(rects, atX, atY)
    PROVE  /\ first \in 0 .. Len(rects)
           /\ first # None => ContainsCoordinate(rects[first], atX, atY)
           /\ \A j \in 1 .. Len(rects) :
                  first = None \/ j < first => ~ContainsCoordinate(rects[j], atX, atY)
<1> DEFINE hit == {e \in DOMAIN rects : ContainsCoordinate(rects[e], atX, atY)}
<1>1. DOMAIN rects = 1 .. Len(rects) /\ Len(rects) \in Nat
  OBVIOUS
<1>2. CASE hit = {}
  <2>1. first = None
    BY <1>2 DEF FirstChild
  <2>2. \A j \in 1 .. Len(rects) : ~ContainsCoordinate(rects[j], atX, atY)
    BY <1>1, <1>2
  <2> QED
    BY <1>1, <2>1, <2>2 DEF None
<1>3. CASE hit # {}
  <2>1. first = CHOOSE e \in hit : \A j \in hit : e <= j
    BY <1>3 DEF FirstChild
  <2>2. PICK m \in hit : \A j \in hit : m <= j
    <3>1. hit \subseteq Nat
      BY <1>1
    <3> HIDE DEF hit
    <3> QED
      BY <1>3, <3>1, LeastNat
  <2>3. first \in hit /\ \A j \in hit : first <= j
    <3> HIDE DEF hit
    <3> QED
      BY <2>1, <2>2
  <2>4. first \in 1 .. Len(rects) /\ ContainsCoordinate(rects[first], atX, atY)
    BY <1>1, <2>3
  <2>5. ASSUME NEW j \in 1 .. Len(rects), j < first
        PROVE  ~ContainsCoordinate(rects[j], atX, atY)
    <3>1. j \notin hit
      <4> HIDE DEF hit
      <4> QED
        BY <2>3, <2>4, <2>5
    <3> QED
      BY <1>1, <3>1
  <2> QED
    BY <1>1, <2>4, <2>5 DEF None
<1> QED
  BY <1>2, <1>3

\* It ends with the first child exactly when the point is in that.
LEMMA FirstChildIs ==
    ASSUME NEW rects \in Seq(Rectangles), NEW atX \in Int, NEW atY \in Int
    PROVE  /\ FirstChild(rects, atX, atY) \in 0 .. Len(rects)
           /\ FirstChild(rects, atX, atY) = 1
                <=> rects # <<>> /\ ContainsCoordinate(rects[1], atX, atY)
<1> DEFINE first == FirstChild(rects, atX, atY)
<1>1. /\ first \in 0 .. Len(rects)
      /\ first # None => ContainsCoordinate(rects[first], atX, atY)
      /\ \A j \in 1 .. Len(rects) :
             first = None \/ j < first => ~ContainsCoordinate(rects[j], atX, atY)
  BY FirstChildFirst
<1> HIDE DEF first
<1>2. ASSUME rects # <<>>, ContainsCoordinate(rects[1], atX, atY)
      PROVE  first = 1
  <2>1. 1 \in 1 .. Len(rects)
    BY <1>2
  <2>2. ~(first = None \/ 1 < first)
    BY <1>1, <1>2, <2>1
  <2> QED
    BY <1>1, <2>2 DEF None
<1>3. first = 1 => rects # <<>> /\ ContainsCoordinate(rects[1], atX, atY)
  <2>1. first = 1 => Len(rects) >= 1
    BY <1>1
  <2> QED
    BY <1>1, <2>1 DEF None
<1> QED
  BY <1>1, <1>2, <1>3 DEF first

LEMMA QuarterInt == \A q \in Int : Quarter(q) \in Int
BY DEF Quarter

LEMMA WithinInt == \A q, limit \in Int : Within(q, limit) \in Int
BY DEF Within

\* r is the rectangle q moved by the distance.
Shifted(q, r, dx, dy) ==
    r.x = q.x + dx /\ r.y = q.y + dy /\ r.w = q.w /\ r.h = q.h

\* A rectangle that is moved contains the point that is moved with it.
LEMMA ShiftedContains ==
    ASSUME NEW q \in Rectangles, NEW r, NEW dx \in Int, NEW dy \in Int, Shifted(q, r, dx, dy),
           NEW ax \in Int, NEW ay \in Int, ContainsCoordinate(q, ax, ay)
    PROVE  ContainsCoordinate(r, ax + dx, ay + dy)
<1>1. q.x \in Int /\ q.y \in Int /\ q.w \in Int /\ q.h \in Int
  BY DEF Rectangles
<1> QED
  BY <1>1 DEF ContainsCoordinate, Shifted

LEMMA RectangleMoves ==
    ASSUME NEW q \in Rectangles, NEW dx \in Int, NEW dy \in Int
    PROVE  /\ [q EXCEPT !.x = @ + dx, !.y = @ + dy] \in Rectangles
           /\ Shifted(q, [q EXCEPT !.x = @ + dx, !.y = @ + dy], dx, dy)
<1> DEFINE r == [q EXCEPT !.x = @ + dx, !.y = @ + dy]
<1>1. /\ DOMAIN q = {"x", "y", "w", "h"}
      /\ q.x \in Int /\ q.y \in Int /\ q.w \in Int /\ q.h \in Int
  BY DEF Rectangles
<1>2. DOMAIN r = DOMAIN q /\ Shifted(q, r, dx, dy)
  BY <1>1 DEF Shifted
<1>3. r = [f \in {"x", "y", "w", "h"} |-> r[f]]
  BY <1>1
<1> HIDE DEF r
<1>4. r \in Rectangles
  BY <1>1, <1>2, <1>3 DEF Rectangles, Shifted
<1> QED
  BY <1>2, <1>4 DEF r

\* A window that is dragged moves by the distance, and stays a rectangle; the
\* others stay where they are.
LEMMA DragMoves ==
    ASSUME NEW ws \in Seq(Rectangles), NEW e \in 0 .. Len(ws),
           NEW dx \in Int, NEW dy \in Int
    PROVE  /\ Drag(ws, e, dx, dy) \in Seq(Rectangles)
           /\ Len(Drag(ws, e, dx, dy)) = Len(ws)
           /\ e # None /\ Dragging[e] => Shifted(ws[e], Drag(ws, e, dx, dy)[e], dx, dy)
<1>1. CASE ~(e # None /\ Dragging[e])
  BY <1>1 DEF Drag
<1>2. CASE e # None /\ Dragging[e]
  <2> DEFINE q == ws[e]
             r == [q EXCEPT !.x = @ + dx, !.y = @ + dy]
             to == [ws EXCEPT ![e] = r]
  <2>1. e \in 1 .. Len(ws)
    BY <1>2 DEF None
  <2>2. q \in Rectangles
    BY <2>1
  <2>4. Drag(ws, e, dx, dy) = to
    BY <1>2, <2>1 DEF Drag
  <2> HIDE DEF q
  <2>3. r \in Rectangles /\ Shifted(q, r, dx, dy)
    BY <2>2, RectangleMoves
  <2> HIDE DEF r
  <2>5. to \in Seq(Rectangles) /\ Len(to) = Len(ws) /\ to[e] = r
    BY <2>1, <2>3
  <2> QED
    BY <2>3, <2>4, <2>5 DEF q
<1> QED
  BY <1>1, <1>2

LEMMA DesktopStart == DesktopInit => DesktopInv
<1> SUFFICES ASSUME DesktopInit PROVE DesktopInv
  OBVIOUS
<1>1. DesktopTypeOK
  <2>1. DesktopW \div 2 \in Int /\ DesktopH \div 2 \in Int
    BY DesktopAssumption
  <2>2. <<>> \in Seq(Rectangles) /\ Len(<<>>) <= Len(Windows)
    BY WindowCount
  <2> QED
    BY <2>1, <2>2 DEF DesktopInit, DesktopTypeOK, Points
<1>2. KeysFollowClicks
  BY WindowCount DEF DesktopInit, KeysFollowClicks, KeyTarget
<1>3. FrontHeld
  BY WindowCount DEF DesktopInit, FrontHeld
<1> QED
  BY <1>1, <1>2, <1>3 DEF DesktopInv

LEMMA AddChildKeeps ==
    ASSUME DesktopInv, AddChild
    PROVE  DesktopInv'
<1> USE DEF DesktopInv, DesktopTypeOK
<1>1. /\ place' = Append(place, Windows[Len(place) + 1]) /\ Len(place) < Len(Windows)
      /\ UNCHANGED <<MouseX, MouseY, Dragging, focussedChild, pressed, clicked>>
  BY DEF AddChild
<1>2. Windows[Len(place) + 1] \in Rectangles
  BY <1>1, WindowCount, DesktopAssumption
<1>3. /\ place' \in Seq(Rectangles) /\ Len(place') <= Len(Windows) /\ place' # <<>>
      /\ place # <<>> => place'[1] = place[1]
  BY <1>1, <1>2, WindowCount
<1>4. FrontHeld'
  BY <1>1, <1>3 DEF FrontHeld, ContainsCoordinate
<1> QED
  BY <1>1, <1>3, <1>4 DEF KeysFollowClicks, KeyTarget

LEMMA MouseDownKeeps ==
    ASSUME DesktopInv, NEW button \in Buttons, DesktopMouseDown(button)
    PROVE  DesktopInv'
<1> USE DEF DesktopInv, DesktopTypeOK
<1> DEFINE e == HitWindow(MouseX, MouseY)
           k == HitChild(e, MouseX, MouseY)
<1>1. e \in 0 .. Len(place) /\ (e = 1 <=> place # <<>> /\ ContainsCoordinate(place[1], MouseX, MouseY))
  BY FirstChildIs DEF HitWindow
<1>2. /\ pressed' = pressed \cup {button} /\ UNCHANGED <<MouseX, MouseY, place>>
      /\ IF e = None THEN UNCHANGED <<Dragging, focussedChild, clicked>>
         ELSE /\ Dragging' = [Dragging EXCEPT ![e] = (button = 1)]
              /\ IF k = None THEN UNCHANGED <<focussedChild, clicked>>
                 ELSE /\ focussedChild' = GetFocus(e, k)
                      /\ clicked' = <<e, k>>
  BY DEF DesktopMouseDown
<1> HIDE DEF e, k
<1>3. e # None => e \in DOMAIN Windows /\ e \in Points /\ 0 \in Points /\ e # 0
  BY <1>1, WindowCount DEF None, Points
<1>4. DesktopTypeOK'
  <2>1. Dragging' \in [DOMAIN Windows -> BOOLEAN]
    BY <1>2, <1>3
  <2>2. focussedChild' = [j \in Points |-> focussedChild'[j]]
    BY <1>2, <1>3 DEF GetFocus
  <2> QED
    BY <1>2, <2>1, <2>2
<1>5. KeysFollowClicks'
  <2>1. CASE e = None \/ k = None
    BY <1>2, <2>1 DEF KeysFollowClicks, KeyTarget
  <2>2. CASE e # None /\ k # None
    <3>1. focussedChild'[0] = e /\ focussedChild'[e] = k
      BY <1>2, <1>3, <2>2 DEF GetFocus
    <3> QED
      BY <1>2, <2>2, <3>1 DEF KeysFollowClicks, KeyTarget
  <2> QED
    BY <2>1, <2>2
<1>6. FrontHeld'
  <2>1. CASE e = 1
    <3>1. Dragging'[1] = (button = 1)
      BY <1>2, <1>3, <2>1 DEF None
    <3> QED
      BY <1>1, <1>2, <2>1, <3>1 DEF FrontHeld, ContainsCoordinate
  <2>2. CASE e # 1
    <3>1. Dragging'[1] = Dragging[1]
      BY <1>2, <1>3, <2>2, WindowCount
    <3> QED
      BY <1>2, <3>1 DEF FrontHeld, ContainsCoordinate
  <2> QED
    BY <2>1, <2>2
<1> QED
  BY <1>4, <1>5, <1>6

LEMMA MouseUpKeeps ==
    ASSUME DesktopInv, NEW button \in Buttons, DesktopMouseUp(button)
    PROVE  DesktopInv'
<1> USE DEF DesktopInv, DesktopTypeOK
<1> DEFINE e == HitWindow(MouseX, MouseY)
<1>1. e \in 0 .. Len(place) /\ (e = 1 <=> place # <<>> /\ ContainsCoordinate(place[1], MouseX, MouseY))
  BY FirstChildIs DEF HitWindow
<1>2. /\ pressed' = pressed \ {button}
      /\ Dragging' = IF e = None THEN Dragging ELSE [Dragging EXCEPT ![e] = FALSE]
      /\ UNCHANGED <<MouseX, MouseY, place, focussedChild, clicked>>
  BY DEF DesktopMouseUp
<1> HIDE DEF e
<1>3. Dragging' \in [DOMAIN Windows -> BOOLEAN]
  BY <1>1, <1>2, WindowCount DEF None
<1>4. FrontHeld'
  <2> SUFFICES ASSUME Dragging'[1]
               PROVE  /\ 1 \in pressed' /\ place # <<>>
                      /\ ContainsCoordinate(place[1], MouseX, MouseY)
    BY <1>2 DEF FrontHeld, ContainsCoordinate
  <2>1. e # 1 /\ Dragging[1]
    BY <1>1, <1>2, WindowCount DEF None
  <2> QED
    BY <1>1, <2>1 DEF FrontHeld
<1> QED
  BY <1>2, <1>3, <1>4 DEF KeysFollowClicks, KeyTarget

LEMMA MouseMoveKeeps ==
    ASSUME DesktopInv, NEW dx \in Moves, NEW dy \in Moves, DesktopMouseMove(dx, dy)
    PROVE  DesktopInv'
<1> USE DEF DesktopInv, DesktopTypeOK
<1> DEFINE atX == Within(MouseX + Quarter(dx), DesktopW)
           atY == Within(MouseY + Quarter(dy), DesktopH)
           first == HitWindow(MouseX, MouseY)
           byX == atX - MouseX
           byY == atY - MouseY
           moved == Drag(place, first, byX, byY)
           second == FirstChild(moved, atX, atY)
           twice == Drag(moved, second, byX, byY)
<1>1. atX \in Int /\ atY \in Int
  <2>1. Quarter(dx) \in Int /\ Quarter(dy) \in Int
    BY QuarterInt, DesktopAssumption
  <2>2. MouseX + Quarter(dx) \in Int /\ MouseY + Quarter(dy) \in Int
    BY <2>1
  <2>3. DesktopW \in Int /\ DesktopH \in Int
    BY DesktopAssumption
  <2> QED
    BY <2>2, <2>3, WithinInt
<1>2. /\ place' = IF second = first THEN moved ELSE twice
      /\ MouseX' = atX /\ MouseY' = atY
      /\ UNCHANGED <<Dragging, focussedChild, pressed, clicked>>
  BY DEF DesktopMouseMove, DragDistance
<1>0. byX \in Int /\ byY \in Int /\ atX = MouseX + byX /\ atY = MouseY + byY
  BY <1>1
<1> HIDE DEF atX, atY, byX, byY
<1>3. first \in 0 .. Len(place)
      /\ (first = 1 <=> place # <<>> /\ ContainsCoordinate(place[1], MouseX, MouseY))
  BY FirstChildIs DEF HitWindow
<1> HIDE DEF first
<1>4. /\ moved \in Seq(Rectangles) /\ Len(moved) = Len(place)
      /\ first # None /\ Dragging[first] => Shifted(place[first], moved[first], byX, byY)
  BY <1>0, <1>3, DragMoves
<1> HIDE DEF moved
<1>5. /\ second \in 0 .. Len(moved)
      /\ second = 1 <=> moved # <<>> /\ ContainsCoordinate(moved[1], atX, atY)
  BY <1>1, <1>4, FirstChildIs
<1> HIDE DEF second
<1>6. twice \in Seq(Rectangles) /\ Len(twice) = Len(moved)
  BY <1>0, <1>4, <1>5, DragMoves
<1> HIDE DEF twice
<1>7. place' \in Seq(Rectangles) /\ Len(place') <= Len(Windows)
  BY <1>2, <1>4, <1>6
<1>8. FrontHeld'
  <2> SUFFICES ASSUME Dragging[1]
               PROVE  /\ 1 \in pressed /\ place' # <<>>
                      /\ ContainsCoordinate(place'[1], atX, atY)
    BY <1>2 DEF FrontHeld, ContainsCoordinate
  <2>1. 1 \in pressed /\ place # <<>> /\ ContainsCoordinate(place[1], MouseX, MouseY) /\ first = 1
    BY <1>3 DEF FrontHeld
  <2>2. Shifted(place[1], moved[1], byX, byY)
    BY <1>4, <2>1 DEF None
  <2>3. place[1] \in Rectangles /\ moved # <<>>
    BY <1>4, <2>1
  <2>4. ContainsCoordinate(moved[1], atX, atY)
    BY <1>0, <2>1, <2>2, <2>3, ShiftedContains
  <2>5. place' = moved
    BY <1>2, <1>5, <2>1, <2>3, <2>4
  <2> QED
    BY <2>1, <2>3, <2>4, <2>5
<1> QED
  BY <1>1, <1>2, <1>7, <1>8 DEF KeysFollowClicks, KeyTarget

LEMMA DesktopStep == DesktopInv /\ [DesktopNext]_desktopVars => DesktopInv'
<1> SUFFICES ASSUME DesktopInv, [DesktopNext]_desktopVars PROVE DesktopInv'
  OBVIOUS
<1>1. CASE UNCHANGED desktopVars
  BY <1>1 DEF desktopVars, DesktopInv, DesktopTypeOK, KeysFollowClicks, KeyTarget, FrontHeld,
              ContainsCoordinate
<1>2. CASE AddChild
  BY <1>2, AddChildKeeps
<1>3. ASSUME NEW b \in Buttons, DesktopMouseDown(b) \/ DesktopMouseUp(b)
      PROVE  DesktopInv'
  BY <1>3, MouseDownKeeps, MouseUpKeeps
<1>4. ASSUME NEW dx \in Moves, NEW dy \in Moves, DesktopMouseMove(dx, dy)
      PROVE  DesktopInv'
  BY <1>4, MouseMoveKeeps
<1> QED
  BY <1>1, <1>2, <1>3, <1>4 DEF DesktopNext

\* Keys go to the widget clicked last, for any windows and widgets.
THEOREM KeysCorrect == DesktopSpec => []KeysFollowClicks
<1>1. DesktopInv => KeysFollowClicks
  BY DEF DesktopInv
<1> QED
  BY <1>1, DesktopStart, DesktopStep, PTL DEF DesktopSpec

\* The window in front stays under the pointer while it is dragged, and is dragged
\* only while the left button is down: for any windows and movements.
THEOREM DragCorrect == DesktopSpec => []FrontWindowDrag
<1>1. DesktopInv => FrontWindowDrag
  <2> SUFFICES ASSUME DesktopInv, Dragging[1]
               PROVE  1 \in pressed /\ HitWindow(MouseX, MouseY) = 1
    BY DEF FrontWindowDrag
  <2> QED
    BY FirstChildIs DEF DesktopInv, DesktopTypeOK, FrontHeld, HitWindow
<1> QED
  BY <1>1, DesktopStart, DesktopStep, PTL DEF DesktopSpec

\* top[k] is what is on top when k of the children were drawn, each one over the ones
\* before where it is hit: from base the values v of the children in H.
Overdrawn(top, base, v, H, count) ==
    /\ top[0] = base
    /\ \A k \in 1 .. count :
           top[k] = IF Drawn(k, count) \in H THEN v[Drawn(k, count)] ELSE top[k - 1]

\* The first of the children that is in H, or none.
IsFirst(first, H, count) ==
    /\ first \in 0 .. count /\ (first # 0 => first \in H)
    /\ \A j \in 1 .. count : first = 0 \/ j < first => j \notin H

\* The first one in H is on top when all are drawn, and base when there is none.
IsOnTop(top, base, v, first, count) ==
    /\ first = 0 => top[count] = base
    /\ first # 0 => top[count] = v[first]

\* Children are drawn from the last to the first, so what is on top at a point is the
\* first that is hit there.
LEMMA FirstOnTop ==
    ASSUME NEW count \in Nat, NEW H, NEW v, NEW base, NEW top, NEW first,
           Overdrawn(top, base, v, H, count), IsFirst(first, H, count)
    PROVE  IsOnTop(top, base, v, first, count)
<1> USE DEF Overdrawn, IsFirst, IsOnTop
<1> DEFINE S == {k \in 0 .. count :
                     /\ first = 0 => top[k] = base
                     /\ first # 0 /\ Drawn(k, count) <= first => top[k] = v[first]}
<1>1. 0 \in S
  BY DEF Drawn
<1>2. ASSUME NEW k \in 0 .. count - 1, k \in S
      PROVE  k + 1 \in S
  <2> DEFINE d == Drawn(k + 1, count)
  <2>1. d = count - k /\ d \in 1 .. count /\ Drawn(k, count) = d + 1 /\ k + 1 \in 1 .. count
        /\ (k + 1) - 1 = k
    BY DEF Drawn
  <2>2. top[k + 1] = IF d \in H THEN v[d] ELSE top[k]
    BY <2>1
  <2>3. /\ first = 0 => top[k] = base
        /\ first # 0 /\ d + 1 <= first => top[k] = v[first]
    BY <1>2, <2>1
  <2> HIDE DEF d
  <2>4. first = 0 => top[k + 1] = base
    BY <2>1, <2>2, <2>3
  <2>5. ASSUME first # 0, d <= first
        PROVE  top[k + 1] = v[first]
    <3>1. CASE d = first
      BY <2>2, <2>5, <3>1
    <3>2. CASE d # first
      <4>1. d < first /\ d + 1 <= first
        BY <2>1, <2>5, <3>2
      <4> QED
        BY <2>1, <2>2, <2>3, <2>5, <4>1
    <3> QED
      BY <3>1, <3>2
  <2>6. k + 1 \in 0 .. count
    BY <2>1
  <2> QED
    BY <2>4, <2>5, <2>6 DEF d
<1> HIDE DEF S
<1>3. \A k \in 0 .. count : k \in S
  BY <1>1, <1>2, InductiveSegment
<1>4. count \in S
  BY <1>3
<1>5. first # 0 => Drawn(count, count) <= first
  BY DEF Drawn
<1> QED
  BY <1>4, <1>5 DEF S

\* The windows keep their sizes wherever they are dragged.
SizesKept == \A e \in DOMAIN place : place[e].w = Windows[e].w /\ place[e].h = Windows[e].h

\* A widget that is hit lies in a window that is hit.
LEMMA ChildInWindow ==
    ASSUME DesktopTypeOK, SizesKept, WidgetsInside, NEW e \in DOMAIN place,
           NEW atX \in Int, NEW atY \in Int, NEW k \in DOMAIN Children[e],
           ContainsCoordinate(Children[e][k], atX - place[e].x, atY - place[e].y)
    PROVE  ContainsCoordinate(place[e], atX, atY)
<1>1. e \in DOMAIN Windows /\ e \in DOMAIN Children /\ place[e] \in Rectangles
  BY DesktopAssumption DEF DesktopTypeOK
<1>2. Children[e] \in Seq(Rectangles)
  BY <1>1, DesktopAssumption
<1> DEFINE c == Children[e][k]
           r == place[e]
<1>3. c \in Rectangles /\ r \in Rectangles /\ Windows[e] \in Rectangles
  BY <1>1, <1>2, DesktopAssumption
<1>4. 0 <= c.x /\ c.x + c.w <= r.w /\ 0 <= c.y /\ c.y + c.h <= r.h
  BY <1>1 DEF WidgetsInside, SizesKept
<1>5. /\ c.x <= atX - r.x /\ atX - r.x < c.x + c.w
      /\ c.y <= atY - r.y /\ atY - r.y < c.y + c.h
  BY DEF ContainsCoordinate
<1> HIDE DEF c, r
<1>6. c.x \in Int /\ c.y \in Int /\ c.w \in Int /\ c.h \in Int /\ r.x \in Int /\ r.y \in Int
      /\ r.w \in Int /\ r.h \in Int
  BY <1>3 DEF Rectangles
<1>7. r.x <= atX /\ atX < r.x + r.w /\ r.y <= atY /\ atY < r.y + r.h
  BY <1>4, <1>5, <1>6
<1> QED
  BY <1>7 DEF r, ContainsCoordinate

\* A window that is drawn is seen where it is hit, with the widget a click there goes to;
\* elsewhere what was there before stays.
LEMMA WindowDrawn ==
    ASSUME DesktopTypeOK, SizesKept, WidgetsInside, NEW e \in DOMAIN place, NEW below,
           NEW atX \in Int, NEW atY \in Int
    PROVE  DrawWindow(e, below, atX, atY)
               = IF ContainsCoordinate(place[e], atX, atY) THEN <<e, HitChild(e, atX, atY)>>
                 ELSE below
<1> DEFINE count == Len(Children[e])
           cx == atX - place[e].x
           cy == atY - place[e].y
           hit == ContainsCoordinate(place[e], atX, atY)
           base == IF hit THEN <<e, None>> ELSE below
           In(k) == ContainsCoordinate(Children[e][Drawn(k, count)], cx, cy)
           One(k, w) == IF In(k) THEN <<e, Drawn(k, count)>> ELSE w
           Q(f) == f = [k \in 0 .. count |-> IF k = 0 THEN base ELSE One(k, f[k - 1])]
           V == {base} \cup {<<e, k>> : k \in 1 .. count}
           g == [k \in 1 .. count |-> [w \in V |-> One(k, w)]]
<1>1. e \in DOMAIN Children /\ place[e] \in Rectangles
  BY DesktopAssumption DEF DesktopTypeOK
<1>2. Children[e] \in Seq(Rectangles) /\ count \in Nat /\ DOMAIN Children[e] = 1 .. count
  BY <1>1, DesktopAssumption
<1>3. cx \in Int /\ cy \in Int
  BY <1>1 DEF Rectangles
<1>4. PICK t : t = (CHOOSE f : Q(f)) /\ DrawWindow(e, below, atX, atY) = t[count]
  BY Zenon DEF DrawWindow
<1> HIDE DEF cx, cy, count
<1>5. \A k \in 1 .. count : Drawn(k, count) \in 1 .. count /\ k - 1 \in 0 .. count
  BY <1>2 DEF Drawn
<1>6. g \in [1 .. count -> [V -> V]]
  <2>1. \A k \in 1 .. count, w \in V : One(k, w) \in V
    BY <1>5
  <2> HIDE DEF V, One
  <2> QED
    BY <2>1
<1>7. \A k \in 1 .. count, w \in V : g[k][w] = One(k, w)
  OBVIOUS
<1>8. base \in V
  OBVIOUS
<1> HIDE DEF g, V, base, One
<1>9. PICK f \in [0 .. count -> V] : Unrolls(f, base, g, count)
  BY <1>2, <1>6, <1>8, RecursiveFunction, Zenon
<1>10. Q(f)
  <2>1. \A k \in 0 .. count : k # 0 => k \in 1 .. count /\ k - 1 \in 0 .. count
    BY <1>2
  <2>2. \A k \in 0 .. count : k # 0 => g[k][f[k - 1]] = One(k, f[k - 1])
    BY <1>7, <1>9, <2>1
  <2>3. \A k \in 0 .. count :
            (IF k = 0 THEN base ELSE g[k][f[k - 1]]) = IF k = 0 THEN base ELSE One(k, f[k - 1])
    BY <2>2, Zenon
  <2> QED
    BY <1>9, <2>3 DEF Unrolls
<1>11. Q(t)
  <2> HIDE DEF Q
  <2> QED
    BY <1>4, <1>10, Zenon
<1>12. /\ t[0] = base
       /\ \A k \in 1 .. count : t[k] = One(k, t[k - 1])
  <2>1. 0 \in 0 .. count /\ \A k \in 1 .. count : k \in 0 .. count /\ k # 0
    BY <1>2
  <2> QED
    BY <1>11, <2>1
<1> DEFINE H == {j \in 1 .. count : ContainsCoordinate(Children[e][j], cx, cy)}
           v == [j \in 1 .. count |-> <<e, j>>]
           first == HitChild(e, atX, atY)
<1>13. IsFirst(first, H, count)
  <2>1. first = FirstChild(Children[e], cx, cy)
    BY DEF HitChild, cx, cy
  <2>2. /\ first \in 0 .. Len(Children[e])
        /\ first # None => ContainsCoordinate(Children[e][first], cx, cy)
        /\ \A j \in 1 .. Len(Children[e]) :
               first = None \/ j < first => ~ContainsCoordinate(Children[e][j], cx, cy)
    BY <1>2, <1>3, <2>1, FirstChildFirst
  <2> HIDE DEF first
  <2> QED
    BY <1>2, <2>2 DEF None, count, IsFirst
<1> HIDE DEF first
<1>14. Overdrawn(t, base, v, H, count)
  BY <1>5, <1>12 DEF One, Overdrawn
<1>15. IsOnTop(t, base, v, first, count)
  <2>1. count \in Nat
    BY <1>2
  <2> HIDE DEF H, v
  <2> QED
    BY <1>13, <1>14, <2>1, FirstOnTop, Zenon
<1>16. first # 0 => v[first] = <<e, first>> /\ hit
  <2>1. first # 0 => first \in 1 .. count /\ ContainsCoordinate(Children[e][first], cx, cy)
    BY <1>2, <1>13 DEF IsFirst
  <2> QED
    BY <1>2, <2>1, ChildInWindow DEF cx, cy
<1> QED
  BY <1>4, <1>15, <1>16 DEF base, first, None, IsOnTop

\* What is seen is the first window that is hit, with the first of its widgets that is.
LEMMA SeenIsHit ==
    ASSUME DesktopTypeOK, SizesKept, WidgetsInside, NEW atX \in Int, NEW atY \in Int,
           NEW first, first = HitWindow(atX, atY)
    PROVE  Seen(atX, atY)
               = <<first, IF first = None THEN None ELSE HitChild(first, atX, atY)>>
<1> DEFINE count == Len(place)
           v == [e \in 1 .. count |-> <<e, HitChild(e, atX, atY)>>]
           nothing == <<None, None>>
           One(k, w) == DrawWindow(Drawn(k, count), w, atX, atY)
           Q(f) == f = [k \in 0 .. count |-> IF k = 0 THEN nothing ELSE One(k, f[k - 1])]
           V == {nothing} \cup {v[e] : e \in 1 .. count}
           g == [k \in 1 .. count |-> [w \in V |-> One(k, w)]]
           H == {e \in 1 .. count : ContainsCoordinate(place[e], atX, atY)}
<1>1. place \in Seq(Rectangles) /\ count \in Nat /\ DOMAIN place = 1 .. count
  BY DEF DesktopTypeOK
<1>2. PICK t : t = (CHOOSE f : Q(f)) /\ Seen(atX, atY) = t[count]
  BY Zenon DEF Seen
<1> HIDE DEF count
<1>3. \A k \in 1 .. count : Drawn(k, count) \in 1 .. count /\ k - 1 \in 0 .. count
  BY <1>1 DEF Drawn
<1>4. \A k \in 1 .. count : \A w :
          One(k, w) = IF Drawn(k, count) \in H THEN v[Drawn(k, count)] ELSE w
  <2> SUFFICES ASSUME NEW k \in 1 .. count, NEW w
               PROVE  One(k, w) = IF Drawn(k, count) \in H THEN v[Drawn(k, count)] ELSE w
    OBVIOUS
  <2> DEFINE e == Drawn(k, count)
  <2>1. e \in 1 .. count /\ e \in DOMAIN place
    BY <1>1, <1>3
  <2> HIDE DEF e
  <2>2. DrawWindow(e, w, atX, atY)
            = IF ContainsCoordinate(place[e], atX, atY) THEN <<e, HitChild(e, atX, atY)>> ELSE w
    BY <2>1, WindowDrawn
  <2> QED
    BY <2>1, <2>2 DEF e
<1> HIDE DEF One
<1>5. g \in [1 .. count -> [V -> V]]
  <2>1. \A k \in 1 .. count, w \in V : One(k, w) \in V
    BY <1>3, <1>4
  <2> HIDE DEF V
  <2> QED
    BY <2>1
<1>6. \A k \in 1 .. count, w \in V : g[k][w] = One(k, w)
  OBVIOUS
<1>7. nothing \in V
  OBVIOUS
<1> HIDE DEF g, V, nothing
<1>8. PICK f \in [0 .. count -> V] : Unrolls(f, nothing, g, count)
  BY <1>1, <1>5, <1>7, RecursiveFunction, Zenon
<1>9. Q(f)
  <2>1. \A k \in 0 .. count : k # 0 => k \in 1 .. count /\ k - 1 \in 0 .. count
    BY <1>1
  <2>2. \A k \in 0 .. count : k # 0 => g[k][f[k - 1]] = One(k, f[k - 1])
    BY <1>6, <1>8, <2>1
  <2>3. \A k \in 0 .. count :
            (IF k = 0 THEN nothing ELSE g[k][f[k - 1]])
                = IF k = 0 THEN nothing ELSE One(k, f[k - 1])
    BY <2>2, Zenon
  <2> QED
    BY <1>8, <2>3 DEF Unrolls
<1>10. Q(t)
  <2> HIDE DEF Q
  <2> QED
    BY <1>2, <1>9, Zenon
<1>11. /\ t[0] = nothing
       /\ \A k \in 1 .. count : t[k] = One(k, t[k - 1])
  <2>1. 0 \in 0 .. count /\ \A k \in 1 .. count : k \in 0 .. count /\ k # 0
    BY <1>1
  <2> QED
    BY <1>10, <2>1
<1>12. IsFirst(first, H, count)
  <2>1. first = FirstChild(place, atX, atY)
    BY DEF HitWindow
  <2>2. /\ first \in 0 .. Len(place)
        /\ first # None => ContainsCoordinate(place[first], atX, atY)
        /\ \A j \in 1 .. Len(place) :
               first = None \/ j < first => ~ContainsCoordinate(place[j], atX, atY)
    BY <1>1, <2>1, FirstChildFirst
  <2> QED
    BY <1>1, <2>2 DEF None, count, IsFirst
<1>13. Overdrawn(t, nothing, v, H, count)
  BY <1>4, <1>11 DEF Overdrawn
<1>14. IsOnTop(t, nothing, v, first, count)
  <2>1. count \in Nat
    BY <1>1
  <2> HIDE DEF H, v
  <2> QED
    BY <1>12, <1>13, <2>1, FirstOnTop, Zenon
<1>15. first # 0 => v[first] = <<first, HitChild(first, atX, atY)>>
  BY <1>1, <1>12 DEF IsFirst
<1> QED
  BY <1>2, <1>14, <1>15 DEF nothing, None, IsOnTop

\* Dragging leaves the sizes as they are.
LEMMA DragKeepsSizes ==
    ASSUME NEW ws \in Seq(Rectangles), NEW e \in 0 .. Len(ws), NEW dx \in Int, NEW dy \in Int
    PROVE  \A j \in DOMAIN ws : /\ j \in DOMAIN Drag(ws, e, dx, dy)
                                /\ Drag(ws, e, dx, dy)[j].w = ws[j].w
                                /\ Drag(ws, e, dx, dy)[j].h = ws[j].h
<1>1. CASE ~(e # None /\ Dragging[e])
  BY <1>1 DEF Drag
<1>2. CASE e # None /\ Dragging[e]
  <2> DEFINE r == [ws[e] EXCEPT !.x = @ + dx, !.y = @ + dy]
             to == [ws EXCEPT ![e] = r]
  <2>1. e \in DOMAIN ws /\ ws[e] \in Rectangles
    BY <1>2 DEF None
  <2>2. Drag(ws, e, dx, dy) = to
    BY <1>2, <2>1 DEF Drag
  <2>3. r.w = ws[e].w /\ r.h = ws[e].h
    BY <2>1 DEF Rectangles
  <2> HIDE DEF r
  <2>4. \A j \in DOMAIN ws : j \in DOMAIN to /\ to[j] = IF j = e THEN r ELSE ws[j]
    BY <2>1
  <2> QED
    BY <2>2, <2>3, <2>4
<1> QED
  BY <1>1, <1>2

LEMMA SizesStep == DesktopInv /\ SizesKept /\ [DesktopNext]_desktopVars => SizesKept'
<1> SUFFICES ASSUME DesktopInv, SizesKept, [DesktopNext]_desktopVars
             PROVE  SizesKept'
  OBVIOUS
<1>1. DesktopTypeOK
  BY DEF DesktopInv
<1>2. CASE UNCHANGED place
  BY <1>2 DEF SizesKept
<1>3. CASE AddChild
  <2>1. /\ place' = Append(place, Windows[Len(place) + 1]) /\ Len(place) \in Nat
        /\ place \in Seq(Rectangles)
    BY <1>1, <1>3 DEF AddChild, DesktopTypeOK
  <2>2. /\ DOMAIN place' = DOMAIN place \cup {Len(place) + 1}
        /\ \A e \in DOMAIN place : place'[e] = place[e]
        /\ place'[Len(place) + 1] = Windows[Len(place) + 1]
    BY <2>1
  <2> QED
    BY <2>2 DEF SizesKept
<1>4. ASSUME NEW dx \in Moves, NEW dy \in Moves, DesktopMouseMove(dx, dy)
      PROVE  SizesKept'
  <2> DEFINE atX == Within(MouseX + Quarter(dx), DesktopW)
             atY == Within(MouseY + Quarter(dy), DesktopH)
             byX == atX - MouseX
             byY == atY - MouseY
             first == HitWindow(MouseX, MouseY)
             moved == Drag(place, first, byX, byY)
             second == FirstChild(moved, atX, atY)
             twice == Drag(moved, second, byX, byY)
  <2>1. atX \in Int /\ atY \in Int
    <3>1. Quarter(dx) \in Int /\ Quarter(dy) \in Int /\ DesktopW \in Int /\ DesktopH \in Int
      BY QuarterInt, DesktopAssumption
    <3>2. MouseX + Quarter(dx) \in Int /\ MouseY + Quarter(dy) \in Int
      BY <1>1, <3>1 DEF DesktopTypeOK
    <3> QED
      BY <3>1, <3>2, WithinInt
  <2>2. place' = IF second = first THEN moved ELSE twice
    BY <1>4 DEF DesktopMouseMove, DragDistance
  <2>3. byX \in Int /\ byY \in Int
    BY <1>1, <2>1 DEF DesktopTypeOK
  <2> HIDE DEF atX, atY, byX, byY
  <2>4. first \in 0 .. Len(place) /\ place \in Seq(Rectangles)
    BY <1>1, FirstChildIs DEF HitWindow, DesktopTypeOK
  <2> HIDE DEF first
  <2>5. /\ moved \in Seq(Rectangles) /\ Len(moved) = Len(place)
        /\ \A j \in DOMAIN place : /\ j \in DOMAIN moved
                                   /\ moved[j].w = place[j].w /\ moved[j].h = place[j].h
    BY <2>3, <2>4, DragMoves, DragKeepsSizes
  <2> HIDE DEF moved
  <2>6. second \in 0 .. Len(moved)
    BY <2>1, <2>5, FirstChildIs
  <2> HIDE DEF second
  <2>7. /\ twice \in Seq(Rectangles) /\ Len(twice) = Len(moved)
        /\ \A j \in DOMAIN moved : /\ j \in DOMAIN twice
                                   /\ twice[j].w = moved[j].w /\ twice[j].h = moved[j].h
    BY <2>3, <2>5, <2>6, DragMoves, DragKeepsSizes
  <2> HIDE DEF twice
  <2>8. DOMAIN place' = DOMAIN place
    BY <2>2, <2>4, <2>5, <2>7
  <2> QED
    BY <2>2, <2>5, <2>7, <2>8 DEF SizesKept
<1>5. ASSUME NEW b \in Buttons, DesktopMouseDown(b) \/ DesktopMouseUp(b)
      PROVE  UNCHANGED place
  BY <1>5 DEF DesktopMouseDown, DesktopMouseUp
<1> QED
  BY <1>2, <1>3, <1>4, <1>5 DEF DesktopNext, desktopVars

\* A click goes to the widget that is seen under the pointer: for any windows that hold
\* their widgets, wherever they have been dragged to.
THEOREM ClicksCorrect == ASSUME WidgetsInside PROVE DesktopSpec => []ClickHitsWhatIsSeen
<1>1. DesktopInit => SizesKept
  BY DEF DesktopInit, SizesKept
<1>2. DesktopInv /\ SizesKept => ClickHitsWhatIsSeen
  <2> SUFFICES ASSUME DesktopInv, SizesKept,
                      NEW atX \in 0 .. DesktopW - 1, NEW atY \in 0 .. DesktopH - 1
               PROVE  LET e == HitWindow(atX, atY)
                      IN  Seen(atX, atY) = <<e, IF e = None THEN None ELSE HitChild(e, atX, atY)>>
    BY DEF ClickHitsWhatIsSeen
  <2>1. atX \in Int /\ atY \in Int
    BY DesktopAssumption
  <2> QED
    BY <2>1, SeenIsHit DEF DesktopInv
<1> QED
  BY <1>1, <1>2, SizesStep, DesktopStart, DesktopStep, PTL DEF DesktopSpec

-----------------------------------------------------------------------------
(* int_to_string.                                                           *)

LEMMA PowersAre ==
    /\ PowerOfTen \in [Nat -> Nat \ {0}] /\ PowerOfTen[0] = 1
    /\ \A k \in Nat : PowerOfTen[k + 1] = 10 * PowerOfTen[k]
  <1> DEFINE V == Nat \ {0}
             Q(f) == f = [k \in Nat |-> IF k = 0 THEN 1 ELSE 10 * f[k - 1]]
             g == [k \in Nat |-> [v \in V |-> 10 * v]]
  <1>1. 1 \in V /\ \A v \in V : 10 * v \in V
    OBVIOUS
  <1>2. PowerOfTen = CHOOSE f : Q(f)
    BY Zenon DEF PowerOfTen
  <1> HIDE DEF V
  <1>3. g \in [Nat -> [V -> V]]
    BY <1>1
  <1>4. \A k \in Nat, v \in V : g[k][v] = 10 * v
    OBVIOUS
  <1> HIDE DEF g
  <1>5. PICK f \in [Nat -> V] : \A k \in Nat : Recurs(f, 1, g, k)
    BY <1>1, <1>3, RecursionExists
  <1>6. f[0] = 1
    BY <1>5 DEF Recurs
  <1>7. ASSUME NEW k \in Nat
        PROVE  f[k + 1] = 10 * f[k]
    <2>1. Recurs(f, 1, g, k + 1) /\ k \in 0 .. (k + 1) - 1
      BY <1>5
    <2>2. f[k + 1] = g[k][f[k]]
      BY <2>1 DEF Recurs
    <2> QED
      BY <1>4, <1>5, <2>2
  <1>8. Q(f)
    <2>1. ASSUME NEW k \in Nat
          PROVE  f[k] = IF k = 0 THEN 1 ELSE 10 * f[k - 1]
      <3>1. CASE k # 0
        <4>1. k - 1 \in Nat /\ (k - 1) + 1 = k
          BY <3>1
        <4> QED
          BY <1>7, <3>1, <4>1
      <3> QED
        BY <1>6, <3>1
    <2> QED
      BY <1>5, <2>1
  <1> DEFINE P == PowerOfTen
  <1>9. Q(P)
    <2> HIDE DEF Q
    <2> QED
      BY <1>2, <1>8, Zenon
  <1> HIDE DEF P
  <1>10. P[0] = 1 /\ \A k \in Nat : P[k + 1] = 10 * P[k]
    BY <1>9
  <1>11. \A k \in Nat : P[k] \in V
    <2> DEFINE T == {k \in Nat : P[k] \in V}
    <2>1. 0 \in T
      BY <1>1, <1>10
    <2>2. \A k \in Nat : k \in T => k + 1 \in T
      BY <1>1, <1>10
    <2> HIDE DEF T
    <2>3. \A k \in Nat : k \in T
      BY <2>1, <2>2, InductiveSet
    <2> QED
      BY <2>3 DEF T
  <1>12. P \in [Nat -> V]
    BY <1>9, <1>11
  <1> QED
    BY <1>10, <1>12, Zenon DEF P, V

LEMMA PowersGrow ==
    ASSUME NEW j \in Nat, NEW k \in Nat, j <= k
    PROVE  PowerOfTen[j] <= PowerOfTen[k]
  <1> DEFINE T == {d \in Nat : PowerOfTen[j] <= PowerOfTen[j + d]}
  <1>1. 0 \in T
    BY PowersAre
  <1>2. ASSUME NEW d \in Nat, d \in T
        PROVE  d + 1 \in T
    <2>1. j + d \in Nat /\ j + (d + 1) = (j + d) + 1
      OBVIOUS
    <2>2. PowerOfTen[j + d] \in Nat /\ PowerOfTen[j] \in Nat /\ PowerOfTen[(j + d) + 1] = 10 * PowerOfTen[j + d]
      BY <2>1, PowersAre
    <2> QED
      BY <1>2, <2>1, <2>2
  <1> HIDE DEF T
  <1>3. \A d \in Nat : d \in T
    BY <1>1, <1>2, InductiveSet
  <1>4. k - j \in Nat /\ j + (k - j) = k
    OBVIOUS
  <1> QED
    BY <1>3, <1>4 DEF T

LEMMA DecimalsAre ==
    ASSUME NEW s \in Seq(Int)
    PROVE  /\ Decimals(s) \in [0 .. Len(s) -> Int]
           /\ \A k \in 0 .. Len(s) :
                  Decimals(s)[k] = IF k = 0 THEN 0 ELSE 10 * Decimals(s)[k - 1] + s[k]
  <1> DEFINE count == Len(s)
             One(c, v) == 10 * v + c
             Q(f) == f = [k \in 0 .. count |-> IF k = 0 THEN 0 ELSE One(s[k], f[k - 1])]
             g == [k \in 1 .. count |-> [v \in Int |-> One(s[k], v)]]
  <1>1. count \in Nat /\ \A k \in 1 .. count : s[k] \in Int
    OBVIOUS
  <1>2. \A c, v \in Int : One(c, v) \in Int
    OBVIOUS
  <1>3. Decimals(s) = CHOOSE f : Q(f)
    BY Zenon DEF Decimals
  <1> HIDE DEF count, One
  <1>4. g \in [1 .. count -> [Int -> Int]]
    BY <1>1, <1>2
  <1>5. \A k \in 1 .. count, v \in Int : g[k][v] = One(s[k], v)
    OBVIOUS
  <1> HIDE DEF g
  <1>6. PICK f \in [0 .. count -> Int] : Unrolls(f, 0, g, count)
    <2>1. 0 \in Int /\ count \in Nat
      BY <1>1
    <2> QED
      BY <1>4, <2>1, RecursiveFunction, Zenon
  <1>7. \A k \in 0 .. count : k # 0 => k \in 1 .. count /\ k - 1 \in 0 .. count
    BY <1>1
  <1>8. Q(f)
    <2>1. \A k \in 0 .. count : k # 0 => k \in 1 .. count /\ f[k - 1] \in Int
      BY <1>6, <1>7
    <2>2. \A k \in 0 .. count : k # 0 => g[k][f[k - 1]] = One(s[k], f[k - 1])
      BY <1>5, <2>1, Zenon
    <2>3. \A k \in 0 .. count :
              (IF k = 0 THEN 0 ELSE g[k][f[k - 1]]) = IF k = 0 THEN 0 ELSE One(s[k], f[k - 1])
      BY <2>2, Zenon
    <2> QED
      BY <1>6, <2>3 DEF Unrolls
  <1> DEFINE m == Decimals(s)
  <1>9. Q(m)
    <2> HIDE DEF Q
    <2> QED
      BY <1>3, <1>8, Zenon
  <1> HIDE DEF m
  <1>10. \A k \in 0 .. count : m[k] \in Int
    <2> DEFINE T == {k \in Nat : m[k] \in Int}
    <2>1. 0 \in T
      BY <1>1, <1>9
    <2>2. ASSUME NEW k \in 0 .. count - 1, k \in T
          PROVE  k + 1 \in T
      <3>1. k + 1 \in 1 .. count /\ k + 1 \in 0 .. count /\ k + 1 # 0 /\ (k + 1) - 1 = k /\ k + 1 \in Nat
        BY <1>1
      <3>2. m[k + 1] = One(s[k + 1], m[k])
        BY <1>9, <3>1
      <3>3. m[k] \in Int /\ s[k + 1] \in Int
        BY <1>1, <2>2, <3>1
      <3> QED
        BY <1>2, <3>1, <3>2, <3>3
    <2> HIDE DEF T
    <2>3. \A k \in 0 .. count : k \in T
      BY <1>1, <2>1, <2>2, InductiveSegment
    <2> QED
      BY <2>3 DEF T
  <1>11. m \in [0 .. count -> Int]
    BY <1>9, <1>10
  <1>12. \A k \in 0 .. count : m[k] = IF k = 0 THEN 0 ELSE One(s[k], m[k - 1])
    BY <1>9
  <1> QED
    BY <1>11, <1>12, Zenon DEF m, count, One

\* A digit in front counts as many tens as there are digits behind it.
LEMMA DecimalPrepend ==
    ASSUME NEW s \in Seq(Int), NEW d \in Int, NEW t, t = <<d>> \o s
    PROVE  Decimal(t) = d * PowerOfTen[Len(s)] + Decimal(s)
  <1> DEFINE count == Len(s)
             A == Decimals(s)
             B == Decimals(t)
             S == {k \in Nat : B[k + 1] = d * PowerOfTen[k] + A[k]}
  <1>1. /\ t \in Seq(Int) /\ count \in Nat /\ Len(t) = count + 1 /\ t[1] = d
        /\ \A k \in 1 .. count : t[k + 1] = s[k] /\ s[k] \in Int
    OBVIOUS
  <1>2. /\ A \in [0 .. count -> Int]
        /\ \A k \in 0 .. count : A[k] = IF k = 0 THEN 0 ELSE 10 * A[k - 1] + s[k]
    BY DecimalsAre
  <1>3. /\ B \in [0 .. count + 1 -> Int]
        /\ \A k \in 0 .. count + 1 : B[k] = IF k = 0 THEN 0 ELSE 10 * B[k - 1] + t[k]
    BY <1>1, DecimalsAre
  <1> HIDE DEF A, B, count
  <1>4. 0 \in S
    BY <1>1, <1>2, <1>3, PowersAre
  <1>5. ASSUME NEW k \in 0 .. count - 1, k \in S
        PROVE  k + 1 \in S
    <2> DEFINE e == d * PowerOfTen[k]
    <2>1. k + 1 \in 1 .. count /\ k + 1 \in 0 .. count /\ k + 2 \in 0 .. count + 1 /\ k \in 0 .. count /\ k + 1 \in 0 .. count + 1
          /\ k \in Nat
      BY <1>1
    <2>2. B[k + 2] = 10 * B[k + 1] + s[k + 1]
      <3>1. k + 2 # 0 /\ (k + 2) - 1 = k + 1 /\ (k + 1) + 1 = k + 2
        BY <2>1
      <3>2. t[k + 2] = s[k + 1]
        BY <1>1, <2>1, <3>1
      <3>3. B[k + 2] = 10 * B[(k + 2) - 1] + t[k + 2]
        BY <1>3, <2>1, <3>1
      <3> QED
        BY <3>1, <3>2, <3>3
    <2>3. A[k + 1] = 10 * A[k] + s[k + 1]
      <3>1. k + 1 # 0 /\ (k + 1) - 1 = k
        BY <2>1
      <3> QED
        BY <1>2, <2>1, <3>1
    <2>4. d * PowerOfTen[k + 1] = 10 * e /\ e \in Int
      <3>1. PowerOfTen[k] \in Int /\ PowerOfTen[k + 1] = 10 * PowerOfTen[k]
        BY <2>1, PowersAre
      <3> QED
        BY <3>1
    <2>5. B[k + 1] = e + A[k]
      BY <1>5
    <2> HIDE DEF e
    <2>6. A[k] \in Int /\ A[k + 1] \in Int /\ s[k + 1] \in Int
      BY <1>1, <1>2, <2>1
    <2>7. B[k + 2] = 10 * e + A[k + 1]
      <3>1. 10 * B[k + 1] = 10 * e + 10 * A[k]
        BY <2>4, <2>5, <2>6
      <3> QED
        BY <2>2, <2>3, <2>4, <2>6, <3>1
    <2> QED
      BY <2>1, <2>4, <2>7
  <1> HIDE DEF S
  <1>6. \A k \in 0 .. count : k \in S
    BY <1>1, <1>4, <1>5, InductiveSegment
  <1>7. B[count + 1] = d * PowerOfTen[count] + A[count]
    BY <1>1, <1>6 DEF S
  <1> QED
    BY <1>1, <1>7 DEF A, B, count, Decimal

LEMMA ReverseAppend ==
    ASSUME NEW s \in Seq(Int), NEW d \in Int
    PROVE  Reverse(s) \in Seq(Int) /\ Len(Reverse(s)) = Len(s)
           /\ Reverse(Append(s, d)) = <<d>> \o Reverse(s)
  <1> DEFINE count == Len(s)
             r == Reverse(s)
             t == Reverse(Append(s, d))
             u == <<d>> \o Reverse(s)
  <1>1. count \in Nat /\ \A k \in 1 .. count : s[k] \in Int
    OBVIOUS
  <1>2. r = [k \in 1 .. count |-> s[(count - k) + 1]]
    BY DEF Reverse
  <1>3. r \in Seq(Int) /\ Len(r) = count
    <2>1. \A k \in 1 .. count : (count - k) + 1 \in 1 .. count
      BY <1>1
    <2>2. r \in [1 .. count -> Int]
      BY <1>1, <1>2, <2>1
    <2> QED
      BY <1>1, <2>2
  <1>4. /\ Len(Append(s, d)) = count + 1 /\ Append(s, d)[count + 1] = d
        /\ \A k \in 1 .. count : Append(s, d)[k] = s[k]
    OBVIOUS
  <1>5. t = [k \in 1 .. count + 1 |-> Append(s, d)[((count + 1) - k) + 1]]
    BY <1>4 DEF Reverse
  <1>6. u \in Seq(Int) /\ Len(u) = count + 1 /\ \A k \in 1 .. count + 1 : u[k] = IF k = 1 THEN d ELSE r[k - 1]
    BY <1>3
  <1> HIDE DEF r, t, u, count
  <1>7. \A k \in 1 .. count + 1 : t[k] = u[k]
    <2> SUFFICES ASSUME NEW k \in 1 .. count + 1 PROVE t[k] = u[k]
      OBVIOUS
    <2>1. CASE k = 1
      <3>1. 1 \in 1 .. count + 1 /\ ((count + 1) - 1) + 1 = count + 1
        BY <1>1
      <3>2. t[1] = Append(s, d)[count + 1]
        BY <1>5, <3>1
      <3>3. u[1] = d
        BY <1>6, <3>1
      <3> QED
        BY <1>4, <2>1, <3>2, <3>3
    <2>2. CASE k # 1
      <3>1. k - 1 \in 1 .. count /\ ((count + 1) - k) + 1 \in 1 .. count /\ ((count + 1) - k) + 1 = (count - (k - 1)) + 1
        BY <1>1, <2>2
      <3> QED
        BY <1>2, <1>4, <1>5, <1>6, <2>2, <3>1
    <2> QED
      BY <2>1, <2>2
  <1>8. t = u
    <2>1. u = [k \in 1 .. count + 1 |-> u[k]]
      BY <1>6
    <2>2. t = [k \in 1 .. count + 1 |-> t[k]]
      BY <1>5
    <2> QED
      BY <1>7, <2>1, <2>2
  <1> QED
    BY <1>3, <1>8 DEF r, t, u, count

-----------------------------------------------------------------------------
AskedMagnitude == IF asked < 0 THEN -asked ELSE asked

\* What the digits found so far and the rest of the number have to do with the argument.
DigitsFound ==
    /\ num \in Nat
    /\ Decimal(Reverse(temp)) \in Nat
    /\ AskedMagnitude = num * PowerOfTen[Len(temp)] + Decimal(Reverse(temp))
    /\ Len(temp) > 1 => PowerOfTen[Len(temp) - 1] <= AskedMagnitude
    /\ Len(temp) > 1 /\ num = 0 => temp[Len(temp)] # 0

PrintInv ==
    /\ asked \in Numbers
    /\ asked # Smallest =>
          /\ temp \in Seq(0 .. 9)
          /\ IF temp = <<>> THEN num = asked /\ text = <<>> ELSE DigitsFound
          /\ text # <<>> =>
                /\ num = 0
                /\ text = (IF asked < 0 THEN <<Sign>> ELSE <<>>) \o Reverse(temp)

LEMMA PrintStart == PrintInit => PrintInv
  BY DEF PrintInit, PrintInv

LEMMA AskedRange ==
    ASSUME asked \in Numbers, asked # Smallest
    PROVE  asked \in Int /\ AskedMagnitude \in 0 .. LargestInt
  BY IntToStringAssumption DEF Smallest, AskedMagnitude

\* Division by ten of a number that is not negative.
LEMMA LastDigit ==
    ASSUME NEW m \in Nat
    PROVE  /\ Quotient(m) \in Nat /\ Remainder(m) \in 0 .. 9
           /\ m = 10 * Quotient(m) + Remainder(m)
  <1>1. m \div 10 \in Nat /\ m - 10 * (m \div 10) \in 0 .. 9
    BY Z3
  <1>2. Quotient(m) = m \div 10
    BY DEF Quotient
  <1> QED
    BY <1>1, <1>2 DEF Remainder

LEMMA NoDigits == Decimal(Reverse(<<>>)) = 0 /\ PowerOfTen[Len(<<>>)] = 1
  <1>1. Reverse(<<>>) = <<>> /\ Len(<<>>) = 0 /\ <<>> \in Seq(Int)
    BY DEF Reverse
  <1>2. 0 \in 0 .. Len(<<>>)
    BY <1>1
  <1> QED
    BY <1>1, <1>2, DecimalsAre, PowersAre DEF Decimal

LEMMA FindDigitKeeps ==
    ASSUME PrintInv, asked # Smallest, FindDigit
    PROVE  PrintInv'
  <1> DEFINE m == IF temp = <<>> /\ asked < 0 THEN Negate(asked) ELSE num
             L == Len(temp)
             D == Decimal(Reverse(temp))
             q == Quotient(m)
             d == Remainder(m)
  <1>1. /\ text = <<>> /\ (temp = <<>> \/ num # 0)
        /\ temp' = Append(temp, d) /\ num' = q /\ UNCHANGED <<asked, text>>
    BY DEF FindDigit
  <1>2. temp \in Seq(0 .. 9) /\ asked \in Numbers
    BY DEF PrintInv
  <1>3. L \in Nat /\ (temp # <<>> => L > 0)
    BY <1>2
  <1>4. /\ m \in Nat /\ D \in Nat /\ AskedMagnitude = m * PowerOfTen[L] + D
        /\ temp # <<>> => m = num
    <2>1. CASE temp = <<>>
      <3>1. num = asked
        BY <2>1 DEF PrintInv
      <3>2. m = AskedMagnitude
        BY <1>2, <2>1, <3>1 DEF AskedMagnitude, Negate
      <3>3. D = 0 /\ PowerOfTen[L] = 1
        BY <2>1, NoDigits
      <3> QED
        BY <1>2, <2>1, <3>2, <3>3, AskedRange
    <2>2. CASE temp # <<>>
      <3>1. m = num
        BY <2>2
      <3> QED
        BY <2>2, <3>1 DEF PrintInv, DigitsFound
    <2> QED
      BY <2>1, <2>2
  <1>5. q \in Nat /\ d \in 0 .. 9 /\ m = 10 * q + d
    BY <1>4, LastDigit
  <1>6. /\ temp' \in Seq(0 .. 9) /\ temp' # <<>> /\ Len(temp') = L + 1 /\ temp'[L + 1] = d
    BY <1>1, <1>2, <1>5
  <1>7. Decimal(Reverse(temp')) = d * PowerOfTen[L] + D
    <2>1. temp \in Seq(Int) /\ d \in Int
      BY <1>2, <1>5
    <2>2. Reverse(temp) \in Seq(Int) /\ Len(Reverse(temp)) = L /\ Reverse(temp') = <<d>> \o Reverse(temp)
      BY <1>1, <2>1, ReverseAppend
    <2> QED
      BY <2>1, <2>2, DecimalPrepend
  <1>8. PowerOfTen[L] \in Nat \ {0} /\ PowerOfTen[L + 1] = 10 * PowerOfTen[L]
    BY <1>3, PowersAre
  <1> DEFINE p == PowerOfTen[L]
  <1>9. AskedMagnitude = m * p + D /\ num' * PowerOfTen[L + 1] = q * (10 * p)
    BY <1>1, <1>4, <1>8
  <1> HIDE DEF m, L, D, q, d, p
  <1>10. d * p \in Nat /\ q * (10 * p) + d * p = m * p
    <2>1. p \in Nat /\ d \in Nat
      BY <1>5, <1>8 DEF p
    <2>2. (10 * q + d) * p = q * (10 * p) + d * p
      BY <1>5, <2>1, Z3
    <2> QED
      BY <1>5, <2>1, <2>2, Z3
  <1>11. DigitsFound'
    <2>1. Decimal(Reverse(temp')) \in Nat
      BY <1>4, <1>7, <1>10 DEF p
    <2>2. AskedMagnitude' = num' * PowerOfTen[Len(temp')] + Decimal(Reverse(temp'))
      <3>1. AskedMagnitude' = AskedMagnitude
        BY <1>1 DEF AskedMagnitude
      <3>2. q * (10 * p) \in Nat
        BY <1>5, <1>8 DEF p
      <3> QED
        BY <1>4, <1>6, <1>7, <1>9, <1>10, <3>1, <3>2 DEF p
    <2>3. ASSUME Len(temp') > 1
          PROVE  PowerOfTen[Len(temp') - 1] <= AskedMagnitude' /\ (num' = 0 => temp'[Len(temp')] # 0)
      <3>1. L > 0 /\ Len(temp') - 1 = L
        BY <1>3, <1>6, <2>3
      <3>2. temp # <<>>
        BY <3>1 DEF L
      <3>3. m > 0
        BY <1>1, <1>4, <3>2
      <3>4. p <= m * p
        <4>1. p \in Nat
          BY <1>8 DEF p
        <4> QED
          BY <1>4, <3>3, <4>1, Z3
      <3>5. AskedMagnitude' = AskedMagnitude /\ p \in Nat /\ m * p \in Nat
        BY <1>1, <1>4, <1>8 DEF AskedMagnitude, p
      <3>6. p <= AskedMagnitude
        BY <1>4, <1>9, <3>4, <3>5
      <3>7. num' = 0 => d # 0
        BY <1>1, <1>5, <3>3
      <3> QED
        BY <1>6, <3>1, <3>5, <3>6, <3>7 DEF p
    <2>4. num' \in Nat
      BY <1>1, <1>5
    <2> QED
      BY <2>1, <2>2, <2>3, <2>4 DEF DigitsFound
  <1> QED
    BY <1>1, <1>2, <1>6, <1>11 DEF PrintInv

\* When the digits are copied none is left: the buffer has room for every int.
LEMMA CopyDigitsKeeps ==
    ASSUME PrintInv, asked # Smallest, CopyDigits
    PROVE  PrintInv'
  <1>1. /\ temp # <<>> /\ (num = 0 \/ Len(temp) >= Room)
        /\ text' = (IF asked < 0 THEN <<Sign>> ELSE <<>>) \o Reverse(temp)
        /\ UNCHANGED <<asked, num, temp>>
    BY DEF CopyDigits, Inverted
  <1>2. asked \in Numbers /\ temp \in Seq(0 .. 9) /\ DigitsFound
    BY <1>1 DEF PrintInv
  <1>3. num = 0
    <2> SUFFICES ASSUME num # 0, Len(temp) >= Room
                 PROVE  FALSE
      BY <1>1
    <2> DEFINE L == Len(temp)
               p == PowerOfTen[L]
    <2>1. /\ BufferSize \in Nat /\ BufferSize - 2 \in Nat /\ LargestInt < PowerOfTen[BufferSize - 2] 
          /\ LargestInt \in Nat
      BY IntToStringAssumption
    <2>2. L \in Nat /\ BufferSize - 2 <= L
      BY <1>2, <2>1 DEF Room
    <2>3. PowerOfTen[BufferSize - 2] <= p /\ p \in Nat /\ PowerOfTen[BufferSize - 2] \in Nat
      BY <2>1, <2>2, PowersGrow, PowersAre
    <2>4. /\ AskedMagnitude <= LargestInt /\ AskedMagnitude \in Nat
      BY <1>2, <2>1, AskedRange
    <2>5. /\ num \in Nat /\ Decimal(Reverse(temp)) \in Nat
          /\ AskedMagnitude = num * p + Decimal(Reverse(temp))
      BY <1>2 DEF DigitsFound
    <2> HIDE DEF p
    <2>6. p <= num * p /\ num * p \in Nat
      BY <2>3, <2>5, Z3
    <2> QED
      BY <2>1, <2>3, <2>4, <2>5, <2>6
  <1>4. DigitsFound'
    BY <1>1, <1>2 DEF DigitsFound, AskedMagnitude
  <1> QED
    BY <1>1, <1>2, <1>3, <1>4 DEF PrintInv

LEMMA PrintStep == PrintInv /\ [PrintNext]_printVars => PrintInv'
  <1> SUFFICES ASSUME PrintInv, [PrintNext]_printVars PROVE PrintInv'
    OBVIOUS
  <1>1. asked' = asked
    BY DEF PrintNext, FindDigit, CopyDigits, Printed, printVars
  <1>2. CASE asked = Smallest
    BY <1>1, <1>2 DEF PrintInv, Smallest
  <1>3. CASE asked # Smallest
    <2>1. CASE UNCHANGED printVars
      BY <2>1 DEF printVars, PrintInv, DigitsFound, AskedMagnitude
    <2> QED
      BY <1>3, <2>1, FindDigitKeeps, CopyDigitsKeeps DEF PrintNext, Printed
  <1> QED
    BY <1>2, <1>3

LEMMA PrintedRight == PrintInv => IntegerPrinted
  <1> SUFFICES ASSUME PrintInv, text # <<>>, asked # Smallest
               PROVE  LET digits == IF asked < 0 THEN Tail(text) ELSE text
                          magnitude == IF asked < 0 THEN -asked ELSE asked
                      IN  /\ asked < 0 => Head(text) = Sign
                          /\ \A k \in DOMAIN digits : digits[k] \in 0 .. 9
                          /\ Decimal(digits) = magnitude
                          /\ Len(digits) > 1 => digits[1] # 0
                          /\ Len(text) < BufferSize
    BY DEF IntegerPrinted
  <1> DEFINE r == Reverse(temp)
             L == Len(temp)
             digits == IF asked < 0 THEN Tail(text) ELSE text
  <1>1. /\ asked \in Numbers /\ temp \in Seq(0 .. 9) /\ temp # <<>> /\ DigitsFound /\ num = 0
        /\ text = (IF asked < 0 THEN <<Sign>> ELSE <<>>) \o r
    BY DEF PrintInv
  <1>2. L \in Nat \ {0} /\ \A k \in 1 .. L : temp[k] \in 0 .. 9
    BY <1>1
  <1>3. r = [k \in 1 .. L |-> temp[(L - k) + 1]]
    BY DEF Reverse
  <1>4. \A k \in 1 .. L : (L - k) + 1 \in 1 .. L /\ r[k] \in 0 .. 9
    BY <1>2, <1>3
  <1>5. r \in Seq(0 .. 9) /\ Len(r) = L /\ DOMAIN r = 1 .. L
    BY <1>2, <1>3, <1>4
  <1>6. digits = r /\ (asked < 0 => Head(text) = Sign) /\ Len(text) \in {L, L + 1}
    <2> DEFINE T == Int \cup {Sign}
    <2>1. r \in Seq(T) /\ <<Sign>> \in Seq(T)
      BY <1>5
    <2> HIDE DEF r, L, T
    <2>2. CASE asked < 0
      <3>1. text = <<Sign>> \o r
        BY <1>1, <2>2
      <3>2. Head(text) = Sign /\ Tail(text) = r /\ Len(text) = Len(r) + 1
        BY <2>1, <3>1
      <3> QED
        BY <1>2, <1>5, <2>2, <3>2
    <2>3. CASE ~(asked < 0)
      <3>1. text = r
        BY <1>1, <2>1, <2>3, ConcatEmptySeq
      <3> QED
        BY <1>2, <1>5, <2>3, <3>1
    <2> QED
      BY <2>2, <2>3
  <1>7. AskedMagnitude = Decimal(r)
    <2>1. PowerOfTen[L] \in Nat
      BY <1>2, PowersAre
    <2>2. Decimal(r) \in Nat /\ AskedMagnitude = 0 * PowerOfTen[L] + Decimal(r)
      BY <1>1 DEF DigitsFound
    <2> QED
      BY <2>1, <2>2
  <1>8. L > 1 => r[1] # 0
    BY <1>1, <1>2, <1>3 DEF DigitsFound
  <1>9. L + 1 < BufferSize
    <2> DEFINE B == BufferSize - 2
    <2>1. /\ B \in Nat /\ LargestInt < PowerOfTen[B] /\ LargestInt \in Nat \ {0}
          /\ PowerOfTen[B] \in Nat
      BY IntToStringAssumption, PowersAre
    <2>2. BufferSize = B + 2
      BY IntToStringAssumption
    <2>3. AskedMagnitude \in 0 .. LargestInt
      BY <1>1, AskedRange
    <2> HIDE DEF B
    <2>4. PowerOfTen[L - 1] <= LargestInt /\ PowerOfTen[L - 1] \in Nat
      <3>1. CASE L > 1
        <4>1. L - 1 \in Nat /\ PowerOfTen[L - 1] <= AskedMagnitude
          BY <1>1, <1>2, <3>1 DEF DigitsFound
        <4>2. PowerOfTen[L - 1] \in Nat
          BY <4>1, PowersAre
        <4> QED
          BY <2>1, <2>3, <4>1, <4>2
      <3>2. CASE L = 1
        <4>1. L - 1 = 0
          BY <3>2
        <4>2. PowerOfTen[L - 1] = 1
          BY <4>1, PowersAre, Zenon
        <4> QED
          BY <2>1, <4>2
      <3>3. L > 1 \/ L = 1
        BY <1>2
      <3> QED
        BY <3>1, <3>2, <3>3
    <2>5. L - 1 < B
      <3> SUFFICES ASSUME B <= L - 1 PROVE FALSE
        BY <1>2, <2>1
      <3>1. PowerOfTen[B] <= PowerOfTen[L - 1]
        BY <1>2, <2>1, PowersGrow
      <3> QED
        BY <2>1, <2>4, <3>1
    <2> QED
      BY <1>2, <2>1, <2>2, <2>5
  <1> QED
    <2>1. /\ \A k \in DOMAIN digits : digits[k] \in 0 .. 9
          /\ Len(digits) > 1 => digits[1] # 0
      BY <1>4, <1>5, <1>6, <1>8
    <2>2. Decimal(digits) = AskedMagnitude
      BY <1>6, <1>7
    <2>3. Len(text) < BufferSize
      <3>1. BufferSize \in Nat
        BY IntToStringAssumption
      <3>2. Len(text) = L \/ Len(text) = L + 1
        BY <1>5, <1>6
      <3> QED
        BY <1>2, <1>9, <3>1, <3>2
    <2> QED
      BY <1>6, <2>1, <2>2, <2>3, Zenon DEF AskedMagnitude

\* int_to_string prints the decimal notation of every int but the smallest, without
\* leading zeros and within its buffer, for every range of int and every buffer that
\* has room for the largest one.
THEOREM PrintedCorrect == PrintSpec => []IntegerPrinted
  BY PrintStart, PrintStep, PrintedRight, PTL DEF PrintSpec

-----------------------------------------------------------------------------
(* scanf.                                                                    *)

\* int arithmetic gives ints.
LEMMA WrapInt == ASSUME NEW k \in Int PROVE Wrap(k) \in Int
  <1>1. MaxInt \in Nat
    BY ScanfAssumption
  <1>2. 2 * (MaxInt + 1) \in Nat \ {0} /\ k + MaxInt + 1 \in Int
    BY <1>1
  <1>3. (k + MaxInt + 1) % (2 * (MaxInt + 1)) \in Int
    BY <1>2
  <1> QED
    BY <1>1, <1>3 DEF Wrap

\* What one more character makes of a magnitude.
LEMMA MagnitudesAre ==
    ASSUME NEW s \in Seq(Int)
    PROVE  /\ Magnitudes(s) \in [0 .. Len(s) -> Int]
           /\ Magnitudes(s) =
                  [k \in 0 .. Len(s) |->
                      IF k = 0 THEN 0
                      ELSE IF s[k] \in Digits THEN Wrap(Magnitudes(s)[k - 1] * 10 + (s[k] - 48))
                      ELSE Magnitudes(s)[k - 1]]
  <1> DEFINE count == Len(s)
             One(c, v) == IF c \in Digits THEN Wrap(v * 10 + (c - 48)) ELSE v
             Q(f) == f = [k \in 0 .. count |-> IF k = 0 THEN 0 ELSE One(s[k], f[k - 1])]
             g == [k \in 1 .. count |-> [v \in Int |-> One(s[k], v)]]
  <1>1. count \in Nat /\ \A k \in 1 .. count : s[k] \in Int
    OBVIOUS
  <1>2. \A c, v \in Int : One(c, v) \in Int
    <2>1. \A c, v \in Int : v * 10 + (c - 48) \in Int
      OBVIOUS
    <2> QED
      BY <2>1, WrapInt
  <1>3. Magnitudes(s) = CHOOSE f : Q(f)
    BY Zenon DEF Magnitudes
  <1> HIDE DEF count, One
  <1>4. g \in [1 .. count -> [Int -> Int]]
    BY <1>1, <1>2
  <1>5. \A k \in 1 .. count, v \in Int : g[k][v] = One(s[k], v)
    OBVIOUS
  <1> HIDE DEF g
  <1>6. PICK f \in [0 .. count -> Int] : Unrolls(f, 0, g, count)
    <2>1. 0 \in Int /\ count \in Nat
      BY <1>1
    <2> QED
      BY <1>4, <2>1, RecursiveFunction, Zenon
  <1>7. \A k \in 0 .. count : k # 0 => k \in 1 .. count /\ k - 1 \in 0 .. count
    BY <1>1
  <1>8. Q(f)
    <2>1. \A k \in 0 .. count : k # 0 => k \in 1 .. count /\ f[k - 1] \in Int
      BY <1>6, <1>7
    <2>2. \A k \in 0 .. count : k # 0 => g[k][f[k - 1]] = One(s[k], f[k - 1])
      BY <1>5, <2>1, Zenon
    <2>3. \A k \in 0 .. count :
              (IF k = 0 THEN 0 ELSE g[k][f[k - 1]]) = IF k = 0 THEN 0 ELSE One(s[k], f[k - 1])
      BY <2>2, Zenon
    <2> QED
      BY <1>6, <2>3 DEF Unrolls
  <1> DEFINE m == Magnitudes(s)
  <1>9. Q(m)
    <2> HIDE DEF Q
    <2> QED
      BY <1>3, <1>8, Zenon
  <1> HIDE DEF m
  <1>10. \A k \in 0 .. count : m[k] \in Int
    <2> DEFINE T == {k \in Nat : m[k] \in Int}
    <2>1. 0 \in T
      BY <1>1, <1>9
    <2>2. ASSUME NEW k \in 0 .. count - 1, k \in T
          PROVE  k + 1 \in T
      <3>1. k + 1 \in 1 .. count /\ k + 1 \in 0 .. count /\ k + 1 # 0 /\ (k + 1) - 1 = k /\ k + 1 \in Nat
        BY <1>1
      <3>2. m[k + 1] = One(s[k + 1], m[k])
        BY <1>9, <3>1
      <3>3. m[k] \in Int /\ s[k + 1] \in Int
        BY <1>1, <2>2, <3>1
      <3> QED
        BY <1>2, <3>1, <3>2, <3>3
    <2> HIDE DEF T
    <2>3. \A k \in 0 .. count : k \in T
      BY <1>1, <2>1, <2>2, InductiveSegment
    <2> QED
      BY <2>3 DEF T
  <1>11. m \in [0 .. count -> Int]
    BY <1>9, <1>10
  <1> QED
    BY <1>9, <1>11, Zenon DEF m, count, One

\* A character at the end leaves the magnitudes before it as they were.
LEMMA MagnitudeAppend ==
    ASSUME NEW s \in Seq(Int), NEW c \in Int, NEW t, t = Append(s, c)
    PROVE  /\ \A k \in 0 .. Len(s) : Magnitudes(t)[k] = Magnitudes(s)[k]
           /\ Magnitude(t) = IF c \in Digits THEN Wrap(Magnitude(s) * 10 + (c - 48))
                             ELSE Magnitude(s)
  <1> DEFINE count == Len(s)
             One(e, v) == IF e \in Digits THEN Wrap(v * 10 + (e - 48)) ELSE v
             S == {k \in Nat : Magnitudes(t)[k] = Magnitudes(s)[k]}
  <1>1. /\ t \in Seq(Int) /\ count \in Nat /\ Len(t) = count + 1 /\ t[count + 1] = c
        /\ \A k \in 1 .. count : t[k] = s[k]
    OBVIOUS
  <1>2. \A k \in 0 .. count : Magnitudes(s)[k] = IF k = 0 THEN 0 ELSE One(s[k], Magnitudes(s)[k - 1])
    BY MagnitudesAre, Zenon
  <1>3. \A k \in 0 .. count + 1 :
            Magnitudes(t)[k] = IF k = 0 THEN 0 ELSE One(t[k], Magnitudes(t)[k - 1])
    BY <1>1, MagnitudesAre, Zenon
  <1> HIDE DEF count, One
  <1>4. 0 \in S
    BY <1>1, <1>2, <1>3
  <1>5. ASSUME NEW k \in 0 .. count - 1, k \in S
        PROVE  k + 1 \in S
    <2>1. k + 1 \in 1 .. count /\ k + 1 \in 0 .. count /\ k + 1 \in 0 .. count + 1 /\ k + 1 # 0 /\ (k + 1) - 1 = k
      BY <1>1
    <2> QED
      BY <1>1, <1>2, <1>3, <1>5, <2>1
  <1> HIDE DEF S
  <1>6. \A k \in 0 .. count : k \in S
    BY <1>1, <1>4, <1>5, InductiveSegment
  <1>7. \A k \in 0 .. count : Magnitudes(t)[k] = Magnitudes(s)[k]
    BY <1>6 DEF S
  <1>8. Magnitudes(t)[count + 1] = One(c, Magnitudes(s)[count])
    <2>1. count + 1 \in 0 .. count + 1 /\ count + 1 # 0 /\ (count + 1) - 1 = count /\ count \in 0 .. count
      BY <1>1
    <2> QED
      BY <1>1, <1>3, <1>7, <2>1
  <1> QED
    BY <1>1, <1>7, <1>8 DEF count, One, Magnitude

LEMMA NegativeAppend ==
    ASSUME NEW s \in Seq(Int), NEW c \in Int, NEW t, t = Append(s, c)
    PROVE  Negative(t) <=> Negative(s) \/ (c = Minus /\ Magnitude(s) = 0)
  <1> DEFINE count == Len(s)
  <1>1. /\ count \in Nat /\ DOMAIN s = 1 .. count /\ DOMAIN t = 1 .. count + 1 /\ t[count + 1] = c
        /\ \A k \in 1 .. count : t[k] = s[k]
    OBVIOUS
  <1>2. \A k \in 0 .. count : Magnitudes(t)[k] = Magnitudes(s)[k]
    BY MagnitudeAppend
  <1>3. Magnitude(s) = Magnitudes(s)[count]
    BY DEF Magnitude
  <1> HIDE DEF count
  <1>4. \A k \in 1 .. count : Magnitudes(t)[k - 1] = Magnitudes(s)[k - 1]
    BY <1>1, <1>2
  <1>5. Magnitudes(t)[(count + 1) - 1] = Magnitude(s)
    BY <1>1, <1>2, <1>3
  <1>6. \A k : k \in 1 .. count + 1 <=> k \in 1 .. count \/ k = count + 1
    BY <1>1
  <1> QED
    BY <1>1, <1>4, <1>5, <1>6, Zenon DEF Negative

LEMMA EmptyLine == Magnitude(<<>>) = 0 /\ ~Negative(<<>>) /\ <<>> \in Seq(Int)
  <1>1. <<>> \in Seq(Int) /\ Len(<<>>) = 0 /\ DOMAIN <<>> = {}
    OBVIOUS
  <1>2. Magnitude(<<>>) = 0
    <2>1. \A k \in 0 .. Len(<<>>) : k = 0 => Magnitudes(<<>>)[k] = 0
      BY <1>1, MagnitudesAre, Zenon
    <2> QED
      BY <1>1, <2>1 DEF Magnitude
  <1> QED
    BY <1>1, <1>2 DEF Negative

\* The line before its last character, and the characters on it.
LEMMA LineAppend ==
    ASSUME NEW s \in Seq(Int), NEW c \in Int, NEW t, t = Append(s, c)
    PROVE  /\ t \in Seq(Int) /\ t # <<>> /\ Last(t) = c /\ Front(t) = s
           /\ Range(t) = Range(s) \cup {c}
  <1>1. /\ t \in Seq(Int) /\ t # <<>> /\ Len(t) = Len(s) + 1 /\ t[Len(s) + 1] = c
        /\ \A k \in 1 .. Len(s) : t[k] = s[k]
    OBVIOUS
  <1>2. Front(t) = s
    <2>1. Front(t) = SubSeq(t, 1, Len(s))
      BY <1>1 DEF Front
    <2>2. /\ SubSeq(t, 1, Len(s)) \in Seq(Int) /\ Len(SubSeq(t, 1, Len(s))) = Len(s)
          /\ \A k \in 1 .. Len(s) : SubSeq(t, 1, Len(s))[k] = t[k]
      BY <1>1
    <2> QED
      BY <1>1, <2>1, <2>2, SeqEqual
  <1>3. Range(t) = Range(s) \cup {c}
    <2>1. DOMAIN t = DOMAIN s \cup {Len(s) + 1} /\ \A k \in DOMAIN s : t[k] = s[k]
      BY <1>1
    <2> QED
      BY <1>1, <2>1 DEF Range
  <1> QED
    BY <1>1, <1>2, <1>3 DEF Last

-----------------------------------------------------------------------------
\* A single reader; scanf_shared shows what happens with two.
OneReader == \A r, q \in Readers : r = q

ScanTypeOK ==
    /\ value \in Int /\ completed \in BOOLEAN /\ negative \in BOOLEAN /\ torn \in BOOLEAN
    /\ line \in Seq(Int)
    /\ at \in [Readers -> {"prompt", "reset completed", "reset negative", "poll", "get",
                           "set_state"}]
    /\ number \in [Readers -> Int]

\* The line is still being typed: the handler holds what it stands for so far.
LineTyped ==
    Enter \notin Range(line) /\ value = Magnitude(line) /\ (negative <=> Negative(line))

\* The line has ended with Enter.
LineRead ==
    /\ line # <<>> /\ Last(line) = Enter /\ Enter \notin Range(Front(line))
    /\ value = NumberOf(line)

\* What a reader finds in the handler, unless Reset was torn.
ReaderFinds(r) ==
    /\ at[r] \in {"reset completed", "reset negative"} =>
          {Minus, Enter} \cap Range(line) = {} /\ value = Magnitude(line)
    /\ at[r] = "reset negative" => ~completed
    /\ at[r] = "poll" => IF completed THEN LineRead ELSE LineTyped
    /\ at[r] = "get" => completed /\ LineRead

ScanInv == ScanTypeOK /\ (~torn => \A r \in Readers : ReaderFinds(r))

LEMMA ScanStart == ScanfInit => ScanInv
  <1> SUFFICES ASSUME ScanfInit PROVE ScanInv
    OBVIOUS
  <1>1. /\ value = 0 /\ completed = FALSE /\ negative = FALSE /\ torn = FALSE /\ line = <<>>
        /\ at = [r \in Readers |-> "prompt"] /\ number = [r \in Readers |-> 0]
    BY Zenon DEF ScanfInit
  <1>2. value \in Int /\ number \in [Readers -> Int]
    BY <1>1
  <1>3. ScanTypeOK
    BY <1>1, <1>2, EmptyLine, Zenon DEF ScanTypeOK
  <1>4. \A r \in Readers : at[r] = "prompt"
    BY <1>1
  <1>5. \A r \in Readers : ReaderFinds(r)
    BY <1>4 DEF ReaderFinds
  <1> QED
    BY <1>3, <1>5, Zenon DEF ScanInv

LEMMA KeyCharInt == ASSUME NEW scan \in Keys PROVE KeyChar(scan) \in Int
  <1>0. scan \in Int
    BY ScanfAssumption
  <1>1. CASE scan \in 2 .. 11
    <2>1. 48 + ((scan - 1) % 10) \in Int
      BY <1>0
    <2> QED
      BY <1>0, <1>1, <2>1 DEF KeyChar
  <1>2. CASE scan \notin 2 .. 11
    BY <1>0, <1>2 DEF KeyChar, Enter, Minus, NoChar
  <1> QED
    BY <1>1, <1>2

\* A character that is taken keeps what the reader finds.
LEMMA KeyKeeps ==
    ASSUME ScanInv, NEW c \in Int, Accept(c), OnKeyDown(c), UNCHANGED <<at, number>>
    PROVE  ScanInv'
  <1>1. /\ ~completed /\ completed \in BOOLEAN /\ value \in Int
        /\ negative \in BOOLEAN /\ line \in Seq(Int) /\ torn \in BOOLEAN
    BY DEF Accept, ScanInv, ScanTypeOK
  <1>2. /\ line' = Append(line, c)
        /\ torn' = (torn \/ (Resetting /\ c \in {Minus, Enter}))
    BY DEF OnKeyDown
  <1>3. /\ line' \in Seq(Int) /\ line' # <<>> /\ Last(line') = c /\ Front(line') = line
        /\ Range(line') = Range(line) \cup {c}
    BY <1>1, <1>2, LineAppend
  <1>4. /\ Magnitude(line') = IF c \in Digits THEN Wrap(Magnitude(line) * 10 + (c - 48))
                              ELSE Magnitude(line)
        /\ Negative(line') <=> Negative(line) \/ (c = Minus /\ Magnitude(line) = 0)
    BY <1>1, <1>2, MagnitudeAppend, NegativeAppend
  <1>5. \/ /\ c = Enter
           /\ value' = IF negative THEN Wrap(-value) ELSE value
           /\ completed' = TRUE /\ UNCHANGED negative
        \/ /\ c = Minus /\ value = 0 /\ ~negative
           /\ negative' = TRUE /\ UNCHANGED <<value, completed>>
        \/ /\ c \in Digits
           /\ value' = Wrap(value * 10 + (c - 48))
           /\ UNCHANGED <<completed, negative>>
        \/ /\ c \notin Digits \cup {Enter}
           /\ ~(c = Minus /\ value = 0 /\ ~negative)
           /\ UNCHANGED handler
    BY DEF OnKeyDown
  <1>6. value' \in Int /\ completed' \in BOOLEAN /\ negative' \in BOOLEAN /\ torn' \in BOOLEAN
    <2>1. -value \in Int /\ value * 10 + (c - 48) \in Int
      BY <1>1
    <2>2. Wrap(-value) \in Int /\ Wrap(value * 10 + (c - 48)) \in Int
      BY <2>1, WrapInt
    <2>3. /\ value' \in {value, Wrap(-value), Wrap(value * 10 + (c - 48))}
          /\ completed' \in {completed, TRUE} /\ negative' \in {negative, TRUE}
      BY <1>5, Zenon DEF handler
    <2>4. value' \in Int
      BY <1>1, <2>2, <2>3, Zenon
    <2> QED
      BY <1>1, <1>2, <2>3, <2>4, Zenon
  <1>7. ScanTypeOK'
    BY <1>3, <1>6 DEF ScanInv, ScanTypeOK
  <1>8. Enter \notin Digits /\ Minus \notin Digits /\ Enter # Minus
    BY DEF Enter, Minus, Digits
  <1>9. ASSUME ~torn', NEW r \in Readers
        PROVE  ReaderFinds(r)'
    <2>1. ~torn /\ ReaderFinds(r) /\ UNCHANGED at
      BY <1>1, <1>2, <1>9 DEF ScanInv
    <2>2. at[r] # "get"
      BY <1>1, <2>1 DEF ReaderFinds
    <2>3. CASE at[r] \in {"reset completed", "reset negative"}
      <3>1. c \notin {Minus, Enter}
        BY <1>2, <1>9, <2>3 DEF Resetting
      <3>2. {Minus, Enter} \cap Range(line') = {}
        BY <1>3, <2>1, <2>3, <3>1 DEF ReaderFinds
      <3>3. value' = Magnitude(line') /\ completed' = completed
        BY <1>4, <1>5, <2>1, <2>3, <3>1, Zenon DEF ReaderFinds, handler
      <3> QED
        BY <2>1, <2>3, <3>2, <3>3, Zenon DEF ReaderFinds
    <2>4. CASE at[r] = "poll"
      <3>1. LineTyped
        BY <1>1, <2>1, <2>4 DEF ReaderFinds
      <3>2. CASE c = Enter
        <4>1. value' = (IF negative THEN Wrap(-value) ELSE value) /\ completed' = TRUE
          BY <1>5, <1>8, <3>2
        <4>2. LineRead'
          BY <1>3, <1>4, <1>8, <3>1, <3>2, <4>1 DEF LineRead, LineTyped, NumberOf
        <4> QED
          BY <2>1, <2>4, <4>1, <4>2 DEF ReaderFinds
      <3>3. CASE c # Enter
        <4>1. completed' = FALSE
          BY <1>1, <1>5, <3>3 DEF handler
        <4>2. Enter \notin Range(line') /\ value' = Magnitude(line')
          BY <1>3, <1>4, <1>5, <1>8, <3>1, <3>3 DEF LineTyped, handler
        <4>3. negative' <=> Negative(line')
          BY <1>1, <1>4, <1>5, <1>8, <3>1, <3>3 DEF LineTyped, handler
        <4> QED
          BY <2>1, <2>4, <4>1, <4>2, <4>3 DEF ReaderFinds, LineTyped
      <3> QED
        BY <3>2, <3>3
    <2> QED
      BY <2>1, <2>2, <2>3, <2>4, Zenon DEF ReaderFinds
  <1> QED
    BY <1>7, <1>9, Zenon DEF ScanInv

LEMMA InterruptKeepsLine ==
    ASSUME ScanInv, NEW scan \in Keys, KeyboardInterrupt(scan)
    PROVE  ScanInv'
  <1>1. CASE scan < 128 /\ KeyChar(scan) # NoChar /\ Accept(KeyChar(scan))
    BY <1>1, KeyCharInt, KeyKeeps DEF KeyboardInterrupt
  <1>2. CASE ~(scan < 128 /\ KeyChar(scan) # NoChar /\ Accept(KeyChar(scan)))
    <2>1. UNCHANGED scanfVars
      BY <1>2 DEF KeyboardInterrupt, OnKeyDown, scanfVars, handler
    <2> QED
      BY <2>1 DEF scanfVars, handler, ScanInv, ScanTypeOK, ReaderFinds, LineRead, LineTyped
  <1> QED
    BY <1>1, <1>2

\* The reader goes on; it is the only one.
LEMMA ReaderKeeps ==
    ASSUME ScanInv, OneReader, NEW r \in Readers, ReaderStep(r)
    PROVE  ScanInv'
  <1> USE DEF Go
  <1>1. \A q \in Readers : q = r
    BY DEF OneReader
  <1>2. ScanTypeOK
    BY DEF ScanInv
  <1>3. torn \in BOOLEAN /\ (~torn => ReaderFinds(r))
    BY <1>2 DEF ScanInv, ScanTypeOK
  <1>4. at \in [Readers -> {"prompt", "reset completed", "reset negative", "poll", "get", "set_state"}]
    BY <1>2 DEF ScanTypeOK
  <1>5. CASE ResetValue(r)
    <2>1. at[r] = "prompt" /\ at'[r] = "reset completed" /\ value' = 0 /\ line' = <<>>
      BY <1>4, <1>5 DEF ResetValue
    <2>2. ScanTypeOK'
      <3>1. value' \in Int
        <4>1. 0 \in Int
          OBVIOUS
        <4> QED
          BY <1>5, <4>1, Zenon DEF ResetValue
      <3>2. torn' \in BOOLEAN
        BY <1>5, Zenon DEF ResetValue
      <3>3. at' \in [Readers -> {"prompt", "reset completed", "reset negative", "poll",
                                   "get", "set_state"}]
        BY <1>4, <1>5 DEF ResetValue
      <3> QED
        BY <1>2, <1>5, <3>1, <3>2, <3>3, EmptyLine, Zenon DEF ResetValue, ScanTypeOK
    <2>3. Range(line') = {}
      <3>1. DOMAIN <<>> = {}
        OBVIOUS
      <3> QED
        BY <2>1, <3>1, Zenon DEF Range
    <2>4. ReaderFinds(r)'
      BY <2>1, <2>3, EmptyLine DEF ReaderFinds
    <2> QED
      BY <1>1, <2>2, <2>4 DEF ScanInv
  <1>6. CASE ResetCompleted(r)
    <2>1. /\ at[r] = "reset completed" /\ at'[r] = "reset negative" /\ completed' = FALSE
          /\ UNCHANGED <<value, line, torn>>
      BY <1>4, <1>6 DEF ResetCompleted
    <2>2. ScanTypeOK'
      BY <1>2, <1>6 DEF ResetCompleted, ScanTypeOK
    <2>3. ~torn' => ReaderFinds(r)'
      BY <1>3, <2>1 DEF ReaderFinds
    <2> QED
      BY <1>1, <2>2, <2>3 DEF ScanInv
  <1>7. CASE ResetNegative(r)
    <2>1. /\ at[r] = "reset negative" /\ at'[r] = "poll" /\ negative' = FALSE
          /\ UNCHANGED <<value, completed, line, torn>>
      BY <1>4, <1>7 DEF ResetNegative
    <2>2. ScanTypeOK'
      BY <1>2, <1>7 DEF ResetNegative, ScanTypeOK
    <2>3. ASSUME ~torn'
          PROVE  ReaderFinds(r)'
      <3>1. {Minus, Enter} \cap Range(line) = {} /\ value = Magnitude(line) /\ ~completed
        BY <1>3, <2>1, <2>3 DEF ReaderFinds
      <3>2. ~Negative(line)
        BY <3>1 DEF Negative, Range
      <3>3. LineTyped'
        BY <2>1, <3>1, <3>2 DEF LineTyped
      <3> QED
        BY <2>1, <3>1, <3>3 DEF ReaderFinds
    <2> QED
      BY <1>1, <2>2, <2>3 DEF ScanInv
  <1>8. CASE LeavePoll(r)
    <2>1. /\ at[r] = "poll" /\ at'[r] = "get" /\ completed
          /\ UNCHANGED <<value, completed, negative, line, torn>>
      BY <1>4, <1>8 DEF LeavePoll, IsCompleted, handler
    <2>2. ScanTypeOK'
      BY <1>2, <1>8 DEF LeavePoll, ScanTypeOK, handler
    <2>3. ~torn' => ReaderFinds(r)'
      BY <1>3, <2>1 DEF ReaderFinds, LineRead
    <2> QED
      BY <1>1, <2>2, <2>3 DEF ScanInv
  <1>9. CASE GetValue(r) \/ printCollatz(r)
    <2>1. at'[r] \in {"set_state", "prompt"}
      BY <1>4, <1>9 DEF GetValue, printCollatz
    <2>2. ScanTypeOK'
      BY <1>2, <1>9 DEF GetValue, printCollatz, ScanTypeOK, handler
    <2>3. ReaderFinds(r)'
      BY <2>1 DEF ReaderFinds
    <2> QED
      BY <1>1, <2>2, <2>3 DEF ScanInv
  <1> QED
    BY <1>5, <1>6, <1>7, <1>8, <1>9 DEF ReaderStep

LEMMA ScanStep == ScanInv /\ OneReader /\ [ScanfNext]_scanfVars => ScanInv'
  <1> SUFFICES ASSUME ScanInv, OneReader, [ScanfNext]_scanfVars
               PROVE  ScanInv'
    OBVIOUS
  <1>1. ASSUME NEW scan \in Keys, KeyboardInterrupt(scan)
        PROVE  ScanInv'
    BY <1>1, InterruptKeepsLine
  <1>2. ASSUME NEW r \in Readers, ReaderStep(r)
        PROVE  ScanInv'
    BY <1>2, ReaderKeeps
  <1>3. CASE UNCHANGED scanfVars
    BY <1>3 DEF scanfVars, handler, ScanInv, ScanTypeOK, ReaderFinds, LineRead, LineTyped
  <1> QED
    BY <1>1, <1>2, <1>3 DEF ScanfNext

\* What scanf stores is the number that was typed on the line after the call, for every
\* line, every set of keys and every range of int, with a single reader and unless a '-'
\* or an Enter was struck in the middle of Reset.
THEOREM ScannedCorrect == ASSUME OneReader PROVE ScanfSpec => ScannedNumber
  <1> DEFINE Got(r) == at[r] = "get" /\ at'[r] = "set_state" /\ ~torn =>
                           /\ line # <<>> /\ Last(line) = Enter
                           /\ Enter \notin Range(Front(line))
                           /\ number'[r] = NumberOf(line)
  <1>1. ScanInv /\ [ScanfNext]_scanfVars => [\A r \in Readers : Got(r)]_scanfVars
    <2> SUFFICES ASSUME ScanInv, ScanfNext, NEW r \in Readers,
                        at[r] = "get", at'[r] = "set_state", ~torn
                 PROVE  /\ line # <<>> /\ Last(line) = Enter
                        /\ Enter \notin Range(Front(line))
                        /\ number'[r] = NumberOf(line)
      OBVIOUS
    <2>1. LineRead /\ ScanTypeOK
      BY DEF ScanInv, ReaderFinds
    <2>2. ASSUME NEW q \in Readers, ReaderStep(q)
          PROVE  number'[r] = value
      <3>1. q = r
        BY <2>1, <2>2 DEF ScanTypeOK, ReaderStep, ResetValue, ResetCompleted, ResetNegative,
                          LeavePoll, GetValue, printCollatz, Go
      <3>2. GetValue(r)
        BY <2>2, <3>1 DEF ReaderStep, ResetValue, ResetCompleted, ResetNegative, LeavePoll,
                          printCollatz, Go
      <3> QED
        BY <2>1, <3>2 DEF GetValue, ScanTypeOK
    <2>3. \A scan \in Keys : ~KeyboardInterrupt(scan)
      BY DEF KeyboardInterrupt
    <2> QED
      BY <2>1, <2>2, <2>3 DEF ScanfNext, LineRead
  <1> HIDE DEF Got
  <1>2. ScanfInit /\ [][ScanfNext]_scanfVars => [][\A r \in Readers : Got(r)]_scanfVars
    BY <1>1, ScanStart, ScanStep, PTL
  <1> QED
    BY <1>2, PTL DEF ScanfSpec, ScannedNumber, Got
=============================================================================
