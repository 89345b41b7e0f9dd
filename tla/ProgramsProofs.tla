--------------------------- MODULE ProgramsProofs ---------------------------
(***************************************************************************)
(* The programs of kernel.cpp, for any size of the process table and any    *)
(* number of rounds.  First the shape of their code, from the shapes they   *)
(* are composed of; then what the processes that run them can do.           *)
(***************************************************************************)
EXTENDS Programs, TaskManagerProofs, SequenceTheorems

-----------------------------------------------------------------------------
(* Pieces of code.                                                          *)

Ops ==
    {"fork", "get", "store", "ifchild", "jump", "load", "wait", "zero", "inc", "less", "until",
     "warmup", "priority", "aging", "exec", "exit", "return", "spin"}

Arguments == ProgramPriorities \cup {"worker", "forever"}

Instructions ==
    [op : Ops] \cup [op : Ops, var : Locals] \cup [op : Ops, arg : Arguments]
        \cup [op : Ops, skip : Nat] \cup [op : Ops, var : Locals, skip : Nat]
        \cup [op : Ops, var : Locals, back : Nat]
        \cup [op : Ops, var : Locals, arg : Arguments]

\* The instructions that depend on the one before them: no jump leads there.
Dependent == {"get", "store", "ifchild", "load", "wait", "return"}

\* Where only a child gets to: between the test and the jump over the parent's code.
InChild(c, k) ==
    \E a \in DOMAIN c : c[a].op = "ifchild" /\ a < k /\ k <= a + c[a].skip

\* The operands of an instruction.
Operands(i) ==
    /\ i.op = "priority" => i.arg \in ProgramPriorities
    /\ i.op = "exec" => i.arg \in {"worker", "forever"}
    /\ i.op \in {"store", "zero", "inc", "load", "ifchild", "less", "until"} => i.var \in Locals
    /\ i.op \in {"jump", "ifchild"} => i.skip \in Nat
    /\ i.op = "less" => i.back \in Nat

\* What stands before an instruction that depends on it.
Follows(c, k) ==
    /\ c[k].op \in Dependent => k > 1
    /\ c[k].op = "get" => c[k - 1].op = "fork"
    /\ c[k].op = "store" => c[k - 1].op = "get"
    /\ c[k].op = "ifchild" => c[k - 1].op = "store" /\ c[k - 1].var = c[k].var
    /\ c[k].op = "load" => c[k - 1].op = "jump" /\ c[k - 1].skip > 0
    /\ c[k].op = "wait" => c[k - 1].op = "load"
    /\ c[k].op = "return" => c[k - 1].op = "exit"

\* Where an instruction that jumps leads to: at most behind the end of the piece.
Leads(c, k) ==
    /\ c[k].op = "ifchild" =>
          LET t == k + 1 + c[k].skip
          IN  /\ c[k].skip > 0 /\ k + c[k].skip <= Len(c) /\ ~InChild(c, t)
              /\ t <= Len(c) => \/ c[t].op \notin Dependent
                                \/ c[t].op = "load" /\ c[t].var = c[k].var
    /\ c[k].op = "jump" =>
          LET t == k + 1 + c[k].skip
          IN  /\ InChild(c, k) /\ t <= Len(c) + 1
              /\ t <= Len(c) => c[t].op \notin Dependent
    /\ c[k].op = "less" =>
          LET t == k - c[k].back
          IN  t \in 1 .. k /\ c[t].op \notin Dependent /\ ~InChild(c, t)

Piece(c) ==
    /\ c \in Seq(Instructions)
    /\ \A k \in DOMAIN c : Operands(c[k]) /\ Follows(c, k) /\ Leads(c, k)

\* Only children exit or become another program.
Loyal(c) == \A k \in DOMAIN c : c[k].op \in {"exit", "exec"} => InChild(c, k)

\* A program ends where its process stays, and no jump leads further.
Program(c) ==
    /\ Piece(c) /\ c # <<>> /\ c[Len(c)].op \in {"spin", "return"}
    /\ \A k \in DOMAIN c : c[k].op \in {"jump", "ifchild"} => k + 1 + c[k].skip <= Len(c)

-----------------------------------------------------------------------------
(* Code is composed of pieces.                                              *)

LEMMA Instruction ==
    /\ \A name \in Ops : [op |-> name] \in Instructions
    /\ \A name \in Ops, x \in Locals : [op |-> name, var |-> x] \in Instructions
    /\ \A name \in Ops, v \in Arguments : [op |-> name, arg |-> v] \in Instructions
    /\ \A name \in Ops, n \in Nat : [op |-> name, skip |-> n] \in Instructions
    /\ \A name \in Ops, x \in Locals, n \in Nat :
          [op |-> name, var |-> x, skip |-> n] \in Instructions
    /\ \A name \in Ops, x \in Locals, n \in Nat :
          [op |-> name, var |-> x, back |-> n] \in Instructions
    /\ \A name \in Ops, x \in Locals, v \in Arguments :
          [op |-> name, var |-> x, arg |-> v] \in Instructions
BY DEF Instructions

LEMMA ConcatIs ==
    ASSUME NEW a \in Seq(Instructions), NEW b \in Seq(Instructions)
    PROVE  /\ a \o b \in Seq(Instructions)
           /\ Len(a) \in Nat /\ Len(b) \in Nat /\ Len(a \o b) = Len(a) + Len(b)
           /\ DOMAIN a = 1 .. Len(a) /\ DOMAIN b = 1 .. Len(b)
           /\ DOMAIN (a \o b) = 1 .. Len(a) + Len(b)
           /\ \A k \in 1 .. Len(a) : (a \o b)[k] = a[k]
           /\ \A k \in Len(a) + 1 .. Len(a) + Len(b) : (a \o b)[k] = b[k - Len(a)]
OBVIOUS

LEMMA ChildEnds ==
    ASSUME NEW c, Piece(c), NEW k \in DOMAIN c, c[k].op = "ifchild"
    PROVE  c[k].skip \in Nat /\ k + c[k].skip <= Len(c)
BY DEF Piece, Operands, Leads

LEMMA InChildLeft ==
    ASSUME NEW a, Piece(a), NEW b \in Seq(Instructions), NEW k \in 1 .. Len(a) + 1
    PROVE  InChild(a \o b, k) <=> InChild(a, k)
<1>1. a \in Seq(Instructions)
  BY DEF Piece
<1> DEFINE c == a \o b
<1>2. /\ Len(a) \in Nat /\ Len(b) \in Nat /\ DOMAIN a = 1 .. Len(a)
      /\ DOMAIN c = 1 .. Len(a) + Len(b) /\ \A j \in 1 .. Len(a) : c[j] = a[j]
  BY <1>1, ConcatIs
<1> HIDE DEF c
<1> QED BY <1>2 DEF InChild, c

LEMMA InChildRight ==
    ASSUME NEW a, Piece(a), NEW b, Piece(b), NEW k \in 1 .. Len(b) + 1
    PROVE  InChild(a \o b, Len(a) + k) <=> InChild(b, k)
<1>1. a \in Seq(Instructions) /\ b \in Seq(Instructions)
  BY DEF Piece
<1> DEFINE c == a \o b
<1>2. /\ Len(a) \in Nat /\ Len(b) \in Nat /\ DOMAIN a = 1 .. Len(a) /\ DOMAIN b = 1 .. Len(b)
      /\ DOMAIN c = 1 .. Len(a) + Len(b) /\ \A j \in 1 .. Len(a) : c[j] = a[j]
      /\ \A j \in Len(a) + 1 .. Len(a) + Len(b) : c[j] = b[j - Len(a)]
  BY <1>1, ConcatIs
<1> HIDE DEF c
<1>3. ASSUME InChild(c, Len(a) + k) PROVE InChild(b, k)
  <2>1. PICK j \in DOMAIN c : c[j].op = "ifchild" /\ j < Len(a) + k /\ Len(a) + k <= j + c[j].skip
    BY <1>3 DEF InChild
  <2>2. j > Len(a)
    <3> SUFFICES ASSUME j <= Len(a) PROVE FALSE
      BY <1>2
    <3>1. j \in DOMAIN a /\ c[j] = a[j]
      BY <1>2
    <3>2. a[j].skip \in Nat /\ j + a[j].skip <= Len(a)
      BY <2>1, <3>1, ChildEnds
    <3> QED BY <1>2, <2>1, <3>1, <3>2
  <2>3. j - Len(a) \in DOMAIN b /\ c[j] = b[j - Len(a)]
    BY <1>2, <2>2
  <2>4. b[j - Len(a)].skip \in Nat
    BY <2>1, <2>3, ChildEnds
  <2> QED BY <1>2, <2>1, <2>3, <2>4 DEF InChild
<1>4. ASSUME InChild(b, k) PROVE InChild(c, Len(a) + k)
  <2>1. PICK j \in DOMAIN b : b[j].op = "ifchild" /\ j < k /\ k <= j + b[j].skip
    BY <1>4 DEF InChild
  <2>2. Len(a) + j \in DOMAIN c /\ c[Len(a) + j] = b[j]
    BY <1>2
  <2>3. b[j].skip \in Nat
    BY <2>1, ChildEnds
  <2>4. Len(a) + j < Len(a) + k /\ Len(a) + k <= (Len(a) + j) + b[j].skip
    BY <1>2, <2>1, <2>3
  <2> QED BY <2>1, <2>2, <2>4 DEF InChild
<1> QED BY <1>3, <1>4 DEF c

\* Code behind a piece changes nothing in it.
LEMMA PieceLeft ==
    ASSUME NEW a, Piece(a), NEW b \in Seq(Instructions), b # <<>> => b[1].op \notin Dependent,
           NEW k \in DOMAIN a
    PROVE  Operands((a \o b)[k]) /\ Follows(a \o b, k) /\ Leads(a \o b, k)
<1>1. a \in Seq(Instructions)
  BY DEF Piece
<1> DEFINE c == a \o b
<1>2. /\ Len(a) \in Nat /\ Len(b) \in Nat /\ DOMAIN a = 1 .. Len(a) /\ DOMAIN b = 1 .. Len(b)
      /\ DOMAIN c = 1 .. Len(a) + Len(b) /\ \A j \in 1 .. Len(a) : c[j] = a[j]
      /\ \A j \in Len(a) + 1 .. Len(a) + Len(b) : c[j] = b[j - Len(a)]
      /\ c \in Seq(Instructions) /\ Len(c) = Len(a) + Len(b)
  BY <1>1, ConcatIs
<1>3. \A j \in 1 .. Len(a) + 1 : InChild(c, j) <=> InChild(a, j)
  BY InChildLeft
<1> HIDE DEF c
<1>4. Len(b) > 0 => c[Len(a) + 1].op \notin Dependent
  <2> SUFFICES ASSUME Len(b) > 0 PROVE c[Len(a) + 1].op \notin Dependent
    OBVIOUS
  <2>1. b # <<>> /\ c[Len(a) + 1] = b[1]
    BY <1>2
  <2> QED BY <2>1
<1>5. Operands(c[k]) /\ Follows(c, k) /\ Leads(c, k)
  <2>1. Operands(a[k]) /\ Follows(a, k) /\ Leads(a, k) /\ c[k] = a[k] /\ k \in 1 .. Len(a)
    BY <1>2 DEF Piece
  <2>2. Follows(c, k)
    <3>1. k > 1 => c[k - 1] = a[k - 1]
      BY <1>2, <2>1
    <3> QED BY <2>1, <3>1 DEF Follows, Dependent
  <2>3. Leads(c, k)
    <3>1. CASE c[k].op = "ifchild"
      <4> DEFINE t == k + 1 + c[k].skip
      <4>1. /\ c[k].skip \in Nat /\ c[k].skip > 0 /\ k + c[k].skip <= Len(a)
            /\ ~InChild(a, t)
            /\ t <= Len(a) => a[t].op \notin Dependent \/ (a[t].op = "load" /\ a[t].var = a[k].var)
        BY <2>1, <3>1 DEF Leads, Operands
      <4>2. t \in 1 .. Len(a) + 1 /\ (t <= Len(a) => c[t] = a[t]) /\ k + c[k].skip <= Len(c)
        BY <1>2, <2>1, <4>1
      <4>3. ~InChild(c, t)
        BY <1>3, <4>1, <4>2
      <4>4. t <= Len(c) => c[t].op \notin Dependent \/ (c[t].op = "load" /\ c[t].var = c[k].var)
        <5>1. CASE t <= Len(a)
          BY <2>1, <4>1, <4>2, <5>1
        <5>2. CASE t = Len(a) + 1
          BY <1>2, <1>4, <5>2
        <5> QED BY <1>2, <4>2, <5>1, <5>2
      <4> QED BY <3>1, <4>1, <4>2, <4>3, <4>4 DEF Leads
    <3>2. CASE c[k].op = "jump"
      <4> DEFINE t == k + 1 + c[k].skip
      <4>1. /\ c[k].skip \in Nat /\ InChild(a, k) /\ t <= Len(a) + 1
            /\ t <= Len(a) => a[t].op \notin Dependent
        BY <2>1, <3>2 DEF Leads, Operands
      <4>2. t \in 1 .. Len(a) + 1 /\ (t <= Len(a) => c[t] = a[t]) /\ t <= Len(c) + 1
        BY <1>2, <2>1, <4>1
      <4>3. InChild(c, k)
        BY <1>2, <1>3, <2>1, <4>1
      <4>4. t <= Len(c) => c[t].op \notin Dependent
        <5>1. CASE t <= Len(a)
          BY <4>1, <4>2, <5>1
        <5>2. CASE t = Len(a) + 1
          BY <1>2, <1>4, <5>2
        <5> QED BY <1>2, <4>2, <5>1, <5>2
      <4> QED BY <3>2, <4>2, <4>3, <4>4 DEF Leads
    <3>3. CASE c[k].op = "less"
      <4> DEFINE t == k - c[k].back
      <4>1. t \in 1 .. k /\ a[t].op \notin Dependent /\ ~InChild(a, t)
        BY <2>1, <3>3 DEF Leads
      <4>2. t \in 1 .. Len(a) /\ c[t] = a[t]
        BY <1>2, <2>1, <4>1
      <4>3. ~InChild(c, t)
        BY <1>2, <1>3, <4>1, <4>2
      <4> QED BY <3>3, <4>1, <4>2, <4>3 DEF Leads
    <3> QED BY <3>1, <3>2, <3>3 DEF Leads
  <2> QED BY <2>1, <2>2, <2>3
<1> QED BY <1>5 DEF c

\* One piece of code behind the other is a piece of code.
LEMMA PieceConcat ==
    ASSUME NEW a, Piece(a), NEW b, Piece(b)
    PROVE  Piece(a \o b)
<1>1. a \in Seq(Instructions) /\ b \in Seq(Instructions)
  BY DEF Piece
<1> DEFINE c == a \o b
<1>2. /\ Len(a) \in Nat /\ Len(b) \in Nat /\ DOMAIN a = 1 .. Len(a) /\ DOMAIN b = 1 .. Len(b)
      /\ DOMAIN c = 1 .. Len(a) + Len(b) /\ \A j \in 1 .. Len(a) : c[j] = a[j]
      /\ \A j \in Len(a) + 1 .. Len(a) + Len(b) : c[j] = b[j - Len(a)]
      /\ c \in Seq(Instructions) /\ Len(c) = Len(a) + Len(b)
  BY <1>1, ConcatIs
<1>4. \A k \in 1 .. Len(b) + 1 : InChild(c, Len(a) + k) <=> InChild(b, k)
  BY InChildRight
<1>5. b # <<>> => b[1].op \notin Dependent
  <2> SUFFICES ASSUME b # <<>> PROVE b[1].op \notin Dependent
    OBVIOUS
  <2>1. 1 \in DOMAIN b
    BY <1>1
  <2> QED BY <2>1 DEF Piece, Follows
<1>6. \A k \in DOMAIN a : Operands(c[k]) /\ Follows(c, k) /\ Leads(c, k)
  BY <1>1, <1>5, PieceLeft
<1> HIDE DEF c
<1>7. ASSUME NEW k \in DOMAIN b
      PROVE  LET m == Len(a) + k IN Operands(c[m]) /\ Follows(c, m) /\ Leads(c, m)
  <2> DEFINE m == Len(a) + k
  <2>1. /\ Operands(b[k]) /\ Follows(b, k) /\ Leads(b, k) /\ c[m] = b[k]
        /\ k \in 1 .. Len(b) /\ m \in DOMAIN c
    BY <1>2, <1>7 DEF Piece
  <2>2. Follows(c, m)
    <3>1. k > 1 => c[m - 1] = b[k - 1] /\ m > 1
      BY <1>2, <2>1
    <3> HIDE DEF m
    <3> QED BY <2>1, <3>1 DEF Follows, Dependent
  <2>3. Leads(c, m)
    <3>1. CASE b[k].op = "ifchild"
      <4> DEFINE t == k + 1 + b[k].skip
      <4>1. /\ b[k].skip \in Nat /\ b[k].skip > 0 /\ k + b[k].skip <= Len(b)
            /\ ~InChild(b, t)
            /\ t <= Len(b) => b[t].op \notin Dependent \/ (b[t].op = "load" /\ b[t].var = b[k].var)
        BY <2>1, <3>1 DEF Leads, Operands
      <4>2. /\ t \in 1 .. Len(b) + 1 /\ (t <= Len(b) => c[Len(a) + t] = b[t])
            /\ m + c[m].skip <= Len(c) /\ m + 1 + c[m].skip = Len(a) + t
            /\ (Len(a) + t <= Len(c) => t <= Len(b))
        <5>1. t \in 1 .. Len(b) + 1
          BY <1>2, <2>1, <4>1
        <5>2. m + 1 + c[m].skip = Len(a) + t /\ m + c[m].skip <= Len(c)
          <6> DEFINE s == b[k].skip
          <6>1. c[m].skip = s /\ s \in Nat /\ k + s <= Len(b)
            BY <2>1, <4>1
          <6>2. Len(a) \in Nat /\ k \in Nat /\ Len(b) \in Nat /\ Len(c) = Len(a) + Len(b)
            BY <1>2
          <6> HIDE DEF s
          <6>3. (Len(a) + k) + 1 + s = Len(a) + (k + 1 + s) /\ (Len(a) + k) + s <= Len(c)
            BY <6>1, <6>2
          <6> QED BY <6>1, <6>3 DEF s
        <5> HIDE DEF t, m
        <5>3. t <= Len(b) => c[Len(a) + t] = b[t]
          BY <1>2, <5>1
        <5> QED BY <1>2, <5>1, <5>2, <5>3
      <4>5. m \in Nat /\ Len(a) + t \in Nat
        BY <1>2, <2>1, <4>1
      <4>3. ~InChild(c, Len(a) + t)
        BY <1>4, <4>1, <4>2
      <4>4. c[m] = b[k]
        BY <2>1
      <4> HIDE DEF m, t
      <4> QED BY <3>1, <4>1, <4>2, <4>3, <4>4, <4>5 DEF Leads
    <3>2. CASE b[k].op = "jump"
      <4> DEFINE t == k + 1 + b[k].skip
      <4>1. /\ b[k].skip \in Nat /\ InChild(b, k) /\ t <= Len(b) + 1
            /\ t <= Len(b) => b[t].op \notin Dependent
        BY <2>1, <3>2 DEF Leads, Operands
      <4>2. /\ t \in 1 .. Len(b) + 1 /\ (t <= Len(b) => c[Len(a) + t] = b[t])
            /\ m + 1 + c[m].skip = Len(a) + t /\ Len(a) + t <= Len(c) + 1
            /\ (Len(a) + t <= Len(c) => t <= Len(b))
        <5>1. t \in 1 .. Len(b) + 1
          BY <1>2, <2>1, <4>1
        <5>2. m + 1 + c[m].skip = Len(a) + t
          <6> DEFINE s == b[k].skip
          <6>1. c[m].skip = s /\ s \in Nat
            BY <2>1, <4>1
          <6>2. Len(a) \in Nat /\ k \in Nat
            BY <1>2
          <6> HIDE DEF s
          <6>3. (Len(a) + k) + 1 + s = Len(a) + (k + 1 + s)
            BY <6>1, <6>2
          <6> QED BY <6>1, <6>3 DEF s
        <5> HIDE DEF t, m
        <5>3. t <= Len(b) => c[Len(a) + t] = b[t]
          BY <1>2, <5>1
        <5> QED BY <1>2, <5>1, <5>2, <5>3
      <4>5. m \in Nat /\ Len(a) + t \in Nat
        BY <1>2, <2>1, <4>1
      <4>3. InChild(c, m)
        BY <1>2, <1>4, <2>1, <4>1
      <4>4. c[m] = b[k]
        BY <2>1
      <4> HIDE DEF m, t
      <4> QED BY <3>2, <4>1, <4>2, <4>3, <4>4, <4>5 DEF Leads
    <3>3. CASE b[k].op = "less"
      <4> DEFINE t == k - b[k].back
      <4>1. t \in 1 .. k /\ b[t].op \notin Dependent /\ ~InChild(b, t) /\ b[k].back \in Nat
        BY <2>1, <3>3 DEF Leads, Operands
      <4>2. /\ c[Len(a) + t] = b[t] /\ m - c[m].back = Len(a) + t /\ Len(a) + t \in 1 .. m
            /\ t \in 1 .. Len(b) + 1 /\ m \in Nat
        <5> DEFINE s == b[k].back
        <5>1. c[m].back = s /\ s \in Nat
          BY <2>1, <4>1
        <5>2. Len(a) \in Nat /\ k \in Nat /\ k <= Len(b) /\ Len(b) \in Nat /\ k - s \in 1 .. k
          BY <1>2, <4>1
        <5> HIDE DEF s
        <5>3. /\ (Len(a) + k) - s = Len(a) + (k - s) /\ Len(a) + (k - s) \in 1 .. Len(a) + k
              /\ k - s \in 1 .. Len(b) /\ Len(a) + k \in Nat
          BY <5>1, <5>2
        <5>4. t \in 1 .. Len(b)
          BY <5>3 DEF s
        <5>5. c[Len(a) + t] = b[t]
          <6> HIDE DEF t
          <6> QED BY <1>2, <5>4
        <5> QED BY <5>1, <5>3, <5>4, <5>5 DEF s
      <4>3. ~InChild(c, Len(a) + t)
        BY <1>4, <4>1, <4>2
      <4>4. c[m] = b[k]
        BY <2>1
      <4> HIDE DEF m, t
      <4> QED BY <3>3, <4>1, <4>2, <4>3, <4>4 DEF Leads
    <3> HIDE DEF m
    <3> QED BY <2>1, <3>1, <3>2, <3>3 DEF Leads
  <2> QED BY <2>1, <2>2, <2>3
<1>8. ASSUME NEW k \in DOMAIN c PROVE Operands(c[k]) /\ Follows(c, k) /\ Leads(c, k)
  <2>1. CASE k \in DOMAIN a
    BY <1>6, <2>1
  <2>2. CASE k \notin DOMAIN a
    <3>1. k - Len(a) \in DOMAIN b /\ Len(a) + (k - Len(a)) = k
      BY <1>2, <2>2
    <3> QED BY <1>7, <3>1
  <2> QED BY <2>1, <2>2
<1>9. Piece(c)
  BY <1>2, <1>8 DEF Piece
<1> QED BY <1>9 DEF c

LEMMA LoyalConcat ==
    ASSUME NEW a, Piece(a), Loyal(a), NEW b, Piece(b), Loyal(b)
    PROVE  Loyal(a \o b)
<1>1. a \in Seq(Instructions) /\ b \in Seq(Instructions)
  BY DEF Piece
<1> DEFINE c == a \o b
<1>2. /\ Len(a) \in Nat /\ Len(b) \in Nat /\ DOMAIN a = 1 .. Len(a) /\ DOMAIN b = 1 .. Len(b)
      /\ DOMAIN c = 1 .. Len(a) + Len(b) /\ \A j \in 1 .. Len(a) : c[j] = a[j]
      /\ \A j \in Len(a) + 1 .. Len(a) + Len(b) : c[j] = b[j - Len(a)]
  BY <1>1, ConcatIs
<1>3. \A k \in 1 .. Len(a) + 1 : InChild(c, k) <=> InChild(a, k)
  BY <1>1, InChildLeft
<1>4. \A k \in 1 .. Len(b) + 1 : InChild(c, Len(a) + k) <=> InChild(b, k)
  BY InChildRight
<1> HIDE DEF c
<1>5. ASSUME NEW k \in DOMAIN c, c[k].op \in {"exit", "exec"} PROVE InChild(c, k)
  <2>1. CASE k \in DOMAIN a
    BY <1>2, <1>3, <1>5, <2>1 DEF Loyal
  <2>2. CASE k \notin DOMAIN a
    <3> DEFINE j == k - Len(a)
    <3>1. j \in DOMAIN b /\ Len(a) + j = k /\ c[k] = b[j] /\ j \in 1 .. Len(b) + 1
      BY <1>2, <2>2
    <3> HIDE DEF j
    <3> QED BY <1>4, <1>5, <3>1 DEF Loyal
  <2> QED BY <2>1, <2>2
<1> QED BY <1>5 DEF c, Loyal

\* Code without jumps and without anything that depends on what stands before it.
Plain(c) ==
    /\ c \in Seq(Instructions)
    /\ \A k \in DOMAIN c :
          Operands(c[k]) /\ c[k].op \notin Dependent \cup {"jump", "less"}

LEMMA PlainPiece == ASSUME NEW c, Plain(c) PROVE Piece(c)
BY DEF Plain, Piece, Follows, Leads, Dependent

LEMMA PlainConcat ==
    ASSUME NEW a, Plain(a), NEW b, Plain(b)
    PROVE  Plain(a \o b)
<1>1. a \in Seq(Instructions) /\ b \in Seq(Instructions)
  BY DEF Plain
<1> DEFINE c == a \o b
<1>2. /\ Len(a) \in Nat /\ Len(b) \in Nat /\ DOMAIN a = 1 .. Len(a) /\ DOMAIN b = 1 .. Len(b)
      /\ DOMAIN c = 1 .. Len(a) + Len(b) /\ \A j \in 1 .. Len(a) : c[j] = a[j]
      /\ \A j \in Len(a) + 1 .. Len(a) + Len(b) : c[j] = b[j - Len(a)]
      /\ c \in Seq(Instructions)
  BY <1>1, ConcatIs
<1> HIDE DEF c
<1>3. ASSUME NEW k \in DOMAIN c
      PROVE  Operands(c[k]) /\ c[k].op \notin Dependent \cup {"jump", "less"}
  <2>1. (k \in DOMAIN a /\ c[k] = a[k]) \/ (k - Len(a) \in DOMAIN b /\ c[k] = b[k - Len(a)])
    BY <1>2
  <2> QED BY <2>1 DEF Plain
<1> QED BY <1>2, <1>3 DEF Plain, c

LEMMA PlainOne ==
    ASSUME NEW s \in Instructions, Operands(s), s.op \notin Dependent \cup {"jump", "less"}
    PROVE  Plain(<<s>>)
BY DEF Plain

LEMMA PlainOps ==
    /\ \A name \in {"fork", "exit", "spin", "aging", "warmup"} : Plain(Op(name))
    /\ \A name \in {"zero", "inc"}, x \in Locals : Plain(On(name, x))
    /\ \A v \in ProgramPriorities : Plain(With("priority", v))
    /\ \A f \in {"worker", "forever"} : Plain(With("exec", f))
    /\ Plain(<<[op |-> "until", var |-> "initializedProcesses", arg |-> 4]>>)
    /\ Plain(<<>>)
<1>1. ASSUME NEW name \in {"fork", "exit", "spin", "aging", "warmup"} PROVE Plain(Op(name))
  <2> DEFINE s == [op |-> name]
  <2>1. s \in Instructions
    <3>1. name \in Ops
      BY DEF Ops
    <3> QED BY <3>1, Instruction
  <2>2. Operands(s) /\ s.op \notin Dependent \cup {"jump", "less"}
    BY DEF Operands, Dependent
  <2> HIDE DEF s
  <2> QED BY <2>1, <2>2, PlainOne DEF s, Op
<1>2. ASSUME NEW name \in {"zero", "inc"}, NEW x \in Locals PROVE Plain(On(name, x))
  <2> DEFINE s == [op |-> name, var |-> x]
  <2>1. s \in Instructions
    <3>1. name \in Ops
      BY DEF Ops
    <3> QED BY <3>1, Instruction
  <2>2. Operands(s) /\ s.op \notin Dependent \cup {"jump", "less"}
    BY DEF Operands, Dependent
  <2> HIDE DEF s
  <2> QED BY <2>1, <2>2, PlainOne DEF s, On
<1>3. ASSUME NEW v \in ProgramPriorities PROVE Plain(With("priority", v))
  <2> DEFINE s == [op |-> "priority", arg |-> v]
  <2>1. s \in Instructions
    BY Instruction DEF Ops, Arguments
  <2>2. Operands(s) /\ s.op \notin Dependent \cup {"jump", "less"}
    BY DEF Operands, Dependent
  <2> HIDE DEF s
  <2> QED BY <2>1, <2>2, PlainOne DEF s, With
<1>4. ASSUME NEW f \in {"worker", "forever"} PROVE Plain(With("exec", f))
  <2> DEFINE s == [op |-> "exec", arg |-> f]
  <2>1. s \in Instructions
    BY Instruction DEF Ops, Arguments
  <2>2. Operands(s) /\ s.op \notin Dependent \cup {"jump", "less"}
    BY DEF Operands, Dependent
  <2> HIDE DEF s
  <2> QED BY <2>1, <2>2, PlainOne DEF s, With
<1>5. Plain(<<[op |-> "until", var |-> "initializedProcesses", arg |-> 4]>>)
  <2> DEFINE s == [op |-> "until", var |-> "initializedProcesses", arg |-> 4]
  <2>1. s \in Instructions
    BY Instruction DEF Ops, Arguments, Locals, ProgramPriorities
  <2>2. Operands(s) /\ s.op \notin Dependent \cup {"jump", "less"}
    BY DEF Operands, Dependent, Locals
  <2> HIDE DEF s
  <2> QED BY <2>1, <2>2, PlainOne DEF s
<1>6. Plain(<<>>)
  BY DEF Plain
<1> QED BY <1>1, <1>2, <1>3, <1>4, <1>5, <1>6

\* sysfork, its result into x, and the test of x.
Block(x, child, parent) == ForkTo(x) \o IfChild(x, child, parent)

LEMMA BlockIs ==
    ASSUME NEW x \in Locals, NEW child \in Seq(Instructions), NEW parent \in Seq(Instructions)
    PROVE  LET c == Block(x, child, parent)
               n == Len(child)
               m == Len(parent)
           IN  /\ c \in Seq(Instructions) /\ n \in Nat /\ m \in Nat
               /\ Len(c) = n + m + 5 /\ DOMAIN c = 1 .. n + m + 5
               /\ c[1] = [op |-> "fork"] /\ c[2] = [op |-> "get"]
               /\ c[3] = [op |-> "store", var |-> x]
               /\ c[4] = [op |-> "ifchild", var |-> x, skip |-> n + 1]
               /\ \A k \in 1 .. n : c[k + 4] = child[k]
               /\ c[n + 5] = [op |-> "jump", skip |-> m]
               /\ \A k \in 1 .. m : c[n + 5 + k] = parent[k]
<1> DEFINE n == Len(child)
           m == Len(parent)
           s1 == [op |-> "fork"]
           s2 == [op |-> "get"]
           s3 == [op |-> "store", var |-> x]
           test == [op |-> "ifchild", var |-> x, skip |-> n + 1]
           jump == [op |-> "jump", skip |-> m]
           start == ForkTo(x)
           a == <<test>> \o child
           b == a \o <<jump>>
           d == b \o parent
           c == start \o d
<1>1. n \in Nat /\ m \in Nat
  OBVIOUS
<1>2. s1 \in Instructions /\ s2 \in Instructions /\ s3 \in Instructions
      /\ test \in Instructions /\ jump \in Instructions
  <2>1. "fork" \in Ops /\ "get" \in Ops /\ "store" \in Ops /\ "ifchild" \in Ops /\ "jump" \in Ops
    BY DEF Ops
  <2>2. n + 1 \in Nat
    BY <1>1
  <2> HIDE DEF n, m
  <2>3. s1 \in Instructions /\ s2 \in Instructions /\ s3 \in Instructions
    BY <2>1, Instruction
  <2>4. test \in Instructions
    BY <2>1, <2>2, Instruction
  <2>5. jump \in Instructions
    BY <1>1, <2>1, Instruction
  <2> QED BY <2>3, <2>4, <2>5
<1>3. start = <<s1>> \o (<<s2>> \o <<s3>>)
  BY DEF ForkTo, Assign, Op, On
<1>4. Block(x, child, parent) = c
  BY DEF Block, IfChild
<1> HIDE DEF s1, s2, s3, test, jump, n, m
<1>5. start \in Seq(Instructions) /\ Len(start) = 3 /\ start[1] = s1 /\ start[2] = s2
      /\ start[3] = s3
  <2> DEFINE u == <<s1>>
             e == <<s2>> \o <<s3>>
  <2>1. /\ u \in Seq(Instructions) /\ Len(u) = 1 /\ u[1] = s1
        /\ <<s2>> \in Seq(Instructions) /\ Len(<<s2>>) = 1 /\ <<s2>>[1] = s2
        /\ <<s3>> \in Seq(Instructions) /\ Len(<<s3>>) = 1 /\ <<s3>>[1] = s3
    BY <1>2
  <2>2. e \in Seq(Instructions) /\ Len(e) = 2 /\ e[1] = s2 /\ e[2] = s3
    BY <2>1, ConcatIs
  <2>3. start = u \o e
    BY <1>3
  <2> HIDE DEF e, u, start
  <2>4. /\ u \o e \in Seq(Instructions) /\ Len(u \o e) = Len(u) + Len(e)
        /\ \A k \in 1 .. Len(u) : (u \o e)[k] = u[k]
        /\ \A k \in Len(u) + 1 .. Len(u) + Len(e) : (u \o e)[k] = e[k - Len(u)]
    BY <2>1, <2>2, ConcatIs
  <2>5. start[1] = s1
    BY <2>1, <2>3, <2>4
  <2>6. start[2] = s2 /\ start[3] = s3
    BY <2>1, <2>2, <2>3, <2>4
  <2> QED BY <2>1, <2>2, <2>3, <2>4, <2>5, <2>6
<1> HIDE DEF start
<1>6. /\ a \in Seq(Instructions) /\ Len(a) = n + 1 /\ a[1] = test
      /\ \A k \in 1 .. n : a[k + 1] = child[k]
  <2>1. <<test>> \in Seq(Instructions) /\ Len(<<test>>) = 1 /\ <<test>>[1] = test
    BY <1>2
  <2> QED BY <1>1, <2>1, ConcatIs DEF n
<1> HIDE DEF a
<1>7. /\ b \in Seq(Instructions) /\ Len(b) = n + 2 /\ b[1] = test
      /\ \A k \in 1 .. n : b[k + 1] = child[k]
      /\ b[n + 2] = jump
  <2>1. <<jump>> \in Seq(Instructions) /\ Len(<<jump>>) = 1 /\ <<jump>>[1] = jump
    BY <1>2
  <2>2. /\ b \in Seq(Instructions) /\ Len(b) = Len(a) + 1 
        /\ \A k \in 1 .. Len(a) : b[k] = a[k]
        /\ \A k \in Len(a) + 1 .. Len(a) + 1 : b[k] = <<jump>>[k - Len(a)]
    BY <1>6, <2>1, ConcatIs
  <2> HIDE DEF b
  <2>3. \A k \in 1 .. n : k + 1 \in 1 .. Len(a) /\ b[k + 1] = child[k]
    BY <1>1, <1>6, <2>2
  <2>4. b[n + 2] = jump
    BY <1>1, <1>6, <2>1, <2>2
  <2> QED BY <1>1, <1>6, <2>2, <2>3, <2>4
<1> HIDE DEF b
<1>8. /\ d \in Seq(Instructions) /\ Len(d) = n + m + 2 /\ d[1] = test
      /\ \A k \in 1 .. n : d[k + 1] = child[k]
      /\ d[n + 2] = jump
      /\ \A k \in 1 .. m : d[n + 2 + k] = parent[k]
  <2>1. /\ d \in Seq(Instructions) /\ Len(d) = Len(b) + m
        /\ \A k \in 1 .. Len(b) : d[k] = b[k]
        /\ \A k \in Len(b) + 1 .. Len(b) + m : d[k] = parent[k - Len(b)]
    BY <1>7, ConcatIs DEF m
  <2> HIDE DEF d
  <2>2. \A k \in 1 .. n : k + 1 \in 1 .. Len(b) /\ d[k + 1] = child[k]
    BY <1>1, <1>7, <2>1
  <2>3. \A k \in 1 .. m : d[n + 2 + k] = parent[k]
    BY <1>1, <1>7, <2>1
  <2>4. d[n + 2] = jump /\ d[1] = test /\ Len(d) = n + m + 2
    BY <1>1, <1>7, <2>1
  <2> QED BY <2>1, <2>2, <2>3, <2>4
<1> HIDE DEF d
<1>9. /\ c \in Seq(Instructions) /\ Len(c) = Len(d) + 3 /\ DOMAIN c = 1 .. Len(c)
      /\ \A k \in 1 .. 3 : c[k] = start[k]
      /\ \A k \in 4 .. 3 + Len(d) : c[k] = d[k - 3]
  <2>1. /\ c \in Seq(Instructions) /\ Len(c) = Len(start) + Len(d)
        /\ DOMAIN c = 1 .. Len(start) + Len(d)
        /\ \A k \in 1 .. Len(start) : c[k] = start[k]
        /\ \A k \in Len(start) + 1 .. Len(start) + Len(d) : c[k] = d[k - Len(start)]
    BY <1>5, <1>8, ConcatIs
  <2> HIDE DEF c
  <2> QED BY <1>1, <1>5, <1>8, <2>1
<1> HIDE DEF c
<1>10. /\ c \in Seq(Instructions) /\ Len(c) = n + m + 5 /\ DOMAIN c = 1 .. n + m + 5
       /\ c[1] = s1 /\ c[2] = s2 /\ c[3] = s3
  BY <1>1, <1>5, <1>8, <1>9
<1>11. c[4] = test /\ c[n + 5] = jump
  <2>1. 4 \in 4 .. 3 + Len(d) /\ n + 5 \in 4 .. 3 + Len(d) /\ 4 - 3 = 1 /\ (n + 5) - 3 = n + 2
    BY <1>1, <1>8
  <2> QED BY <1>8, <1>9, <2>1
<1>12. \A k \in 1 .. n : c[k + 4] = child[k]
  <2> SUFFICES ASSUME NEW k \in 1 .. n PROVE c[k + 4] = child[k]
    OBVIOUS
  <2>1. k + 4 \in 4 .. 3 + Len(d) /\ (k + 4) - 3 = k + 1
    BY <1>1, <1>8
  <2> QED BY <1>8, <1>9, <2>1
<1>13. \A k \in 1 .. m : c[n + 5 + k] = parent[k]
  <2> SUFFICES ASSUME NEW k \in 1 .. m PROVE c[n + 5 + k] = parent[k]
    OBVIOUS
  <2>1. n + 5 + k \in 4 .. 3 + Len(d) /\ (n + 5 + k) - 3 = n + 2 + k
    BY <1>1, <1>8
  <2> QED BY <1>8, <1>9, <2>1
<1> QED
  BY <1>1, <1>4, <1>10, <1>11, <1>12, <1>13 DEF s1, s2, s3, test, jump, n, m

\* What stands in the parent's branch: plain code, or waitpid for the child.
Answer(c, x) ==
    /\ c \in Seq(Instructions)
    /\ \A k \in DOMAIN c :
          /\ Operands(c[k])
          /\ c[k].op \notin {"get", "store", "ifchild", "return", "jump", "less"}
          /\ c[k].op = "load" => k = 1 /\ c[k].var = x
          /\ c[k].op = "wait" => k > 1 /\ c[k - 1].op = "load"

LEMMA PlainAnswer == ASSUME NEW c, Plain(c), NEW x PROVE Answer(c, x)
BY DEF Plain, Answer, Dependent

LEMMA WaitForIs ==
    ASSUME NEW x \in Locals
    PROVE  /\ WaitFor(x) \in Seq(Instructions) /\ Len(WaitFor(x)) = 2
           /\ WaitFor(x)[1] = [op |-> "load", var |-> x] /\ WaitFor(x)[2] = [op |-> "wait"]
<1> DEFINE s1 == [op |-> "load", var |-> x]
           s2 == [op |-> "wait"]
<1>1. s1 \in Instructions /\ s2 \in Instructions
  <2>1. "load" \in Ops /\ "wait" \in Ops
    BY DEF Ops
  <2> QED BY <2>1, Instruction
<1>2. WaitFor(x) = <<s1>> \o <<s2>>
  BY DEF WaitFor, On, Op
<1> HIDE DEF s1, s2
<1>3. /\ <<s1>> \in Seq(Instructions) /\ Len(<<s1>>) = 1 /\ <<s1>>[1] = s1
      /\ <<s2>> \in Seq(Instructions) /\ Len(<<s2>>) = 1 /\ <<s2>>[1] = s2
  BY <1>1
<1>4. WaitFor(x) \in Seq(Instructions) /\ Len(WaitFor(x)) = 2
      /\ WaitFor(x)[1] = s1 /\ WaitFor(x)[2] = s2
  BY <1>2, <1>3, ConcatIs
<1> QED BY <1>4 DEF s1, s2

LEMMA WaitForAnswer == ASSUME NEW x \in Locals PROVE Answer(WaitFor(x), x)
<1> DEFINE c == WaitFor(x)
<1>1. /\ c \in Seq(Instructions) /\ Len(c) = 2
      /\ c[1] = [op |-> "load", var |-> x] /\ c[2] = [op |-> "wait"]
  BY WaitForIs
<1> HIDE DEF c
<1>2. c[1].op = "load" /\ c[1].var = x /\ c[2].op = "wait"
  BY <1>1
<1>3. DOMAIN c = {1, 2}
  BY <1>1
<1>4. Operands(c[1]) /\ Operands(c[2])
  BY <1>2 DEF Operands
<1>5. Answer(c, x)
  BY <1>1, <1>2, <1>3, <1>4 DEF Answer
<1> QED BY <1>5 DEF c

LEMMA ForkPiece ==
    ASSUME NEW x \in Locals, NEW child, Plain(child), NEW parent, Answer(parent, x)
    PROVE  /\ Piece(Block(x, child, parent)) /\ Block(x, child, parent) # <<>>
           /\ (\A k \in DOMAIN parent : parent[k].op \notin {"exit", "exec"})
                 => Loyal(Block(x, child, parent))
<1> DEFINE c == Block(x, child, parent)
           n == Len(child)
           m == Len(parent)
<1>1. /\ child \in Seq(Instructions) /\ DOMAIN child = 1 .. n
      /\ parent \in Seq(Instructions) /\ DOMAIN parent = 1 .. m
  BY DEF Plain, Answer
<1>2. /\ c \in Seq(Instructions) /\ n \in Nat /\ m \in Nat
      /\ Len(c) = n + m + 5 /\ DOMAIN c = 1 .. n + m + 5
      /\ c[1] = [op |-> "fork"] /\ c[2] = [op |-> "get"]
      /\ c[3] = [op |-> "store", var |-> x]
      /\ c[4] = [op |-> "ifchild", var |-> x, skip |-> n + 1]
      /\ \A k \in 1 .. n : c[k + 4] = child[k]
      /\ c[n + 5] = [op |-> "jump", skip |-> m]
      /\ \A k \in 1 .. m : c[n + 5 + k] = parent[k]
  BY <1>1, BlockIs
<1> HIDE DEF c, n, m
<1>3. /\ c[1].op = "fork" /\ c[2].op = "get" /\ c[3].op = "store" /\ c[3].var = x
      /\ c[4].op = "ifchild" /\ c[4].var = x /\ c[4].skip = n + 1
      /\ c[n + 5].op = "jump" /\ c[n + 5].skip = m
  BY <1>2
<1>4. ASSUME NEW k \in 5 .. n + 4
      PROVE  Operands(c[k]) /\ c[k].op \notin Dependent \cup {"jump", "less"}
  <2>1. k - 4 \in 1 .. n /\ (k - 4) + 4 = k
    BY <1>2
  <2>2. c[k] = child[k - 4]
    BY <1>2, <2>1
  <2> QED BY <1>1, <2>1, <2>2 DEF Plain
<1>5. ASSUME NEW k \in n + 6 .. n + m + 5
      PROVE  LET j == k - (n + 5)
             IN  j \in 1 .. m /\ c[k] = parent[j] /\ (j > 1 => c[k - 1] = parent[j - 1])
  <2> DEFINE j == k - (n + 5)
  <2>1. j \in 1 .. m /\ n + 5 + j = k /\ (j > 1 => j - 1 \in 1 .. m /\ n + 5 + (j - 1) = k - 1)
    BY <1>2
  <2> HIDE DEF j
  <2>2. c[k] = parent[j] /\ (j > 1 => c[k - 1] = parent[j - 1])
    BY <1>2, <2>1
  <2> QED BY <2>1, <2>2 DEF j
<1>6. ASSUME NEW k \in n + 6 .. n + m + 5
      PROVE  /\ Operands(c[k])
             /\ c[k].op \notin {"get", "store", "ifchild", "return", "jump", "less"}
             /\ c[k].op = "load" => k = n + 6 /\ c[k].var = x
             /\ c[k].op = "wait" => k > n + 6 /\ c[k - 1].op = "load"
  <2> DEFINE j == k - (n + 5)
  <2>1. j \in DOMAIN parent /\ c[k] = parent[j] /\ (j > 1 => c[k - 1] = parent[j - 1])
    BY <1>1, <1>5
  <2>2. (j = 1 => k = n + 6) /\ (j > 1 => k > n + 6)
    BY <1>2
  <2> HIDE DEF j
  <2> QED BY <2>1, <2>2 DEF Answer
<1>7. ASSUME NEW k \in DOMAIN c, c[k].op = "ifchild" PROVE k = 4
  <2>1. k \in {1, 2, 3, 4, n + 5} \/ k \in 5 .. n + 4 \/ k \in n + 6 .. n + m + 5
    BY <1>2
  <2> QED BY <1>3, <1>4, <1>6, <1>7, <2>1 DEF Dependent
<1>8. \A k \in Int : InChild(c, k) <=> 4 < k /\ k <= n + 5
  <2>1. 4 \in DOMAIN c /\ 4 + (n + 1) = n + 5
    BY <1>2
  <2> QED BY <1>2, <1>3, <1>7, <2>1 DEF InChild
<1>9. ASSUME NEW k \in DOMAIN c PROVE Operands(c[k]) /\ Follows(c, k) /\ Leads(c, k)
  <2>1. CASE k = 1
    BY <1>3, <2>1 DEF Operands, Follows, Leads, Dependent
  <2>2. CASE k = 2
    BY <1>3, <2>2 DEF Operands, Follows, Leads, Dependent
  <2>3. CASE k = 3
    BY <1>3, <2>3 DEF Operands, Follows, Leads, Dependent
  <2>4. CASE k = 4
    <3>1. Operands(c[4])
      BY <1>2, <1>3 DEF Operands
    <3>2. Follows(c, 4)
      BY <1>3 DEF Follows, Dependent
    <3>3. 4 + 1 + c[4].skip = n + 6 /\ c[4].skip > 0 /\ 4 + c[4].skip <= Len(c)
      BY <1>2, <1>3
    <3>4. ~InChild(c, n + 6)
      BY <1>2, <1>8
    <3>5. n + 6 <= Len(c) => c[n + 6].op \notin Dependent \/ (c[n + 6].op = "load" /\ c[n + 6].var = x)
      <4> SUFFICES ASSUME n + 6 <= Len(c)
                   PROVE  c[n + 6].op \notin Dependent \/ (c[n + 6].op = "load" /\ c[n + 6].var = x)
        OBVIOUS
      <4>1. n + 6 \in n + 6 .. n + m + 5
        BY <1>2
      <4>2. /\ c[n + 6].op \notin {"get", "store", "ifchild", "return", "jump", "less"}
            /\ c[n + 6].op = "load" => c[n + 6].var = x
            /\ c[n + 6].op # "wait"
        BY <1>2, <1>6, <4>1
      <4> QED BY <4>2 DEF Dependent
    <3>6. Leads(c, 4)
      BY <1>3, <3>3, <3>4, <3>5 DEF Leads
    <3> QED BY <2>4, <3>1, <3>2, <3>6
  <2>5. CASE k \in 5 .. n + 4
    BY <1>4, <2>5 DEF Follows, Leads, Dependent
  <2>6. CASE k = n + 5
    <3>1. Operands(c[k]) /\ Follows(c, k)
      BY <1>2, <1>3, <2>6 DEF Operands, Follows, Dependent
    <3>2. InChild(c, k) /\ k + 1 + c[k].skip = Len(c) + 1
      BY <1>2, <1>3, <1>8, <2>6
    <3>3. ~(Len(c) + 1 <= Len(c)) /\ Len(c) + 1 <= Len(c) + 1
      BY <1>2
    <3>4. Leads(c, k)
      BY <1>3, <2>6, <3>2, <3>3 DEF Leads
    <3> QED BY <3>1, <3>4
  <2>7. CASE k \in n + 6 .. n + m + 5
    <3>1. /\ Operands(c[k])
          /\ c[k].op \notin {"get", "store", "ifchild", "return", "jump", "less"}
          /\ c[k].op = "load" => k = n + 6
          /\ c[k].op = "wait" => c[k - 1].op = "load"
      BY <1>6, <2>7
    <3>2. k > 1
      BY <1>2, <2>7
    <3>3. c[k].op = "load" => c[k - 1].op = "jump" /\ c[k - 1].skip > 0
      <4> SUFFICES ASSUME c[k].op = "load" PROVE c[k - 1].op = "jump" /\ c[k - 1].skip > 0
        OBVIOUS
      <4>1. k - 1 = n + 5 /\ m > 0
        BY <1>2, <2>7, <3>1
      <4> QED BY <1>3, <4>1
    <3> QED BY <3>1, <3>2, <3>3 DEF Follows, Leads
  <2> QED BY <1>2, <2>1, <2>2, <2>3, <2>4, <2>5, <2>6, <2>7
<1>10. Piece(c)
  BY <1>2, <1>9 DEF Piece
<1>11. ASSUME \A k \in DOMAIN parent : parent[k].op \notin {"exit", "exec"},
              NEW k \in DOMAIN c, c[k].op \in {"exit", "exec"}
       PROVE  InChild(c, k)
  <2>1. k \in {1, 2, 3, 4, n + 5} \/ k \in 5 .. n + 4 \/ k \in n + 6 .. n + m + 5
    BY <1>2
  <2>2. CASE k \in {1, 2, 3, 4, n + 5}
    BY <1>3, <1>11, <2>2
  <2>3. CASE k \in 5 .. n + 4
    BY <1>2, <1>8, <2>3
  <2>4. CASE k \in n + 6 .. n + m + 5
    <3> DEFINE j == k - (n + 5)
    <3>1. j \in DOMAIN parent /\ c[k] = parent[j]
      BY <1>1, <1>5, <2>4
    <3> HIDE DEF j
    <3> QED BY <1>11, <3>1
  <2> QED BY <2>1, <2>2, <2>3, <2>4
<1>12. c # <<>>
  BY <1>2
<1> QED BY <1>10, <1>11, <1>12 DEF c, Loyal

LEMMA PlainLoyal ==
    ASSUME NEW c, \A k \in DOMAIN c : c[k].op \notin {"exit", "exec"}
    PROVE  Loyal(c)
BY DEF Loyal

LEMMA OpsLoyal ==
    /\ \A name \in {"fork", "spin", "aging", "warmup"} : Loyal(Op(name))
    /\ \A name \in {"zero", "inc"}, x \in Locals : Loyal(On(name, x))
    /\ \A v \in ProgramPriorities : Loyal(With("priority", v))
BY DEF Loyal, Op, On, With

\* A loop around a piece of code.
LEMMA ForPiece ==
    ASSUME NEW x \in Locals, NEW body, Piece(body), body # <<>>
    PROVE  Piece(For(x, body)) /\ (Loyal(body) => Loyal(For(x, body)))
<1> DEFINE zero == On("zero", x)
           inc == On("inc", x)
           a1 == zero \o body
           a == a1 \o inc
           l == [op |-> "less", var |-> x, back |-> Len(body) + 1]
           c == a \o <<l>>
<1>1. For(x, body) = c
  BY DEF For
<1>2. /\ Piece(zero) /\ Piece(inc) /\ Loyal(zero) /\ Loyal(inc)
      /\ zero \in Seq(Instructions) /\ inc \in Seq(Instructions) /\ body \in Seq(Instructions)
      /\ Len(zero) = 1 /\ Len(inc) = 1 /\ zero[1].op = "zero"
  <2>1. Plain(zero) /\ Plain(inc)
    BY PlainOps
  <2>2. Piece(zero) /\ Piece(inc)
    BY <2>1, PlainPiece
  <2>3. Loyal(zero) /\ Loyal(inc)
    BY OpsLoyal
  <2>4. Len(zero) = 1 /\ Len(inc) = 1 /\ zero[1].op = "zero"
    BY DEF On
  <2> HIDE DEF zero, inc
  <2> QED BY <2>2, <2>3, <2>4 DEF Piece
<1>3. Len(body) \in Nat /\ Len(body) > 0 /\ DOMAIN body = 1 .. Len(body)
  BY <1>2
<1>4. l \in Instructions
  <2>1. "less" \in Ops /\ Len(body) + 1 \in Nat
    BY <1>3 DEF Ops
  <2> QED BY <2>1, Instruction
<1>5. l.op = "less" /\ l.var = x /\ l.back = Len(body) + 1
  OBVIOUS
<1> HIDE DEF zero, inc, l
<1>6. Piece(a1) /\ Piece(a) /\ (Loyal(body) => Loyal(a))
  BY <1>2, PieceConcat, LoyalConcat
<1>7. /\ a1 \in Seq(Instructions) /\ Len(a1) = Len(body) + 1
      /\ a1[1] = zero[1] /\ a1[2] = body[1]
  <2>1. /\ a1 \in Seq(Instructions) /\ Len(a1) = Len(zero) + Len(body)
        /\ \A k \in 1 .. Len(zero) : a1[k] = zero[k]
        /\ \A k \in Len(zero) + 1 .. Len(zero) + Len(body) : a1[k] = body[k - Len(zero)]
    BY <1>2, ConcatIs
  <2> HIDE DEF a1
  <2>2. 1 \in 1 .. Len(zero) /\ 2 \in Len(zero) + 1 .. Len(zero) + Len(body) /\ 2 - Len(zero) = 1
    BY <1>2, <1>3
  <2>3. a1[1] = zero[1] /\ a1[2] = body[1]
    BY <2>1, <2>2
  <2> QED BY <1>2, <1>3, <2>1, <2>3
<1> HIDE DEF a1
<1>8. /\ a \in Seq(Instructions) /\ Len(a) = Len(body) + 2
      /\ a[1] = zero[1] /\ a[2] = body[1]
  <2>1. /\ a \in Seq(Instructions) /\ Len(a) = Len(a1) + Len(inc)
        /\ \A k \in 1 .. Len(a1) : a[k] = a1[k]
    BY <1>2, <1>7, ConcatIs
  <2> HIDE DEF a
  <2> QED BY <1>2, <1>3, <1>7, <2>1
<1> HIDE DEF a
<1>9. /\ <<l>> \in Seq(Instructions) /\ Len(<<l>>) = 1 /\ <<l>>[1] = l /\ <<l>> # <<>>
  BY <1>4
<1>10. /\ c \in Seq(Instructions) /\ Len(c) = Len(body) + 3 /\ DOMAIN c = 1 .. Len(body) + 3
       /\ DOMAIN a = 1 .. Len(body) + 2
       /\ \A k \in 1 .. Len(body) + 2 : c[k] = a[k]
       /\ c[Len(body) + 3] = l
  <2>1. /\ c \in Seq(Instructions) /\ Len(c) = Len(a) + Len(<<l>>)
        /\ DOMAIN c = 1 .. Len(a) + Len(<<l>>) /\ DOMAIN a = 1 .. Len(a)
        /\ \A k \in 1 .. Len(a) : c[k] = a[k]
        /\ \A k \in Len(a) + 1 .. Len(a) + Len(<<l>>) : c[k] = <<l>>[k - Len(a)]
    BY <1>8, <1>9, ConcatIs
  <2> HIDE DEF c
  <2>2. c[Len(body) + 3] = l
    BY <1>3, <1>8, <1>9, <2>1
  <2> QED BY <1>3, <1>8, <1>9, <2>1, <2>2
<1>11. <<l>>[1].op \notin Dependent
  BY <1>5, <1>9 DEF Dependent
<1>12. \A k \in DOMAIN a : Operands(c[k]) /\ Follows(c, k) /\ Leads(c, k)
  BY <1>6, <1>9, <1>11, PieceLeft
<1>13. \A k \in 1 .. Len(a) + 1 : InChild(c, k) <=> InChild(a, k)
  BY <1>6, <1>9, InChildLeft
<1> HIDE DEF c
<1>14. body[1].op \notin Dependent
  BY <1>3 DEF Piece, Follows
<1>15. ~InChild(c, 2)
  <2>1. ~InChild(a, 2)
    BY <1>2, <1>8 DEF InChild
  <2>2. 2 \in 1 .. Len(a) + 1
    BY <1>3, <1>8
  <2> QED BY <1>13, <2>1, <2>2
<1>16. LET k == Len(body) + 3 IN Operands(c[k]) /\ Follows(c, k) /\ Leads(c, k)
  <2> DEFINE k == Len(body) + 3
  <2>1. k - c[k].back = 2 /\ 2 \in 1 .. k /\ c[2] = body[1]
    BY <1>3, <1>5, <1>8, <1>10
  <2>2. c[k].op = "less" /\ c[k].var = x /\ c[k].back \in Nat
    BY <1>3, <1>5, <1>10
  <2> HIDE DEF k
  <2>3. Operands(c[k]) /\ Follows(c, k)
    BY <2>2 DEF Operands, Follows, Dependent
  <2>4. Leads(c, k)
    BY <1>14, <1>15, <2>1, <2>2 DEF Leads
  <2> QED BY <2>3, <2>4 DEF k
<1>17. Piece(c)
  <2>1. \A k \in DOMAIN c : k \in DOMAIN a \/ k = Len(body) + 3
    BY <1>3, <1>10
  <2> QED BY <1>10, <1>12, <1>16, <2>1 DEF Piece
<1>18. ASSUME Loyal(body) PROVE Loyal(c)
  <2> SUFFICES ASSUME NEW k \in DOMAIN c, c[k].op \in {"exit", "exec"} PROVE InChild(c, k)
    BY DEF Loyal
  <2>1. k # Len(body) + 3
    BY <1>5, <1>10
  <2>2. k \in DOMAIN a /\ c[k] = a[k] /\ k \in 1 .. Len(a) + 1
    BY <1>3, <1>8, <1>10, <2>1
  <2>3. InChild(a, k)
    BY <1>6, <1>18, <2>2 DEF Loyal
  <2> QED BY <1>13, <2>2, <2>3
<1> QED BY <1>1, <1>17, <1>18

\* while(1) behind a piece of code makes it a program.
LEMMA EndProgram ==
    ASSUME NEW a, Piece(a)
    PROVE  Program(a \o Spin) /\ (Loyal(a) => Loyal(a \o Spin))
<1> DEFINE c == a \o Spin
<1>1. Plain(Spin) /\ Loyal(Spin) /\ Len(Spin) = 1 /\ Spin[1].op = "spin"
  <2>1. Plain(Spin) /\ Loyal(Spin)
    BY PlainOps, OpsLoyal DEF Spin
  <2>2. Len(Spin) = 1 /\ Spin[1].op = "spin"
    BY DEF Spin, Op
  <2> QED BY <2>1, <2>2
<1>2. Piece(Spin) /\ Spin \in Seq(Instructions) /\ a \in Seq(Instructions)
  BY <1>1, PlainPiece DEF Piece
<1>3. Piece(c) /\ (Loyal(a) => Loyal(c))
  BY <1>1, <1>2, PieceConcat, LoyalConcat
<1>4. /\ Len(a) \in Nat /\ Len(c) = Len(a) + 1 /\ DOMAIN c = 1 .. Len(a) + 1
      /\ DOMAIN a = 1 .. Len(a)
      /\ \A k \in 1 .. Len(a) : c[k] = a[k]
      /\ \A k \in Len(a) + 1 .. Len(a) + 1 : c[k] = Spin[k - Len(a)]
      /\ c \in Seq(Instructions)
  <2>1. /\ Len(a) \in Nat /\ Len(c) = Len(a) + Len(Spin)
        /\ DOMAIN c = 1 .. Len(a) + Len(Spin) /\ DOMAIN a = 1 .. Len(a)
        /\ \A k \in 1 .. Len(a) : c[k] = a[k]
        /\ \A k \in Len(a) + 1 .. Len(a) + Len(Spin) : c[k] = Spin[k - Len(a)]
        /\ c \in Seq(Instructions)
    BY <1>2, ConcatIs
  <2> HIDE DEF c
  <2> QED BY <1>1, <2>1
<1> HIDE DEF c
<1>5. c[Len(c)].op = "spin" /\ c # <<>>
  BY <1>1, <1>4
<1>6. ASSUME NEW k \in DOMAIN c, c[k].op \in {"jump", "ifchild"}
      PROVE  k + 1 + c[k].skip <= Len(c)
  <2>1. k \in DOMAIN a /\ c[k] = a[k] /\ k \in Nat
    BY <1>4, <1>5, <1>6
  <2>2. Operands(a[k]) /\ Leads(a, k)
    BY <2>1 DEF Piece
  <2>3. a[k].skip \in Nat
    BY <1>6, <2>1, <2>2 DEF Operands
  <2>4. k + 1 + a[k].skip <= Len(a) + 1
    <3>1. CASE a[k].op = "jump"
      BY <2>2, <3>1 DEF Leads
    <3>2. CASE a[k].op = "ifchild"
      <4>1. k + a[k].skip <= Len(a)
        BY <2>2, <3>2 DEF Leads
      <4> QED BY <1>4, <2>1, <2>3, <4>1
    <3> QED BY <1>6, <2>1, <3>1, <3>2
  <2> QED BY <1>4, <2>1, <2>4
<1> QED BY <1>3, <1>5, <1>6 DEF Program, c

-----------------------------------------------------------------------------
(* The programs are composed of such pieces.                                *)

\* A block whose parent's branch is empty, counts or waits.
LEMMA LoyalBlock ==
    ASSUME NEW x \in Locals, NEW child, Plain(child)
    PROVE  /\ \A parent \in {<<>>, WaitFor(x)} \cup {On("inc", y) : y \in Locals} :
                  /\ Piece(Block(x, child, parent)) /\ Loyal(Block(x, child, parent))
                  /\ Block(x, child, parent) # <<>>
<1> SUFFICES ASSUME NEW parent \in {<<>>, WaitFor(x)} \cup {On("inc", y) : y \in Locals}
             PROVE  /\ Piece(Block(x, child, parent)) /\ Loyal(Block(x, child, parent))
                    /\ Block(x, child, parent) # <<>>
  OBVIOUS
<1>1. Answer(parent, x) /\ \A k \in DOMAIN parent : parent[k].op \notin {"exit", "exec"}
  <2>1. CASE parent = <<>>
    <3>1. Answer(parent, x)
      BY <2>1, PlainOps, PlainAnswer
    <3> QED BY <2>1, <3>1
  <2>2. CASE parent = WaitFor(x)
    <3>1. Answer(parent, x)
      BY <2>2, WaitForAnswer
    <3>2. /\ parent \in Seq(Instructions) /\ Len(parent) = 2
          /\ parent[1] = [op |-> "load", var |-> x] /\ parent[2] = [op |-> "wait"]
      BY <2>2, WaitForIs
    <3>3. DOMAIN parent = {1, 2} /\ parent[1].op = "load" /\ parent[2].op = "wait"
      BY <3>2
    <3> QED BY <3>1, <3>3
  <2>3. ASSUME NEW y \in Locals, parent = On("inc", y)
        PROVE  Answer(parent, x) /\ \A k \in DOMAIN parent : parent[k].op \notin {"exit", "exec"}
    <3>1. Answer(parent, x)
      BY <2>3, PlainOps, PlainAnswer
    <3>2. DOMAIN parent = {1} /\ parent[1].op = "inc"
      BY <2>3 DEF On
    <3> QED BY <3>1, <3>2
  <2> QED BY <2>1, <2>2, <2>3
<1>2. /\ Piece(Block(x, child, parent)) /\ Loyal(Block(x, child, parent))
      /\ Block(x, child, parent) # <<>>
  BY <1>1, ForkPiece
<1> QED BY <1>2

LEMMA BecomePlain == Plain(Become("worker"))
BY PlainOps, PlainConcat DEF Become, Spin

LEMMA LocalNames ==
    /\ "pid" \in Locals /\ "pid2" \in Locals /\ "i" \in Locals /\ "i2" \in Locals
    /\ "initializedProcesses" \in Locals
BY DEF Locals

LEMMA PriorityNumbers ==
    /\ 1 \in ProgramPriorities /\ 2 \in ProgramPriorities /\ 3 \in ProgramPriorities
    /\ 4 \in ProgramPriorities /\ 5 \in ProgramPriorities /\ 10 \in ProgramPriorities
BY DEF ProgramPriorities

LEMMA LoadPiece ==
    ASSUME NEW v \in ProgramPriorities
    PROVE  Piece(Load(v)) /\ Loyal(Load(v))
<1>1. Plain(With("priority", v) \o Become("worker"))
  BY PlainOps, PlainConcat, BecomePlain
<1> QED BY <1>1, LoyalBlock, LocalNames DEF Load, Block

LEMMA LoadTogetherPiece ==
    ASSUME NEW v \in ProgramPriorities, NEW before, Plain(before)
    PROVE  Piece(LoadTogether(before, v)) /\ Loyal(LoadTogether(before, v))
<1> DEFINE until == <<[op |-> "until", var |-> "initializedProcesses", arg |-> 4]>>
<1>1. Plain(until) /\ Plain(With("priority", v))
  BY PlainOps
<1> HIDE DEF until
<1>2. Plain(before \o With("priority", v) \o until \o Become("worker"))
  BY <1>1, PlainConcat, BecomePlain
<1>3. LoadTogether(before, v) =
          Block("pid", before \o With("priority", v) \o until \o Become("worker"),
                On("inc", "initializedProcesses"))
  BY DEF LoadTogether, Block, until
<1> QED BY <1>2, <1>3, LoyalBlock, LocalNames

\* A sequence of loyal pieces.
LEMMA LoyalPieces ==
    ASSUME NEW a, NEW b, Piece(a) /\ Loyal(a), Piece(b) /\ Loyal(b)
    PROVE  Piece(a \o b) /\ Loyal(a \o b)
BY PieceConcat, LoyalConcat

LEMMA OnePiece ==
    /\ \A name \in {"fork", "spin", "aging", "warmup"} : Piece(Op(name)) /\ Loyal(Op(name))
    /\ \A name \in {"zero", "inc"}, x \in Locals : Piece(On(name, x)) /\ Loyal(On(name, x))
    /\ \A v \in ProgramPriorities : Piece(With("priority", v)) /\ Loyal(With("priority", v))
<1>1. \A name \in {"fork", "spin", "aging", "warmup"} : Plain(Op(name))
  BY PlainOps
<1> QED BY <1>1, PlainOps, PlainPiece, OpsLoyal

\* Two forks before a block, as the programs write it.
LEMMA TwoForks ==
    ASSUME NEW x \in Locals, NEW child, Plain(child), NEW parent, Answer(parent, x)
    PROVE  LET c == Op("fork") \o Op("fork") \o ForkTo(x) \o IfChild(x, child, parent)
           IN  /\ c = Op("fork") \o Op("fork") \o Block(x, child, parent)
               /\ Piece(c) /\ (Loyal(Block(x, child, parent)) => Loyal(c))
<1> DEFINE f == Op("fork") \o Op("fork")
           c == f \o ForkTo(x) \o IfChild(x, child, parent)
<1>1. Piece(f) /\ Loyal(f) /\ f \in Seq(Instructions)
  BY OnePiece, LoyalPieces DEF Piece
<1> HIDE DEF f
<1>2. ForkTo(x) \in Seq(Instructions) /\ IfChild(x, child, parent) \in Seq(Instructions)
  <2>1. /\ child \in Seq(Instructions) /\ parent \in Seq(Instructions)
        /\ Len(child) \in Nat /\ Len(parent) \in Nat
    BY DEF Plain, Answer
  <2>2. /\ "fork" \in Ops /\ "get" \in Ops /\ "store" \in Ops /\ "ifchild" \in Ops
        /\ "jump" \in Ops /\ Len(child) + 1 \in Nat
    BY <2>1 DEF Ops
  <2>3. /\ Op("fork") \in Seq(Instructions) /\ Op("get") \in Seq(Instructions)
        /\ On("store", x) \in Seq(Instructions)
    <3>1. /\ [op |-> "fork"] \in Instructions /\ [op |-> "get"] \in Instructions
          /\ [op |-> "store", var |-> x] \in Instructions
      BY <2>2, Instruction
    <3> QED BY <3>1 DEF Op, On
  <2>4. ForkTo(x) \in Seq(Instructions)
    BY <2>3, ConcatIs DEF ForkTo, Assign
  <2> DEFINE t == [op |-> "ifchild", var |-> x, skip |-> Len(child) + 1]
             j == [op |-> "jump", skip |-> Len(parent)]
  <2>5. t \in Instructions /\ j \in Instructions
    BY <2>1, <2>2, Instruction
  <2>6. IfChild(x, child, parent) = <<t>> \o child \o <<j>> \o parent
    BY DEF IfChild
  <2> HIDE DEF t, j
  <2>7. <<t>> \in Seq(Instructions) /\ <<j>> \in Seq(Instructions)
    BY <2>5
  <2> QED BY <2>1, <2>4, <2>6, <2>7, ConcatIs
<1>3. c = f \o Block(x, child, parent)
  BY <1>1, <1>2, ConcatAssociative DEF Block
<1>4. Piece(Block(x, child, parent))
  BY ForkPiece
<1>5. Piece(c) /\ (Loyal(Block(x, child, parent)) => Loyal(c))
  BY <1>1, <1>3, <1>4, PieceConcat, LoyalConcat
<1> QED BY <1>3, <1>5 DEF f

\* Code without certain instructions.
Avoids(c, S) == \A k \in DOMAIN c : c[k].op \notin S

LEMMA AvoidsConcat ==
    ASSUME NEW a \in Seq(Instructions), NEW b \in Seq(Instructions), NEW S,
           Avoids(a, S), Avoids(b, S)
    PROVE  Avoids(a \o b, S)
<1> DEFINE c == a \o b
<1>1. /\ Len(a) \in Nat /\ Len(b) \in Nat /\ DOMAIN a = 1 .. Len(a) /\ DOMAIN b = 1 .. Len(b)
      /\ DOMAIN c = 1 .. Len(a) + Len(b) /\ \A j \in 1 .. Len(a) : c[j] = a[j]
      /\ \A j \in Len(a) + 1 .. Len(a) + Len(b) : c[j] = b[j - Len(a)]
  BY ConcatIs
<1> HIDE DEF c
<1>2. ASSUME NEW k \in DOMAIN c PROVE c[k].op \notin S
  <2>1. (k \in DOMAIN a /\ c[k] = a[k]) \/ (k - Len(a) \in DOMAIN b /\ c[k] = b[k - Len(a)])
    BY <1>1
  <2> QED BY <2>1 DEF Avoids
<1> QED BY <1>2 DEF Avoids, c

LEMMA BlockAvoids ==
    ASSUME NEW x \in Locals, NEW child \in Seq(Instructions), NEW parent \in Seq(Instructions),
           NEW S, S \cap {"fork", "get", "store", "ifchild", "jump"} = {},
           Avoids(child, S), Avoids(parent, S)
    PROVE  Avoids(Block(x, child, parent), S)
<1> DEFINE c == Block(x, child, parent)
           n == Len(child)
           m == Len(parent)
<1>1. /\ c \in Seq(Instructions) /\ n \in Nat /\ m \in Nat
      /\ Len(c) = n + m + 5 /\ DOMAIN c = 1 .. n + m + 5
      /\ c[1] = [op |-> "fork"] /\ c[2] = [op |-> "get"]
      /\ c[3] = [op |-> "store", var |-> x]
      /\ c[4] = [op |-> "ifchild", var |-> x, skip |-> n + 1]
      /\ \A k \in 1 .. n : c[k + 4] = child[k]
      /\ c[n + 5] = [op |-> "jump", skip |-> m]
      /\ \A k \in 1 .. m : c[n + 5 + k] = parent[k]
  BY BlockIs
<1>2. DOMAIN child = 1 .. n /\ DOMAIN parent = 1 .. m
  OBVIOUS
<1> HIDE DEF c, n, m
<1>3. /\ c[1].op = "fork" /\ c[2].op = "get" /\ c[3].op = "store"
      /\ c[4].op = "ifchild" /\ c[n + 5].op = "jump"
  BY <1>1
<1>4. ASSUME NEW k \in DOMAIN c PROVE c[k].op \notin S
  <2>1. CASE k \in {1, 2, 3, 4, n + 5}
    BY <1>3, <2>1
  <2>2. CASE k \in 5 .. n + 4
    <3>1. k - 4 \in DOMAIN child /\ (k - 4) + 4 = k
      BY <1>1, <1>2, <2>2
    <3>2. c[k] = child[k - 4]
      BY <1>1, <1>2, <3>1
    <3> QED BY <3>1, <3>2 DEF Avoids
  <2>3. CASE k \in n + 6 .. n + m + 5
    <3> DEFINE j == k - (n + 5)
    <3>1. j \in DOMAIN parent /\ n + 5 + j = k
      BY <1>1, <1>2, <2>3
    <3> HIDE DEF j
    <3>2. c[k] = parent[j]
      BY <1>1, <1>2, <3>1
    <3> QED BY <3>1, <3>2 DEF Avoids
  <2> QED BY <1>1, <2>1, <2>2, <2>3
<1> QED BY <1>4 DEF Avoids, c

\* The code of every program, and which programs leave exit and execve to children.
LEMMA CodeShape ==
    /\ \A p \in DOMAIN Code : Program(Code[p])
    /\ \A p \in DOMAIN Code \ {"worker", "forktask_4"} : Loyal(Code[p])
<1> DEFINE Good(c) == Program(c) /\ Loyal(c)
<1>1. ASSUME NEW a, Piece(a) /\ Loyal(a) PROVE Good(a \o Spin)
  BY <1>1, EndProgram
<1>2. Plain(<<>>) /\ Plain(Op("exit")) /\ Plain(With("exec", "forever"))
      /\ Plain(With("exec", "worker")) /\ Plain(Become("worker"))
  BY PlainOps, BecomePlain
<1>3. ASSUME NEW x \in {"pid", "pid2"}, NEW child, Plain(child)
      PROVE  /\ Piece(Block(x, child, <<>>)) /\ Loyal(Block(x, child, <<>>))
             /\ Block(x, child, <<>>) # <<>>
             /\ Piece(Block(x, child, WaitFor(x))) /\ Loyal(Block(x, child, WaitFor(x)))
             /\ Block(x, child, WaitFor(x)) # <<>>
  BY <1>3, LoyalBlock, LocalNames
<1>4. ASSUME NEW x \in {"i", "i2"}, NEW body, Piece(body) /\ Loyal(body) /\ body # <<>>
      PROVE  Piece(For(x, body)) /\ Loyal(For(x, body))
  BY <1>4, ForPiece, LocalNames
<1>5. Program(worker)
  <2> DEFINE e == [op |-> "exit"]
             r == [op |-> "return"]
  <2>1. e \in Instructions /\ r \in Instructions
    <3>1. "exit" \in Ops /\ "return" \in Ops
      BY DEF Ops
    <3> QED BY <3>1, Instruction
  <2>2. worker = <<e>> \o <<r>>
    BY DEF worker, Op, Return
  <2>3. e.op = "exit" /\ r.op = "return"
    OBVIOUS
  <2> HIDE DEF e, r
  <2>4. /\ <<e>> \in Seq(Instructions) /\ Len(<<e>>) = 1 /\ <<e>>[1] = e
        /\ <<r>> \in Seq(Instructions) /\ Len(<<r>>) = 1 /\ <<r>>[1] = r
    BY <2>1
  <2>5. worker \in Seq(Instructions) /\ Len(worker) = 2 /\ worker[1] = e /\ worker[2] = r
    BY <2>2, <2>4, ConcatIs
  <2>6. DOMAIN worker = {1, 2} /\ worker # <<>>
    BY <2>5
  <2>7. \A k \in DOMAIN worker : Operands(worker[k]) /\ Follows(worker, k) /\ Leads(worker, k)
    BY <2>3, <2>5, <2>6 DEF Operands, Follows, Leads, Dependent
  <2>8. Piece(worker)
    BY <2>5, <2>7 DEF Piece
  <2> QED BY <2>3, <2>5, <2>6, <2>8 DEF Program
<1>6. Good(forever)
  <2>1. Plain(Spin) /\ Loyal(Spin)
    BY PlainOps, OpsLoyal DEF Spin
  <2>2. DOMAIN Spin = {1} /\ Len(Spin) = 1 /\ Spin[1].op = "spin" /\ Spin # <<>>
    BY DEF Spin, Op
  <2> QED BY <2>1, <2>2, PlainPiece DEF forever, Program
<1>7. Good(forktask_3)
  BY <1>1, <1>2, <1>3 DEF forktask_3, Block
<1>8. Program(forktask_4)
  <2>1. Answer(Op("exit"), "pid")
    BY <1>2, PlainAnswer
  <2> QED BY <1>2, <2>1, TwoForks, EndProgram, LocalNames DEF forktask_4
<1>9. Good(waitpidtask_1)
  BY <1>1, <1>2, <1>3 DEF waitpidtask_1, Block
<1>10. Good(waitpidtask_2)
  <2>1. Answer(WaitFor("pid"), "pid")
    BY WaitForAnswer, LocalNames
  <2>2. Loyal(Block("pid", Op("exit"), WaitFor("pid")))
    BY <1>2, <1>3
  <2> QED BY <1>1, <1>2, <2>1, <2>2, TwoForks, LocalNames DEF waitpidtask_2
<1>11. Good(execvetask_1)
  BY <1>1, <1>2, <1>3 DEF execvetask_1, Block
<1>12. Good(partA_strategy)
  <2> DEFINE a == For("i", Block("pid", Become("worker"), <<>>))
             b == For("i2", Block("pid2", Become("worker"), <<>>))
  <2>1. Piece(a) /\ Loyal(a) /\ Piece(b) /\ Loyal(b)
    BY <1>2, <1>3, <1>4
  <2>2. partA_strategy = a \o b \o Spin
    BY DEF partA_strategy, Block
  <2> HIDE DEF a, b
  <2> QED BY <1>1, <2>1, <2>2, LoyalPieces
<1>13. Good(partA_strategy_waitpid)
  <2> DEFINE child == With("exec", "worker") \o Op("exit")
             a == For("i", Block("pid", child, WaitFor("pid")))
             b == For("i2", Block("pid2", child, WaitFor("pid2")))
  <2>0. Plain(child)
    BY <1>2, PlainConcat
  <2> HIDE DEF child
  <2>1. Piece(a) /\ Loyal(a) /\ Piece(b) /\ Loyal(b)
    BY <1>3, <1>4, <2>0
  <2>2. partA_strategy_waitpid = a \o b \o Spin
    BY DEF partA_strategy_waitpid, Block, child
  <2> HIDE DEF a, b
  <2> QED BY <1>1, <2>1, <2>2, LoyalPieces
<1>14. Good(part_b_first_strategy)
  BY <1>1, <1>2, <1>3, <1>4 DEF part_b_first_strategy, Block
<1>15. Good(part_b_second_strategy)
  BY <1>12 DEF part_b_second_strategy
<1>16. Good(part_b_third_strategy)
  <2>1. /\ Piece(With("priority", 5)) /\ Loyal(With("priority", 5))
        /\ Piece(With("priority", 10)) /\ Loyal(With("priority", 10))
        /\ Piece(Load(5)) /\ Loyal(Load(5))
        /\ Piece(Op("warmup")) /\ Loyal(Op("warmup"))
    BY OnePiece, LoadPiece, PriorityNumbers
  <2> QED BY <1>1, <2>1, LoyalPieces DEF part_b_third_strategy
<1>17. Good(part_b_dynamic_strategy)
  <2>1. /\ Piece(With("priority", 5)) /\ Loyal(With("priority", 5))
        /\ Piece(On("zero", "initializedProcesses")) /\ Loyal(On("zero", "initializedProcesses"))
    BY OnePiece, PriorityNumbers, LocalNames
  <2>2. Plain(Op("aging"))
    BY PlainOps
  <2>3. /\ Piece(LoadTogether(Op("aging"), 5)) /\ Loyal(LoadTogether(Op("aging"), 5))
        /\ \A v \in {2, 3, 4} : Piece(LoadTogether(<<>>, v)) /\ Loyal(LoadTogether(<<>>, v))
    BY <1>2, <2>2, LoadTogetherPiece, PriorityNumbers
  <2> QED BY <1>1, <2>1, <2>3, LoyalPieces DEF part_b_dynamic_strategy
<1>18. Good(partb)
  <2>1. /\ Piece(With("priority", 10)) /\ Loyal(With("priority", 10))
        /\ Piece(Load(5)) /\ Loyal(Load(5)) /\ Piece(Load(1)) /\ Loyal(Load(1))
        /\ Piece(Load(3)) /\ Loyal(Load(3))
    BY OnePiece, LoadPiece, PriorityNumbers
  <2> QED BY <1>1, <2>1, LoyalPieces DEF partb
<1>19. Good(part_c_first_strategy)
  BY <1>1, <1>2, <1>3, <1>4 DEF part_c_first_strategy, Block
<1> QED
  BY <1>5, <1>6, <1>7, <1>8, <1>9, <1>10, <1>11, <1>12, <1>13, <1>14, <1>15, <1>16, <1>17,
     <1>18, <1>19
  DEF Code

\* forktask_4 neither becomes another program nor waits nor comes to the end of its
\* function.
LEMMA ForktaskFour == Avoids(forktask_4, {"exec", "return", "wait"})
<1> DEFINE S == {"exec", "return", "wait"}
           e == Op("exit")
           f == Op("fork")
           b == Block("pid", e, e)
<1>1. /\ Avoids(e, S) /\ Avoids(f, S) /\ Avoids(Spin, S)
  BY DEF Avoids, Op, Spin
<1>2. /\ e \in Seq(Instructions) /\ f \in Seq(Instructions) /\ Spin \in Seq(Instructions)
      /\ Plain(e) /\ Answer(e, "pid")
  <2>1. Plain(e) /\ Plain(f) /\ Plain(Spin)
    BY PlainOps DEF Spin
  <2> QED BY <2>1, PlainAnswer DEF Plain
<1>3. Avoids(b, S) /\ b \in Seq(Instructions)
  <2>1. Avoids(b, S)
    BY <1>1, <1>2, BlockAvoids, LocalNames
  <2>2. Piece(b)
    BY <1>2, ForkPiece, LocalNames
  <2> QED BY <2>1, <2>2 DEF Piece
<1>4. forktask_4 = f \o f \o b \o Spin
  BY <1>2, TwoForks, LocalNames DEF forktask_4
<1> HIDE DEF S, e, f, b
<1>5. f \o f \in Seq(Instructions) /\ Avoids(f \o f, S)
  BY <1>1, <1>2, ConcatIs, AvoidsConcat
<1>6. f \o f \o b \in Seq(Instructions) /\ Avoids(f \o f \o b, S)
  BY <1>3, <1>5, ConcatIs, AvoidsConcat
<1>7. Avoids(forktask_4, S)
  BY <1>1, <1>2, <1>4, <1>6, AvoidsConcat
<1> QED BY <1>7 DEF S

-----------------------------------------------------------------------------
(* The machine makes only the steps of TaskManager.                         *)

\* Where a process goes on: the next instruction is there, and depends on the one
\* before it only in these ways.
LEMMA NextOp ==
    ASSUME NEW c, Program(c), NEW k \in DOMAIN c, c[k].op \notin {"spin", "return"}
    PROVE  /\ k \in Nat /\ k + 1 \in DOMAIN c
           /\ c[k + 1].op \in Dependent =>
                 \/ c[k].op = "fork" /\ c[k + 1].op = "get"
                 \/ c[k].op = "get" /\ c[k + 1].op = "store"
                 \/ c[k].op = "store" /\ c[k + 1].op = "ifchild" /\ c[k + 1].var = c[k].var
                 \/ c[k].op = "jump" /\ c[k + 1].op = "load" /\ c[k].skip > 0
                 \/ c[k].op = "load" /\ c[k + 1].op = "wait"
                 \/ c[k].op = "exit" /\ c[k + 1].op = "return"
<1>1. c \in Seq(Instructions) /\ c[Len(c)].op \in {"spin", "return"}
  BY DEF Program, Piece
<1>2. Len(c) \in Nat /\ DOMAIN c = 1 .. Len(c)
  BY <1>1
<1>3. k \in Nat /\ k # Len(c) /\ k + 1 \in DOMAIN c /\ (k + 1) - 1 = k
  BY <1>1, <1>2
<1>4. Follows(c, k + 1)
  BY <1>3 DEF Program, Piece
<1> QED BY <1>3, <1>4 DEF Follows, Dependent

\* Where the jumps lead.
LEMMA Targets ==
    ASSUME NEW c, Program(c), NEW k \in DOMAIN c
    PROVE  /\ k \in Nat
           /\ c[k].op \in {"ifchild", "jump"} =>
                 c[k].skip \in Nat /\ k + 1 + c[k].skip \in DOMAIN c
           /\ c[k].op = "ifchild" =>
                 LET t == k + 1 + c[k].skip
                 IN  /\ c[k].skip > 0 /\ ~InChild(c, t)
                     /\ c[t].op \notin Dependent \/ (c[t].op = "load" /\ c[t].var = c[k].var)
           /\ c[k].op = "jump" => InChild(c, k) /\ c[k + 1 + c[k].skip].op \notin Dependent
           /\ c[k].op = "less" =>
                 LET t == k - c[k].back
                 IN  t \in DOMAIN c /\ c[t].op \notin Dependent /\ ~InChild(c, t)
<1>1. c \in Seq(Instructions) /\ Operands(c[k]) /\ Leads(c, k)
  BY DEF Program, Piece
<1>2. Len(c) \in Nat /\ DOMAIN c = 1 .. Len(c) /\ k \in Nat
  BY <1>1
<1>3. c[k].op \in {"ifchild", "jump"} =>
          /\ c[k].skip \in Nat /\ k + 1 + c[k].skip <= Len(c)
          /\ k + 1 + c[k].skip \in DOMAIN c
  <2> SUFFICES ASSUME c[k].op \in {"ifchild", "jump"}
               PROVE  /\ c[k].skip \in Nat /\ k + 1 + c[k].skip <= Len(c)
                      /\ k + 1 + c[k].skip \in DOMAIN c
    OBVIOUS
  <2>1. c[k].skip \in Nat
    BY <1>1 DEF Operands
  <2>2. k + 1 + c[k].skip <= Len(c)
    BY DEF Program
  <2> QED BY <1>2, <2>1, <2>2
<1>4. c[k].op = "less" => k - c[k].back \in 1 .. k
  BY <1>1 DEF Leads
<1>5. c[k].op = "less" => k - c[k].back \in DOMAIN c
  BY <1>2, <1>4
<1> QED BY <1>1, <1>2, <1>3, <1>5 DEF Leads

\* The registers hold what they can hold; the program counter stays in the code.
Machine ==
    /\ code \in [Slots -> DOMAIN Code]
    /\ pc \in [Slots -> Nat]
    /\ eax \in [Slots -> Int]
    /\ base \in [Slots -> Slots]
    /\ local \in [Slots -> [Locals -> Int]]
    /\ \A i \in Slots : pc[i] \in DOMAIN Code[code[i]]

LEMMA CodeStart ==
    ASSUME NEW p \in DOMAIN Code
    PROVE  1 \in DOMAIN Code[p] /\ Code[p][1].op \notin Dependent
<1>1. Piece(Code[p]) /\ Code[p] # <<>> /\ Code[p] \in Seq(Instructions)
  BY CodeShape DEF Program, Piece
<1>2. 1 \in DOMAIN Code[p]
  BY <1>1
<1> QED BY <1>1, <1>2 DEF Piece, Follows

LEMMA StartMachine == ProgramInit => Machine
<1> SUFFICES ASSUME ProgramInit PROVE Machine
  OBVIOUS
<1>1. PICK p \in Started : code = [i \in Slots |-> p]
  BY DEF ProgramInit
<1>2. p \in DOMAIN Code
  BY StartedAssumption
<1> HIDE DEF Code
<1>3. 1 \in DOMAIN Code[p]
  BY <1>2, CodeStart
<1> QED BY <1>1, <1>2, <1>3 DEF ProgramInit, Machine

\* The process that runs, and its instruction.
LEMMA Running ==
    ASSUME Typed, Machine, InUser
    PROVE  LET c == Code[code[currentTask]]
               k == pc[currentTask]
           IN  /\ currentTask \in Tasks /\ currentTask \in Slots /\ Tasks \subseteq Slots
               /\ pid[currentTask] = currentTask
               /\ code[currentTask] \in DOMAIN Code /\ Program(c) /\ k \in DOMAIN c
               /\ Instr(currentTask) = c[k] /\ Operands(c[k])
<1> DEFINE c == Code[code[currentTask]]
           k == pc[currentTask]
<1>1. currentTask \in Tasks
  BY DEF InUser, Typed, TypeOK, Tasks
<1>2. Tasks \subseteq Slots /\ currentTask \in Slots
  BY <1>1, TasksAreSlots DEF Typed
<1>3. pid[currentTask] = currentTask
  BY <1>1 DEF Typed, ProcessTree
<1>4. code[currentTask] \in DOMAIN Code /\ k \in DOMAIN c
  BY <1>2 DEF Machine
<1>5. Program(c)
  BY <1>4, CodeShape
<1>6. Operands(c[k])
  BY <1>4, <1>5 DEF Program, Piece
<1> QED BY <1>1, <1>2, <1>3, <1>4, <1>5, <1>6 DEF Instr

\* A step that moves the current process inside its code and changes no other register
\* but eax or a local.
LEMMA MoveMachine ==
    ASSUME Typed, Machine, InUser, NEW k \in DOMAIN Code[code[currentTask]], k \in Nat,
           Goto(k), UNCHANGED <<code, base>>,
           eax' \in [Slots -> Int], local' \in [Slots -> [Locals -> Int]]
    PROVE  Machine'
<1>1. currentTask \in Slots
  BY Running
<1>2. pc' \in [Slots -> Nat]
  BY <1>1 DEF Goto, Machine
<1>3. ASSUME NEW i \in Slots PROVE pc'[i] \in DOMAIN Code[code[i]]
  BY <1>1, <1>3 DEF Goto, Machine
<1> QED BY <1>2, <1>3 DEF Machine

\* Most steps go on with the next instruction.
LEMMA ForthMachine ==
    ASSUME Typed, Machine, InUser, Instr(currentTask).op \notin {"spin", "return"},
           Forth, UNCHANGED <<code, base>>,
           eax' \in [Slots -> Int], local' \in [Slots -> [Locals -> Int]]
    PROVE  Machine'
<1> DEFINE k == pc[currentTask] + 1
<1>1. k \in DOMAIN Code[code[currentTask]] /\ k \in Nat
  BY Running, NextOp
<1>2. Goto(k)
  BY DEF Forth
<1> HIDE DEF k
<1> QED BY <1>1, <1>2, MoveMachine

\* A local variable keeps an integer.
LEMMA WriteLocal ==
    ASSUME Typed, Machine, InUser, Instr(currentTask).var \in Locals,
           NEW v \in Int, SetVariable(v)
    PROVE  local' \in [Slots -> [Locals -> Int]]
<1>1. currentTask \in Slots /\ base[currentTask] \in Slots
  BY Running DEF Machine
<1>2. local[base[currentTask]] \in [Locals -> Int]
  BY <1>1 DEF Machine
<1> QED BY <1>1, <1>2 DEF SetVariable, Machine

LEMMA ReadLocal ==
    ASSUME Typed, Machine, InUser, Instr(currentTask).var \in Locals
    PROVE  Variable \in Int
<1>1. currentTask \in Slots /\ base[currentTask] \in Slots
  BY Running DEF Machine
<1>2. local[base[currentTask]] \in [Locals -> Int]
  BY <1>1 DEF Machine
<1> QED BY <1>2 DEF Variable

\* fork copies the registers of the parent to the new process.
LEMMA ForkMachine == Typed /\ Machine /\ sysfork => Machine'
<1> SUFFICES ASSUME Typed, Machine, sysfork PROVE Machine'
  OBVIOUS
<1>1. InUser /\ Instr(currentTask).op = "fork"
  BY DEF sysfork, At
<1>2. CASE TableFull
  BY <1>1, <1>2, ForthMachine DEF sysfork, Machine
<1>3. CASE ~TableFull
  <2> DEFINE c == Code[code[currentTask]]
             k == pc[currentTask] + 1
  <2>1. /\ currentTask \in Slots /\ code[currentTask] \in DOMAIN Code
        /\ k \in DOMAIN c /\ k \in Nat
    BY <1>1, Running, NextOp
  <2>2. numTasks \in Slots
    BY <1>3, TableAssumption DEF TableFull, Typed, TypeOK, Slots
  <2>3. /\ pc' = [pc EXCEPT ![currentTask] = k, ![numTasks] = k]
        /\ code' = [code EXCEPT ![numTasks] = code[currentTask]]
        /\ base' = [base EXCEPT ![numTasks] = base[currentTask]]
        /\ UNCHANGED <<eax, local>>
    BY <1>3, <2>1 DEF sysfork, Machine
  <2> HIDE DEF k
  <2>4. /\ pc' \in [Slots -> Nat] /\ code' \in [Slots -> DOMAIN Code]
        /\ base' \in [Slots -> Slots]
    BY <2>1, <2>2, <2>3 DEF Machine
  <2>5. ASSUME NEW i \in Slots PROVE pc'[i] \in DOMAIN Code[code'[i]]
    <3>1. CASE i = numTasks
      BY <2>1, <2>2, <2>3, <3>1 DEF Machine
    <3>2. CASE i # numTasks /\ i = currentTask
      BY <2>1, <2>2, <2>3, <3>2 DEF Machine
    <3>3. CASE i # numTasks /\ i # currentTask
      BY <2>1, <2>2, <2>3, <3>3 DEF Machine
    <3> QED BY <3>1, <3>2, <3>3
  <2> QED BY <2>3, <2>4, <2>5 DEF Machine
<1> QED BY <1>2, <1>3

LEMMA ExecMachine == Typed /\ Machine /\ sysexecve => Machine'
<1> SUFFICES ASSUME Typed, Machine, sysexecve PROVE Machine'
  OBVIOUS
<1> DEFINE f == Instr(currentTask).arg
<1>1. InUser /\ Instr(currentTask).op = "exec"
  BY DEF sysexecve, At
<1>2. currentTask \in Slots /\ f \in {"worker", "forever"}
  BY <1>1, Running DEF Operands
<1>3. f \in DOMAIN Code /\ 1 \in DOMAIN Code[f]
  <2>1. "worker" \in DOMAIN Code /\ "forever" \in DOMAIN Code
    BY DEF Code
  <2> QED BY <1>2, <2>1, CodeStart
<1>4. /\ code' = [code EXCEPT ![currentTask] = f]
      /\ pc' = [pc EXCEPT ![currentTask] = 1]
      /\ base' = [base EXCEPT ![currentTask] = currentTask]
      /\ UNCHANGED <<eax, local>>
  BY DEF sysexecve, Goto
<1> HIDE DEF f
<1>5. /\ pc' \in [Slots -> Nat] /\ code' \in [Slots -> DOMAIN Code]
      /\ base' \in [Slots -> Slots]
  BY <1>2, <1>3, <1>4 DEF Machine
<1>6. ASSUME NEW i \in Slots PROVE pc'[i] \in DOMAIN Code[code'[i]]
  BY <1>2, <1>3, <1>4, <1>6 DEF Machine
<1> QED BY <1>4, <1>5, <1>6 DEF Machine

\* An ended jump is at an instruction of the program.
LEMMA BranchMachine == Typed /\ Machine /\ Branch => Machine'
<1> SUFFICES ASSUME Typed, Machine, Branch PROVE Machine'
  OBVIOUS
<1> DEFINE c == Code[code[currentTask]]
           k == pc[currentTask]
<1>1. /\ UNCHANGED <<code, eax, base, local>> /\ InUser
      /\ eax' \in [Slots -> Int] /\ local' \in [Slots -> [Locals -> Int]]
  BY DEF Branch, Machine, At
<1>2. /\ Instr(currentTask) = c[k] /\ k \in DOMAIN c /\ Program(c) /\ Operands(c[k])
  BY <1>1, Running
<1>3. k \in Nat /\ (c[k].op \notin {"spin", "return"} => k + 1 \in DOMAIN c)
  BY <1>2, NextOp, Targets
<1>4. c[k].op \in {"ifchild", "jump"} => c[k].skip \in Nat /\ k + 1 + c[k].skip \in DOMAIN c
  BY <1>2, Targets
<1>5. c[k].op = "less" => c[k].back \in Nat /\ k - c[k].back \in DOMAIN c
  BY <1>2, Targets DEF Operands
<1>6. DOMAIN c \subseteq Nat
  BY <1>2 DEF Program, Piece
<1>7. \E t \in DOMAIN c : Goto(t)
  <2>1. CASE At("ifchild")
               /\ Goto(k + 1 + IF ChildBranch THEN 0 ELSE Instr(currentTask).skip)
    <3>1. c[k].op = "ifchild"
      BY <1>2, <2>1 DEF At
    <3>2. CASE ChildBranch
      <4>1. k + 1 + 0 = k + 1
        BY <1>3
      <4> QED BY <1>3, <2>1, <3>1, <3>2, <4>1
    <3>3. CASE ~ChildBranch
      BY <1>2, <1>4, <2>1, <3>1, <3>3
    <3> QED BY <3>2, <3>3
  <2>2. CASE At("jump") /\ Goto(k + 1 + Instr(currentTask).skip)
    BY <1>2, <1>4, <2>2 DEF At
  <2>3. CASE At("less")
               /\ Goto(IF Variable < Rounds THEN k - Instr(currentTask).back ELSE k + 1)
    <3>1. c[k].op = "less"
      BY <1>2, <2>3 DEF At
    <3> QED BY <1>2, <1>3, <1>5, <2>3, <3>1
  <2>4. CASE At("until") /\ Forth
    BY <1>2, <1>3, <2>4 DEF At, Forth
  <2> QED BY <2>1, <2>2, <2>3, <2>4 DEF Branch
<1>8. PICK t \in DOMAIN c : Goto(t)
  BY <1>7
<1> QED BY <1>1, <1>6, <1>8, MoveMachine

\* Every step of the programs is one of the task manager: waitpid is called with a pid
\* of the table, or returns at once.
LEMMA StepMachine ==
    Typed /\ Machine /\ [ProgramNext]_allVars => Machine' /\ [Next]_vars
<1> SUFFICES ASSUME Typed, Machine, [ProgramNext]_allVars PROVE Machine' /\ [Next]_vars
  OBVIOUS
<1> USE EnvironmentAssumption
<1> DEFINE cur == currentTask
<1>1. ASSUME NEW name, At(name)
      PROVE  /\ InUser /\ Instr(cur).op = name /\ Operands(Instr(cur)) /\ cur \in Slots
             /\ pid[cur] = cur
  <2>1. InUser /\ Instr(cur).op = name
    BY <1>1 DEF At
  <2> QED BY <2>1, Running
<1>2. /\ eax \in [Slots -> Int] /\ local \in [Slots -> [Locals -> Int]]
  BY DEF Machine
<1>3. CASE Boot \/ Timer \/ UNCHANGED allVars
  <2>1. UNCHANGED registers
    BY <1>3 DEF Boot, Timer, allVars
  <2>2. Machine'
    BY <2>1 DEF registers, Machine
  <2> QED BY <1>3, <2>2 DEF Boot, Timer, allVars, Next
<1>4. CASE sysfork
  BY <1>4, ForkMachine DEF sysfork, Next
<1>5. CASE sysfork_return
  <2>1. eax' \in [Slots -> Int]
    <3>1. cur \in Slots /\ eax_value[cur] \in Int
      BY <1>1, <1>5, IntBounds DEF sysfork_return, Typed, TypeOK, Int32
    <3> QED BY <1>2, <1>5, <3>1 DEF sysfork_return
  <2> QED BY <1>1, <1>2, <1>5, <2>1, ForthMachine DEF sysfork_return
<1>6. CASE waitpid_call
  <2>1. Machine'
    BY <1>1, <1>2, <1>6, ForthMachine DEF waitpid_call, SystemCall
  <2>2. ~WaitpidReturns(eax[cur]) => eax[cur] \in Slots
    <3>1. \A v : (\A i \in Tasks : pid[i] # v) => findTaskByPID(v) = -1
      BY DEF findTaskByPID
    <3>2. \A i \in Tasks : pid[i] = i /\ i \in Slots
      BY TasksAreSlots DEF Typed, ProcessTree
    <3> QED BY <3>1, <3>2 DEF WaitpidReturns
  <2> QED BY <1>6, <2>1, <2>2 DEF waitpid_call, Next
<1>7. CASE sysexit
  BY <1>1, <1>2, <1>7, ForthMachine DEF sysexit, SystemCall, Next
<1>8. CASE sysexecve
  BY <1>8, ExecMachine DEF sysexecve, Next
<1>9. CASE set_priority
  <2>1. Instr(cur).arg \in Priorities
    BY <1>1, <1>9 DEF set_priority, Operands
  <2> QED BY <1>1, <1>2, <1>9, <2>1, ForthMachine DEF set_priority, SystemCall, Next
<1>10. CASE set_aging
  <2>1. pid[cur] \in AgingPids
    BY <1>1, <1>10 DEF set_aging
  <2> QED BY <1>1, <1>2, <1>10, <2>1, ForthMachine DEF set_aging, SystemCall, Next
<1>11. CASE WaitWarmUp
  BY <1>1, <1>2, <1>11, ForthMachine DEF WaitWarmUp, SystemCall
<1>12. CASE Write
  <2>1. /\ InUser /\ Instr(cur).op \in {"store", "zero", "inc"} /\ Instr(cur).var \in Locals
        /\ cur \in Slots
    BY <1>1, <1>12 DEF Write, Store, Zero, Inc, Operands
  <2>2. \E v \in Int : SetVariable(v)
    BY <1>2, <1>12, <2>1, ReadLocal DEF Write, Store, Zero, Inc
  <2>3. local' \in [Slots -> [Locals -> Int]]
    BY <2>1, <2>2, WriteLocal
  <2> QED BY <1>2, <1>12, <2>1, <2>3, ForthMachine DEF Write
<1>13. CASE LoadLocal
  <2>1. /\ InUser /\ Instr(cur).op = "load" /\ Instr(cur).var \in Locals /\ cur \in Slots
    BY <1>1, <1>13 DEF LoadLocal, Operands
  <2>2. eax' \in [Slots -> Int]
    BY <1>2, <1>13, <2>1, ReadLocal DEF LoadLocal
  <2> QED BY <1>2, <1>13, <2>1, <2>2, ForthMachine DEF LoadLocal
<1>14. CASE Branch
  BY <1>14, BranchMachine DEF Branch
<1> QED
  BY <1>3, <1>4, <1>5, <1>6, <1>7, <1>8, <1>9, <1>10, <1>11, <1>12, <1>13, <1>14
  DEF ProgramNext, Step

\* The programs run inside the task manager: what is proved of every use of it holds
\* while they run, wherever the timer strikes.
THEOREM ProgramsImplement == ProgramSpec => Spec
<1>1. ProgramInit => Init /\ Typed /\ Machine
  BY InitTyped, StartMachine DEF ProgramInit
<1>2. Typed /\ Machine /\ [ProgramNext]_allVars => Typed' /\ Machine' /\ [Next]_vars
  BY StepMachine, NextTyped
<1> QED BY <1>1, <1>2, PTL DEF ProgramSpec, Spec

-----------------------------------------------------------------------------
(* The timer does not strike while pid is in use.                           *)

\* What fork leaves for a process that has forked or was forked: -1, its child, or 0 for
\* a child, and never 0 for the first process.
Forked(i) ==
    \/ eax_value[i] = -1
    \/ \E c \in Tasks : ppid[c] = i /\ eax_value[i] = c
    \/ i # 0 /\ eax_value[i] = 0

\* A process that stands at an instruction which depends on the one before it has the
\* result of that one: the answer of fork in eax or in the local, the parent with a
\* child to wait for, the worker that has exited.  Only the current one uses the local,
\* which others share.
Here(i) ==
    LET ins == Instr(i) IN
    /\ ins.op \in {"store", "ifchild", "load"} => i = currentTask
    /\ ins.op \in {"get", "store", "ifchild", "load", "wait"} => Forked(i)
    /\ ins.op = "store" => eax[i] = eax_value[i]
    /\ ins.op = "ifchild" => local[base[i]][ins.var] = eax_value[i]
    /\ ins.op = "load" => local[base[i]][ins.var] = eax_value[i] /\ eax_value[i] # 0
    /\ ins.op = "wait" => eax[i] = eax_value[i] /\ eax_value[i] # 0
    /\ ins.op = "return" => i \in exited

\* The first process is never in the code of a child, and only forktask_4 lets it exit.
FirstStays ==
    /\ code[0] # "worker"
    /\ code[0] # "forktask_4" => ~InChild(Code[code[0]], pc[0])
    /\ code[0] = "forktask_4" => \A i \in Slots : code[i] = "forktask_4"

\* Who is in waitpid waits for a child of its own.
WaitsForChild ==
    \A i \in Slots : frame[i] = "waitpid" => target[i] \in Tasks /\ ppid[target[i]] = i

\* In forktask_4, whose first process exits, nobody waits.
NobodyWaits == code[0] = "forktask_4" => \A i \in Slots : frame[i] # "waitpid"

\* The invariant of the programs, and with it, if the first process does not exit, the
\* invariant of disciplined programs.
ProgramInv ==
    /\ Machine /\ FirstStays /\ WaitsForChild /\ NobodyWaits
    /\ \A i \in Slots : Here(i)
    /\ code[0] # "forktask_4" => DisciplinedInv

\* Processes stay in the table with their parents, and exits are not undone.
LEMMA TasksStay ==
    ASSUME Typed, [Next]_vars
    PROVE  /\ Tasks \subseteq Tasks' /\ exited \subseteq exited'
           /\ \A i \in Tasks : ppid'[i] = ppid[i]
<1>1. CASE AddTask \/ ForkChild
  <2>1. PICK q : NewTask(q)
    BY <1>1 DEF AddTask, ForkChild
  <2>2. numTasks \in Nat /\ numTasks' = numTasks + 1 /\ ppid' = [ppid EXCEPT ![numTasks] = q]
    BY <2>1 DEF NewTask, Typed, TypeOK
  <2>3. Tasks \subseteq Tasks' /\ \A i \in Tasks : i # numTasks
    BY <2>2 DEF Tasks
  <2>4. \A i \in Tasks : ppid'[i] = ppid[i]
    BY <2>2, <2>3, TasksAreSlots DEF Typed, TypeOK
  <2> QED BY <1>1, <2>3, <2>4 DEF AddTask, ForkChild
<1>2. CASE UNCHANGED <<numTasks, ppid>> /\ exited \subseteq exited'
  BY <1>2 DEF Tasks
<1>3. CASE exit
  BY <1>2, <1>3 DEF exit, identity
<1> QED
  BY <1>1, <1>2, <1>3
  DEF Next, vars, identity, Activate, Tick, Fork, ForkFull, waitpid, execve,
      setCurrenttaskPriority, setAgingPid, setCurrenttaskState

LEMMA ForkedStays ==
    ASSUME Typed, [Next]_vars, NEW i, eax_value'[i] = eax_value[i], Forked(i)
    PROVE  Forked(i)'
  BY TasksStay DEF Forked

\* An instruction that depends on nothing asks nothing of its process.
LEMMA HereIdle ==
    ASSUME NEW i, Instr(i)'.op \notin Dependent
    PROVE  Here(i)'
  BY DEF Here, Dependent

\* A process that does not move and does not use the shared local keeps what it has.
LEMMA HereStays ==
    ASSUME Typed, [Next]_vars, NEW i \in Slots, Here(i),
           Instr(i).op \notin {"store", "ifchild", "load"},
           code'[i] = code[i], pc'[i] = pc[i], eax'[i] = eax[i], eax_value'[i] = eax_value[i]
    PROVE  Here(i)'
<1>1. Instr(i)' = Instr(i)
  BY DEF Instr
<1>2. Forked(i) => Forked(i)'
  BY ForkedStays
<1>3. exited \subseteq exited'
  BY TasksStay
<1> QED BY <1>1, <1>2, <1>3 DEF Here

\* The next instruction is in a child's code only if this one is or tests for a child.
LEMMA InChildNext ==
    ASSUME NEW c, Program(c), NEW k \in DOMAIN c, c[k].op # "ifchild", InChild(c, k + 1)
    PROVE  InChild(c, k)
<1>1. DOMAIN c \subseteq Nat
  BY DEF Program, Piece
<1>2. PICK a \in DOMAIN c : c[a].op = "ifchild" /\ a < k + 1 /\ k + 1 <= a + c[a].skip
  BY DEF InChild
<1>3. a \in Nat /\ k \in Nat /\ c[a].skip \in Nat
  BY <1>1, <1>2, Targets
<1>4. a < k /\ k <= a + c[a].skip
  <2>1. a # k
    BY <1>2
  <2> QED BY <1>2, <1>3, <2>1
<1> QED BY <1>2, <1>4 DEF InChild

\* A step of the current process inside its code.
LEMMA Moves ==
    ASSUME Typed, ProgramInv, [Next]_vars, NEW cur \in Slots, cur = currentTask,
           NEW k, Goto(k), UNCHANGED <<code, eax_value>>,
           \A i \in Slots \ {cur} : eax'[i] = eax[i],
           Code[code[cur]][k].op \in Dependent => Here(cur)',
           cur = 0 /\ InChild(Code[code[cur]], k) => InChild(Code[code[cur]], pc[cur])
    PROVE  FirstStays' /\ \A i \in Slots : Here(i)'
<1>1. pc'[cur] = k /\ \A i \in Slots \ {cur} : pc'[i] = pc[i]
  BY DEF Goto, ProgramInv, Machine
<1>2. Here(cur)'
  <2>1. Instr(cur)' = Code[code[cur]][k]
    BY <1>1 DEF Instr
  <2> QED BY <2>1, HereIdle
<1>3. ASSUME NEW i \in Slots \ {cur} PROVE Here(i)'
  <2>1. Here(i) /\ Instr(i).op \notin {"store", "ifchild", "load"}
    BY DEF ProgramInv, Here
  <2> QED BY <1>1, <2>1, HereStays
<1>4. FirstStays'
  <2>1. 0 \in Slots
    BY TableAssumption DEF Slots
  <2> QED BY <1>1, <2>1 DEF ProgramInv, FirstStays
<1> QED BY <1>2, <1>3, <1>4

\* A step to the next instruction.
LEMMA MovesForth ==
    ASSUME Typed, ProgramInv, [Next]_vars, InUser, NEW cur \in Slots, cur = currentTask,
           Forth, UNCHANGED <<code, eax_value>>,
           \A i \in Slots \ {cur} : eax'[i] = eax[i],
           Instr(cur).op \notin {"spin", "return", "ifchild"},
           Code[code[cur]][pc[cur] + 1].op \in Dependent => Here(cur)'
    PROVE  FirstStays' /\ \A i \in Slots : Here(i)'
<1> DEFINE c == Code[code[cur]]
           k == pc[cur]
<1>1. Program(c) /\ k \in DOMAIN c /\ Instr(cur) = c[k]
  BY Running DEF ProgramInv
<1>2. InChild(c, k + 1) => InChild(c, k)
  BY <1>1, InChildNext
<1>3. Goto(k + 1)
  BY DEF Forth
<1> QED BY <1>2, <1>3, Moves

\* The steps whose next instruction depends on nothing.
LEMMA CallHere ==
    ASSUME Typed, ProgramInv, [Next]_vars,
           waitpid_call \/ set_priority \/ set_aging \/ WaitWarmUp
               \/ ((Zero \/ Inc) /\ Forth /\ UNCHANGED <<vars, code, eax, base>>)
    PROVE  FirstStays' /\ \A i \in Slots : Here(i)'
<1> PICK cur : cur = currentTask
  OBVIOUS
<1>1. /\ InUser /\ Instr(cur).op \in {"wait", "priority", "aging", "warmup", "zero", "inc"}
      /\ Forth /\ UNCHANGED <<code, eax, eax_value>>
  BY DEF waitpid_call, set_priority, set_aging, WaitWarmUp, Zero, Inc, At, SystemCall, waitpid,
         setCurrenttaskPriority, setAgingPid, vars
<1> DEFINE c == Code[code[cur]]
           k == pc[cur]
<1>2. Program(c) /\ k \in DOMAIN c /\ Instr(cur) = c[k] /\ cur \in Slots
  BY <1>1, Running DEF ProgramInv
<1>3. c[k + 1].op \notin Dependent
  BY <1>1, <1>2, NextOp
<1> QED BY <1>1, <1>2, <1>3, MovesForth

\* A worker goes behind its sysexit only when it has exited.
LEMMA ExitHere ==
    ASSUME Typed, ProgramInv, [Next]_vars, sysexit
    PROVE  FirstStays' /\ \A i \in Slots : Here(i)'
<1> PICK cur : cur = currentTask
  OBVIOUS
<1>1. /\ InUser /\ Instr(cur).op = "exit" /\ Forth /\ UNCHANGED <<code, eax, eax_value>>
      /\ cur \in exited'
  BY DEF sysexit, At, SystemCall, exit
<1> DEFINE c == Code[code[cur]]
           k == pc[cur]
<1>2. Program(c) /\ k \in DOMAIN c /\ Instr(cur) = c[k] /\ cur \in Slots
  BY <1>1, Running DEF ProgramInv
<1>3. c[k + 1].op \in Dependent => c[k + 1].op = "return"
  BY <1>1, <1>2, NextOp
<1>4. Instr(cur)' = c[k + 1]
  BY <1>1, <1>2 DEF Instr, Forth, Goto, ProgramInv, Machine
<1>5. c[k + 1].op = "return" => Here(cur)'
  BY <1>1, <1>4 DEF Here
<1> QED BY <1>1, <1>2, <1>3, <1>5, MovesForth

\* sysfork_return fetches the answer of fork.
LEMMA GetHere ==
    ASSUME Typed, ProgramInv, [Next]_vars, sysfork_return
    PROVE  FirstStays' /\ \A i \in Slots : Here(i)'
<1> PICK cur : cur = currentTask
  OBVIOUS
<1>1. /\ InUser /\ Instr(cur).op = "get" /\ Forth /\ UNCHANGED <<code, eax_value, currentTask>>
      /\ eax' = [eax EXCEPT ![cur] = eax_value[cur]]
  BY DEF sysfork_return, At, vars
<1> DEFINE c == Code[code[cur]]
           k == pc[cur]
<1>2. Program(c) /\ k \in DOMAIN c /\ Instr(cur) = c[k] /\ cur \in Slots
  BY <1>1, Running DEF ProgramInv
<1>3. c[k + 1].op \in Dependent => c[k + 1].op = "store"
  BY <1>1, <1>2, NextOp
<1>4. Instr(cur)' = c[k + 1]
  BY <1>1, <1>2 DEF Instr, Forth, Goto, ProgramInv, Machine
<1>5. eax'[cur] = eax_value'[cur] /\ \A i \in Slots \ {cur} : eax'[i] = eax[i]
  BY <1>1, <1>2 DEF ProgramInv, Machine
<1>6. Forked(cur)'
  BY <1>1, <1>2, ForkedStays DEF ProgramInv, Here
<1>7. c[k + 1].op = "store" => Here(cur)'
  BY <1>1, <1>4, <1>5, <1>6 DEF Here
<1> QED BY <1>1, <1>2, <1>3, <1>5, <1>7, MovesForth

\* The answer is put into the local, where only this process is looking.
LEMMA StoreHere ==
    ASSUME Typed, ProgramInv, [Next]_vars, Store, Forth, UNCHANGED <<vars, code, eax, base>>
    PROVE  FirstStays' /\ \A i \in Slots : Here(i)'
<1> PICK cur : cur = currentTask
  OBVIOUS
<1>1. /\ InUser /\ Instr(cur).op = "store" /\ UNCHANGED <<eax_value, currentTask>>
      /\ local' = [local EXCEPT ![base[cur]][Instr(cur).var] = eax[cur]]
  BY DEF Store, SetVariable, At, vars
<1> DEFINE c == Code[code[cur]]
           k == pc[cur]
<1>2. /\ Program(c) /\ k \in DOMAIN c /\ Instr(cur) = c[k] /\ cur \in Slots
      /\ Instr(cur).var \in Locals
  BY <1>1, Running DEF ProgramInv, Operands
<1>3. c[k + 1].op \in Dependent => c[k + 1].op = "ifchild" /\ c[k + 1].var = Instr(cur).var
  BY <1>1, <1>2, NextOp
<1>4. Instr(cur)' = c[k + 1]
  BY <1>1, <1>2 DEF Instr, Forth, Goto, ProgramInv, Machine
<1>5. local'[base[cur]][Instr(cur).var] = eax[cur]
  <2>1. base[cur] \in Slots /\ local[base[cur]] \in [Locals -> Int]
    BY <1>2 DEF ProgramInv, Machine
  <2> QED BY <1>1, <1>2, <2>1 DEF ProgramInv, Machine
<1>6. Forked(cur)' /\ eax[cur] = eax_value[cur]
  BY <1>1, <1>2, ForkedStays DEF ProgramInv, Here
<1>7. c[k + 1].op = "ifchild" /\ c[k + 1].var = Instr(cur).var => Here(cur)'
  BY <1>1, <1>4, <1>5, <1>6 DEF Here
<1> QED BY <1>1, <1>2, <1>3, <1>7, MovesForth

\* The parent takes the pid of its child out of the local.
LEMMA LoadHere ==
    ASSUME Typed, ProgramInv, [Next]_vars, LoadLocal
    PROVE  FirstStays' /\ \A i \in Slots : Here(i)'
<1> PICK cur : cur = currentTask
  OBVIOUS
<1>1. /\ InUser /\ Instr(cur).op = "load" /\ Forth /\ UNCHANGED <<code, eax_value, currentTask>>
      /\ eax' = [eax EXCEPT ![cur] = local[base[cur]][Instr(cur).var]]
  BY DEF LoadLocal, Variable, At, vars
<1> DEFINE c == Code[code[cur]]
           k == pc[cur]
<1>2. Program(c) /\ k \in DOMAIN c /\ Instr(cur) = c[k] /\ cur \in Slots
  BY <1>1, Running DEF ProgramInv
<1>3. c[k + 1].op \in Dependent => c[k + 1].op = "wait"
  BY <1>1, <1>2, NextOp
<1>4. Instr(cur)' = c[k + 1]
  BY <1>1, <1>2 DEF Instr, Forth, Goto, ProgramInv, Machine
<1>5. /\ eax'[cur] = local[base[cur]][Instr(cur).var]
      /\ \A i \in Slots \ {cur} : eax'[i] = eax[i]
  BY <1>1, <1>2 DEF ProgramInv, Machine
<1>6. Forked(cur)' /\ local[base[cur]][Instr(cur).var] = eax_value[cur] /\ eax_value[cur] # 0
  BY <1>1, <1>2, ForkedStays DEF ProgramInv, Here
<1>7. c[k + 1].op = "wait" => Here(cur)'
  BY <1>1, <1>4, <1>5, <1>6 DEF Here
<1> QED BY <1>1, <1>2, <1>3, <1>5, <1>7, MovesForth

\* fork never tells the first process that it is a child.
LEMMA FirstIsParent == ASSUME Typed, Forked(0) PROVE eax_value[0] # 0
<1> SUFFICES ASSUME eax_value[0] = 0 PROVE FALSE
  OBVIOUS
<1>1. 0 \in Tasks /\ ppid[0] = 0
  BY DEF Forked
<1>2. ppid[0] \in -1 .. 0 - 1
  BY <1>1 DEF Typed, ProcessTree
<1> QED BY <1>1, <1>2

\* The test decides by what fork told this process, and so the first one stays out of
\* the child's code.
LEMMA TestHere ==
    ASSUME Typed, ProgramInv, [Next]_vars, At("ifchild"),
           Goto(pc[currentTask] + 1 + IF ChildBranch THEN 0 ELSE Instr(currentTask).skip),
           UNCHANGED <<vars, code, eax, base, local>>
    PROVE  FirstStays' /\ \A i \in Slots : Here(i)'
<1> PICK cur : cur = currentTask
  OBVIOUS
<1> DEFINE c == Code[code[cur]]
           k == pc[cur]
           t == k + 1 + c[k].skip
<1>1. InUser /\ Instr(cur).op = "ifchild" /\ UNCHANGED <<eax_value, currentTask>>
  BY DEF At, vars
<1>2. Program(c) /\ k \in DOMAIN c /\ Instr(cur) = c[k] /\ cur \in Slots
  BY <1>1, Running DEF ProgramInv
<1>3. /\ k \in Nat /\ c[k].skip \in Nat /\ c[k + 1].op \notin Dependent
      /\ ~InChild(c, t)
      /\ c[t].op \notin Dependent \/ (c[t].op = "load" /\ c[t].var = c[k].var)
  BY <1>1, <1>2, NextOp, Targets
<1>4. Here(cur) /\ Forked(cur) /\ (ChildBranch <=> eax_value[cur] = 0)
  BY <1>1, <1>2 DEF ProgramInv, Here, ChildBranch, Variable
<1>5. Forked(cur)'
  BY <1>1, <1>2, <1>4, ForkedStays
<1>6. CASE ChildBranch
  <2>1. Goto(k + 1)
    <3>1. k + 1 + 0 = k + 1
      BY <1>3
    <3> QED BY <1>6, <3>1
  <2>2. cur # 0
    BY <1>4, <1>6, FirstIsParent
  <2> QED BY <1>1, <1>2, <1>3, <2>1, <2>2, Moves
<1>7. CASE ~ChildBranch
  <2>1. Goto(t)
    BY <1>2, <1>7
  <2>2. Instr(cur)' = c[t]
    BY <1>2, <2>1 DEF Instr, Goto, ProgramInv, Machine
  <2> HIDE DEF t
  <2>3. c[t].op \in Dependent => Here(cur)'
    <3>1. c[t].op = "load" /\ c[t].var = c[k].var => Here(cur)'
      BY <1>1, <1>2, <1>4, <1>5, <1>7, <2>2 DEF Here
    <3> QED BY <1>3, <3>1
  <2> QED BY <1>1, <1>2, <1>3, <2>1, <2>3, Moves
<1> QED BY <1>6, <1>7

LEMMA BranchHere ==
    ASSUME Typed, ProgramInv, [Next]_vars, Branch
    PROVE  FirstStays' /\ \A i \in Slots : Here(i)'
<1> PICK cur : cur = currentTask
  OBVIOUS
<1> DEFINE c == Code[code[cur]]
           k == pc[cur]
<1>1. UNCHANGED <<vars, code, eax, base, local, eax_value>>
  BY DEF Branch, vars
<1>2. ASSUME NEW name, At(name)
      PROVE  /\ InUser /\ c[k].op = name /\ Instr(cur) = c[k]
             /\ Program(c) /\ k \in DOMAIN c /\ cur \in Slots
  <2>1. InUser /\ Instr(cur).op = name
    BY <1>2 DEF At
  <2> QED BY <2>1, Running DEF ProgramInv
<1>3. CASE At("ifchild")
             /\ Goto(k + 1 + IF ChildBranch THEN 0 ELSE Instr(currentTask).skip)
  BY <1>1, <1>3, TestHere
<1>4. CASE At("jump") /\ Goto(k + 1 + Instr(cur).skip)
  <2>1. /\ c[k].op = "jump" /\ Instr(cur) = c[k] /\ Program(c) /\ k \in DOMAIN c
        /\ cur \in Slots
    BY <1>2, <1>4
  <2>2. InChild(c, k) /\ c[k + 1 + c[k].skip].op \notin Dependent
    BY <2>1, Targets
  <2> QED BY <1>1, <1>4, <2>1, <2>2, Moves
<1>5. CASE At("less") /\ Goto(IF Variable < Rounds THEN k - Instr(cur).back ELSE k + 1)
  <2>1. /\ c[k].op = "less" /\ Instr(cur) = c[k] /\ Program(c) /\ k \in DOMAIN c
        /\ cur \in Slots /\ InUser
    BY <1>2, <1>5
  <2>2. c[k - c[k].back].op \notin Dependent /\ ~InChild(c, k - c[k].back)
    BY <2>1, Targets
  <2>3. c[k + 1].op \notin Dependent /\ (InChild(c, k + 1) => InChild(c, k))
    BY <2>1, NextOp, InChildNext
  <2>4. CASE Variable < Rounds
    BY <1>1, <1>5, <2>1, <2>2, <2>4, Moves
  <2>5. CASE ~(Variable < Rounds)
    BY <1>1, <1>5, <2>1, <2>3, <2>5, Moves
  <2> QED BY <2>4, <2>5
<1>6. CASE At("until") /\ Forth
  <2>1. /\ c[k].op = "until" /\ Instr(cur) = c[k] /\ Program(c) /\ k \in DOMAIN c
        /\ cur \in Slots /\ InUser
    BY <1>2, <1>6
  <2>2. c[k + 1].op \notin Dependent
    BY <2>1, NextOp
  <2> QED BY <1>1, <1>6, <2>1, <2>2, MovesForth
<1> QED BY <1>3, <1>4, <1>5, <1>6 DEF Branch

\* Without Preempt the timer leaves a process that uses pid alone.
LEMMA TimerHere ==
    ASSUME ~Preempt, Typed, ProgramInv, [Next]_vars, Timer
    PROVE  FirstStays' /\ \A i \in Slots : Here(i)'
<1>1. UNCHANGED <<code, pc, eax, eax_value>>
  BY DEF Timer, Tick, registers
<1>2. FirstStays'
  BY <1>1 DEF ProgramInv, FirstStays
<1>3. ASSUME NEW i \in Slots PROVE Instr(i).op \notin {"store", "ifchild", "load"}
  <2> SUFFICES ASSUME Instr(i).op \in {"store", "ifchild", "load"} PROVE FALSE
    OBVIOUS
  <2>1. i = currentTask
    BY DEF ProgramInv, Here
  <2>2. InUser
    BY <2>1 DEF InUser, Timer, Tick, Slots
  <2> QED BY <2>1, <2>2 DEF Timer, UsesPid, At
<1>4. ASSUME NEW i \in Slots PROVE Here(i)'
  BY <1>1, <1>3, HereStays DEF ProgramInv
<1> QED BY <1>2, <1>4

LEMMA BootHere ==
    ASSUME Typed, ProgramInv, [Next]_vars, Boot \/ UNCHANGED allVars
    PROVE  FirstStays' /\ \A i \in Slots : Here(i)'
<1>1. UNCHANGED <<code, pc, eax, base, local, eax_value, currentTask>>
  BY DEF Boot, AddTask, Activate, registers, allVars, vars
<1>2. FirstStays'
  BY <1>1 DEF ProgramInv, FirstStays
<1>3. ASSUME NEW i \in Slots PROVE Here(i)'
  <2>1. Instr(i)' = Instr(i)
    BY <1>1 DEF Instr
  <2>2. Forked(i) => Forked(i)'
    BY <1>1, ForkedStays
  <2>3. exited \subseteq exited'
    BY TasksStay
  <2> QED BY <1>1, <2>1, <2>2, <2>3 DEF ProgramInv, Here
<1> QED BY <1>2, <1>3

\* The first process executes no other program, and exits in forktask_4 only, which
\* never waits.
LEMMA FirstIsLoyal ==
    ASSUME ProgramInv, NEW i \in Slots
    PROVE  /\ Instr(i).op = "exec" => i # 0 /\ code[0] # "forktask_4"
           /\ Instr(i).op = "exit" => i # 0 \/ code[0] = "forktask_4"
           /\ Instr(i).op \in {"return", "wait"} => code[0] # "forktask_4"
<1>1. 0 \in Slots
  BY TableAssumption DEF Slots
<1>2. \A j \in Slots : code[j] \in DOMAIN Code /\ pc[j] \in DOMAIN Code[code[j]]
  BY DEF ProgramInv, Machine
<1>3. Instr(i).op \in {"exec", "return", "wait"} => code[0] # "forktask_4"
  <2>1. Code["forktask_4"] = forktask_4
    BY DEF Code
  <2> QED BY <1>2, <2>1, ForktaskFour DEF ProgramInv, FirstStays, Avoids, Instr
<1>4. Instr(0).op \in {"exit", "exec"} => code[0] = "forktask_4"
  <2> SUFFICES ASSUME Instr(0).op \in {"exit", "exec"}, code[0] # "forktask_4" PROVE FALSE
    OBVIOUS
  <2>1. Loyal(Code[code[0]]) /\ ~InChild(Code[code[0]], pc[0])
    BY <1>1, <1>2, CodeShape DEF ProgramInv, FirstStays
  <2> QED BY <1>1, <1>2, <2>1 DEF Loyal, Instr
<1> QED BY <1>3, <1>4

\* execve starts a program at its beginning.
LEMMA ExecHere ==
    ASSUME Typed, ProgramInv, [Next]_vars, sysexecve
    PROVE  FirstStays' /\ \A i \in Slots : Here(i)'
<1> PICK cur : cur = currentTask
  OBVIOUS
<1> DEFINE f == Instr(cur).arg
<1>1. /\ InUser /\ Instr(cur).op = "exec" /\ UNCHANGED <<eax, eax_value>>
      /\ code' = [code EXCEPT ![cur] = f] /\ pc' = [pc EXCEPT ![cur] = 1]
  BY DEF sysexecve, At, execve, Goto
<1>2. cur \in Slots /\ f \in {"worker", "forever"}
  BY <1>1, Running DEF ProgramInv, Operands
<1>3. Code[f][1].op \notin Dependent
  <2>1. "worker" \in DOMAIN Code /\ "forever" \in DOMAIN Code
    BY DEF Code
  <2> QED BY <1>2, <2>1, CodeStart
<1>4. cur # 0 /\ code[0] # "forktask_4" /\ 0 \in Slots
  BY <1>1, <1>2, FirstIsLoyal, TableAssumption DEF Slots
<1>5. /\ code'[cur] = f /\ pc'[cur] = 1
      /\ \A i \in Slots \ {cur} : code'[i] = code[i] /\ pc'[i] = pc[i]
  BY <1>1, <1>2 DEF ProgramInv, Machine
<1>6. FirstStays'
  BY <1>4, <1>5 DEF ProgramInv, FirstStays
<1>7. Here(cur)'
  <2>1. Instr(cur)' = Code[f][1]
    BY <1>5 DEF Instr
  <2> QED BY <1>3, <2>1, HereIdle
<1>8. ASSUME NEW i \in Slots \ {cur} PROVE Here(i)'
  <2>1. Here(i) /\ Instr(i).op \notin {"store", "ifchild", "load"}
    BY DEF ProgramInv, Here
  <2> QED BY <1>1, <1>5, <2>1, HereStays
<1> QED BY <1>6, <1>7, <1>8

\* fork answers parent and child.
LEMMA ForkHere ==
    ASSUME Typed, Typed', ProgramInv, [Next]_vars, sysfork
    PROVE  FirstStays' /\ \A i \in Slots : Here(i)'
<1> PICK cur, new : cur = currentTask /\ new = numTasks
  OBVIOUS
<1> DEFINE c == Code[code[cur]]
           k == pc[cur]
<1>1. InUser /\ Instr(cur).op = "fork" /\ Fork /\ UNCHANGED <<eax, local>>
  BY DEF sysfork, At
<1>2. /\ Program(c) /\ k \in DOMAIN c /\ Instr(cur) = c[k] /\ cur \in Slots /\ cur \in Tasks
      /\ pid[cur] = cur
  BY <1>1, Running DEF ProgramInv
<1>3. /\ c[k + 1].op \in Dependent => c[k + 1].op = "get"
      /\ InChild(c, k + 1) => InChild(c, k)
  BY <1>1, <1>2, NextOp, InChildNext
<1>4. /\ new # 0 /\ new # cur /\ 0 \in Slots /\ (~TableFull => new \in Slots)
  BY <1>2, TableAssumption DEF Tasks, Slots, Typed, TypeOK, TableFull
<1>5. /\ pc'[cur] = k + 1 /\ code'[cur] = code[cur]
      /\ ~TableFull => pc'[new] = k + 1 /\ code'[new] = code[cur]
      /\ \A i \in Slots \ {cur} :
            TableFull \/ i # new => code'[i] = code[i] /\ pc'[i] = pc[i]
  <2>1. CASE TableFull
    BY <1>2, <2>1 DEF sysfork, Forth, Goto, ProgramInv, Machine
  <2>2. CASE ~TableFull
    <3>1. /\ pc' = [pc EXCEPT ![cur] = k + 1, ![new] = k + 1]
          /\ code' = [code EXCEPT ![new] = code[cur]]
      BY <2>2, <1>2 DEF sysfork, ProgramInv, Machine
    <3> QED BY <1>2, <1>4, <2>2, <3>1 DEF ProgramInv, Machine
  <2> QED BY <2>1, <2>2
<1>6. /\ Forked(cur)' /\ (~TableFull => Forked(new)')
      /\ \A i \in Slots \ {cur} : TableFull \/ i # new => eax_value'[i] = eax_value[i]
  <2>1. CASE ForkFull
    BY <1>2, <2>1 DEF ForkFull, Forked, Typed, TypeOK
  <2>2. CASE ForkChild
    <3>1. /\ eax_value' = [eax_value EXCEPT ![new] = 0, ![cur] = new] /\ ~TableFull
          /\ ppid' = [ppid EXCEPT ![new] = cur] /\ numTasks' = new + 1
      BY <1>2, <2>2 DEF ForkChild, ForkValues, NewTask, Typed, ProcessTree
    <3>2. new \in Tasks' /\ ppid'[new] = cur /\ eax_value'[cur] = new /\ eax_value'[new] = 0
      BY <1>2, <1>4, <3>1 DEF Tasks, Typed, TypeOK
    <3> QED BY <1>2, <1>4, <3>1, <3>2 DEF Forked, Typed, TypeOK
  <2> QED BY <1>1, <2>1, <2>2 DEF Fork
<1>7. FirstStays'
  BY <1>2, <1>3, <1>4, <1>5 DEF ProgramInv, FirstStays
<1>8. ASSUME NEW i \in Slots, Instr(i)' = c[k + 1], Forked(i)' PROVE Here(i)'
  BY <1>3, <1>8, HereIdle DEF Here
<1>9. Here(cur)' /\ (~TableFull => Here(new)')
  BY <1>2, <1>4, <1>5, <1>6, <1>8 DEF Instr
<1>10. ASSUME NEW i \in Slots \ {cur}, TableFull \/ i # new PROVE Here(i)'
  <2>1. Here(i) /\ Instr(i).op \notin {"store", "ifchild", "load"}
    BY DEF ProgramInv, Here
  <2> QED BY <1>1, <1>5, <1>6, <1>10, <2>1, HereStays
<1> QED BY <1>7, <1>9, <1>10

\* A program that calls waitpid has a child, or fork had refused.
LEMMA WaitTarget ==
    ASSUME Typed, ProgramInv, NEW i \in Slots, Instr(i).op = "wait"
    PROVE  /\ eax[i] = -1 \/ (eax[i] \in Tasks /\ ppid[eax[i]] = i)
           /\ findTaskByPID(-1) = -1
<1>1. eax[i] = -1 \/ (eax[i] \in Tasks /\ ppid[eax[i]] = i)
  BY DEF ProgramInv, Here, Forked
<1>2. findTaskByPID(-1) = -1
  <2>1. -1 \notin Tasks
    BY DEF Tasks
  <2> QED BY <2>1, FindValue DEF Typed, NoPid
<1> QED BY <1>1, <1>2

LEMMA WaitsForOwn ==
    ASSUME Typed, ProgramInv, waitpid_call
    PROVE  UNCHANGED vars \/ \E p \in Tasks : ppid[p] = currentTask /\ waitpid(p)
<1>1. InUser /\ Instr(currentTask).op = "wait"
  BY DEF waitpid_call, At
<1>2. currentTask \in Slots
  BY <1>1, Running DEF ProgramInv
<1> QED BY <1>1, <1>2, WaitTarget DEF waitpid_call, WaitpidReturns

\* The steps of the programs as the task manager sees them.
ProgramStep ==
    \/ AddTask \/ Activate \/ Tick \/ Fork \/ execve
    \/ code[0] # "forktask_4" /\ \E p \in Tasks : ppid[p] = currentTask /\ waitpid(p)
    \/ exit /\ (currentTask # 0 \/ code[0] = "forktask_4")
    \/ \E v \in ProgramPriorities : setCurrenttaskPriority(v)
    \/ \E p \in Slots : setAgingPid(p)

LEMMA ProgramSteps ==
    ASSUME Typed, ProgramInv, [ProgramNext]_allVars
    PROVE  [ProgramStep]_vars
<1>1. ASSUME NEW name, At(name)
      PROVE  /\ InUser /\ Instr(currentTask).op = name /\ Operands(Instr(currentTask))
             /\ currentTask \in Slots /\ pid[currentTask] = currentTask
  <2>1. InUser /\ Instr(currentTask).op = name
    BY <1>1 DEF At
  <2> QED BY <2>1, Running DEF ProgramInv
<1>2. CASE Boot \/ Timer \/ UNCHANGED allVars \/ sysfork \/ sysexecve
  BY <1>2 DEF Boot, Timer, allVars, sysfork, sysexecve, ProgramStep
<1>3. CASE waitpid_call
  <2>1. code[0] # "forktask_4"
    BY <1>1, <1>3, FirstIsLoyal DEF waitpid_call
  <2> QED BY <1>3, <2>1, WaitsForOwn DEF ProgramStep
<1>4. CASE sysexit
  <2>1. currentTask # 0 \/ code[0] = "forktask_4"
    BY <1>1, <1>4, FirstIsLoyal DEF sysexit
  <2> QED BY <1>4, <2>1 DEF sysexit, ProgramStep
<1>5. CASE set_priority
  BY <1>1, <1>5 DEF set_priority, Operands, ProgramStep
<1>6. CASE set_aging
  BY <1>1, <1>6 DEF set_aging, ProgramStep
<1>7. CASE sysfork_return \/ WaitWarmUp \/ Write \/ LoadLocal \/ Branch
  BY <1>7 DEF sysfork_return, WaitWarmUp, Write, LoadLocal, Branch
<1> QED BY <1>2, <1>3, <1>4, <1>5, <1>6, <1>7 DEF ProgramNext, Step

\* A switch leaves in waitpid only those who wait for their children.
LEMMA ScheduleWaits ==
    ASSUME Typed, WaitsForChild, UNCHANGED <<numTasks, ppid>>,
           NEW st, NEW where, NEW arg, Schedule(st, where, arg),
           where = "waitpid" => arg \in Tasks /\ ppid[arg] = currentTask
    PROVE  WaitsForChild'
  BY DEF Schedule, SwitchContext, WaitsForChild, Tasks

LEMMA StepWaits ==
    ASSUME Typed, WaitsForChild, [Next]_vars, [ProgramStep]_vars
    PROVE  WaitsForChild'
<1>1. CASE UNCHANGED <<frame, target>>
  BY <1>1, TasksStay DEF WaitsForChild
<1>2. CASE Tick
  BY <1>2, ScheduleWaits DEF Tick, identity
<1>3. CASE \E p \in Tasks : ppid[p] = currentTask /\ waitpid(p)
  BY <1>3, ScheduleWaits DEF waitpid, identity
<1>4. CASE exit
  BY <1>4, ScheduleWaits DEF exit, identity
<1> QED
  BY <1>1, <1>2, <1>3, <1>4
  DEF ProgramStep, vars, AddTask, Activate, Fork, ForkFull, ForkChild, execve,
      setCurrenttaskPriority, setAgingPid

LEMMA StepNobodyWaits ==
    ASSUME NobodyWaits, code'[0] = code[0], [ProgramStep]_vars
    PROVE  NobodyWaits'
<1> SUFFICES ASSUME code[0] = "forktask_4", NEW i \in Slots, frame[i] # "waitpid"
             PROVE  frame'[i] # "waitpid"
  BY DEF NobodyWaits, Slots
<1>1. CASE Tick \/ exit
  BY <1>1 DEF Tick, exit, Schedule, SwitchContext
<1> QED
  BY <1>1
  DEF ProgramStep, vars, AddTask, Activate, Fork, ForkFull, ForkChild, execve,
      setCurrenttaskPriority, setAgingPid

\* The first process goes on with its program.
LEMMA FirstCode ==
    ASSUME Typed, ProgramInv, [ProgramNext]_allVars
    PROVE  code'[0] = code[0]
<1>1. 0 \in Slots
  BY TableAssumption DEF Slots
<1>2. CASE code' = code
  BY <1>2
<1>3. CASE sysfork
  <2>1. currentTask \in Tasks
    BY <1>3, Running DEF sysfork, At, ProgramInv
  <2>2. numTasks # 0
    BY <2>1 DEF Tasks
  <2> QED BY <1>1, <1>3, <2>2 DEF sysfork, ProgramInv, Machine
<1>4. CASE sysexecve
  <2>1. InUser /\ Instr(currentTask).op = "exec"
    BY <1>4 DEF sysexecve, At
  <2>2. currentTask # 0
    BY <2>1, Running, FirstIsLoyal DEF ProgramInv
  <2> QED BY <1>1, <1>4, <2>2 DEF sysexecve, ProgramInv, Machine
<1> QED
  BY <1>2, <1>3, <1>4
  DEF ProgramNext, Step, Boot, Timer, registers, allVars, sysfork_return, waitpid_call, sysexit,
      set_priority, set_aging, SystemCall, WaitWarmUp, Write, LoadLocal, Branch

\* Outside forktask_4 the programs are disciplined.
LEMMA LoyalStep ==
    ASSUME [ProgramStep]_vars, code[0] # "forktask_4"
    PROVE  [DisciplinedStep]_vars
<1>1. \A v \in ProgramPriorities : v \in Int32 /\ v < PriorityLimit
  <2>1. \A v \in ProgramPriorities : v < PriorityLimit
    BY DEF ProgramPriorities, PriorityLimit
  <2> QED BY <2>1, EnvironmentAssumption, ArgumentAssumption
<1> QED BY <1>1 DEF ProgramStep, DisciplinedStep

LEMMA StartProgramInv == ProgramInit => ProgramInv
<1> SUFFICES ASSUME ProgramInit PROVE ProgramInv
  OBVIOUS
<1>1. PICK p \in Started : code = [i \in Slots |-> p]
  BY DEF ProgramInit
<1>2. /\ p \in DOMAIN Code /\ p # "worker" /\ 0 \in Slots
      /\ pc = [i \in Slots |-> 1] /\ frame = [i \in Slots |-> "user"]
  BY StartedAssumption, TableAssumption DEF ProgramInit, Init, Slots
<1>3. Code[p][1].op \notin Dependent
  BY <1>2, CodeStart
<1>4. \A i \in Slots : Here(i)
  BY <1>1, <1>2, <1>3 DEF Here, Instr, Dependent
<1>5. ~InChild(Code[p], 1)
  <2>1. DOMAIN Code[p] \subseteq Nat \ {0}
    BY <1>2, CodeShape DEF Program, Piece
  <2> QED BY <2>1 DEF InChild
<1>6. FirstStays
  BY <1>1, <1>2, <1>5 DEF FirstStays
<1>7. WaitsForChild
  BY <1>2 DEF WaitsForChild
<1>8. NobodyWaits
  BY <1>2 DEF NobodyWaits
<1>9. DisciplinedInv
  BY InitDisciplined DEF ProgramInit
<1> QED BY <1>4, <1>6, <1>7, <1>8, <1>9, StartMachine DEF ProgramInv

LEMMA StepProgramInv ==
    ASSUME ~Preempt
    PROVE  Typed /\ Typed' /\ ProgramInv /\ [ProgramNext]_allVars => ProgramInv'
<1> SUFFICES ASSUME Typed, Typed', ProgramInv, [ProgramNext]_allVars PROVE ProgramInv'
  OBVIOUS
<1>1. Machine' /\ [Next]_vars
  BY StepMachine DEF ProgramInv
<1>2. FirstStays' /\ \A i \in Slots : Here(i)'
  BY <1>1, BootHere, TimerHere, ForkHere, GetHere, CallHere, ExitHere, ExecHere, StoreHere,
     LoadHere, BranchHere
  DEF ProgramNext, Step, Write
<1>3. [ProgramStep]_vars
  BY ProgramSteps
<1>4. WaitsForChild'
  BY <1>1, <1>3, StepWaits DEF ProgramInv
<1>5. code'[0] # "forktask_4" => DisciplinedInv'
  BY <1>3, FirstCode, LoyalStep, StepDisciplined DEF ProgramInv
<1>6. NobodyWaits'
  BY <1>3, FirstCode, StepNobodyWaits DEF ProgramInv
<1> QED BY <1>1, <1>2, <1>4, <1>5, <1>6 DEF ProgramInv

\* The invariant of the programs, whatever their number of rounds and the size of the
\* table.
THEOREM ProgramInvariant ==
    ASSUME ~Preempt
    PROVE  ProgramSpec => [](Typed /\ ProgramInv)
<1>1. ProgramInit => Typed /\ ProgramInv
  BY InitTyped, StartProgramInv DEF ProgramInit
<1>2. Typed /\ ProgramInv /\ [ProgramNext]_allVars => (Typed /\ ProgramInv)'
  <2>1. Typed /\ ProgramInv /\ [ProgramNext]_allVars => Typed'
    BY StepMachine, NextTyped DEF ProgramInv
  <2> QED BY <2>1, StepProgramInv
<1> QED BY <1>1, <1>2, PTL DEF ProgramSpec

\* If the timer does not strike while pid is in use, the child takes the child's branch
\* and the parent the parent's, in every program and at any size of the table.
THEOREM BranchCorrect ==
    ASSUME ~Preempt
    PROVE  ProgramSpec => BranchRight
<1> DEFINE Right ==
        \A i \in Tasks :
            Instr(i).op = "ifchild" /\ pc'[i] # pc[i] =>
                (pc'[i] = pc[i] + 1 <=> eax_value[i] = 0)
<1>1. Typed /\ ProgramInv /\ [ProgramNext]_allVars => [Right]_allVars
  <2> SUFFICES ASSUME Typed, ProgramInv, ProgramNext, NEW i \in Tasks,
                      Instr(i).op = "ifchild", pc'[i] # pc[i]
               PROVE  pc'[i] = pc[i] + 1 <=> eax_value[i] = 0
    OBVIOUS
  <2>1. i \in Slots /\ Here(i) /\ i = currentTask
    BY TasksAreSlots DEF ProgramInv, Here, Typed
  <2>2. \A name : At(name) => name = "ifchild"
    BY <2>1 DEF At
  <2>3. pc' # pc
    OBVIOUS
  <2>4. /\ At("ifchild")
        /\ Goto(pc[i] + 1 + IF ChildBranch THEN 0 ELSE Instr(i).skip)
    BY <2>1, <2>2, <2>3
    DEF ProgramNext, Boot, Timer, registers, Step, sysfork, sysfork_return, waitpid_call, sysexit,
        sysexecve, set_priority, set_aging, WaitWarmUp, Write, Store, Zero, Inc, LoadLocal, Branch
  <2>5. ChildBranch <=> eax_value[i] = 0
    BY <2>1 DEF ChildBranch, Variable, Here
  <2>6. pc[i] \in Nat /\ Instr(i).skip \in Nat /\ Instr(i).skip > 0
    <3>1. /\ Program(Code[code[i]]) /\ pc[i] \in DOMAIN Code[code[i]]
          /\ Instr(i) = Code[code[i]][pc[i]]
      BY <2>1, <2>4, Running DEF At, ProgramInv
    <3> QED BY <3>1, Targets
  <2>7. pc'[i] = pc[i] + 1 + IF ChildBranch THEN 0 ELSE Instr(i).skip
    BY <2>1, <2>4 DEF Goto, ProgramInv, Machine
  <2> QED BY <2>5, <2>6, <2>7
<1>2. BranchRight <=> [][Right]_allVars
  BY DEF BranchRight
<1> QED BY <1>1, <1>2, ProgramInvariant, PTL DEF ProgramSpec

\* The programs keep the discipline the theorems about waitpid ask for.
THEOREM DisciplineCorrect ==
    ASSUME ~Preempt
    PROVE  ProgramSpec => []DisciplineKept
<1>1. Typed /\ ProgramInv => DisciplineKept
  <2> SUFFICES ASSUME Typed, ProgramInv PROVE DisciplineKept
    OBVIOUS
  <2>1. 0 \in exited => code[0] = "forktask_4"
    BY DEF ProgramInv, DisciplinedInv, Bookkeeping
  <2>2. \A i \in Tasks : i \in Slots /\ pid[i] = i
    BY TasksAreSlots DEF Typed, ProcessTree
  <2> QED BY <2>1, <2>2 DEF DisciplineKept, ProgramInv, WaitsForChild
<1> QED BY <1>1, ProgramInvariant, PTL

\* Only the process that runs moves in its code.
LEMMA OnlyCurrentMoves ==
    ASSUME Typed, ProgramInv, [ProgramNext]_allVars, NEW i \in Tasks, pc'[i] # pc[i]
    PROVE  i = currentTask /\ Step
<1>1. Step
  BY DEF ProgramNext, Boot, Timer, registers, allVars
<1>2. i \in Slots /\ i # numTasks
  <2>1. i \in Slots
    BY TasksAreSlots DEF Typed
  <2>2. i # numTasks
    BY DEF Tasks, Typed, TypeOK
  <2> QED BY <2>1, <2>2
<1>3. CASE \E k : Goto(k)
  BY <1>1, <1>2, <1>3 DEF Goto, ProgramInv, Machine
<1>4. CASE sysfork
  <2>1. CASE TableFull
    BY <1>3, <1>4, <2>1 DEF sysfork, Forth
  <2>2. CASE ~TableFull
    BY <1>1, <1>2, <1>4, <2>2 DEF sysfork, ProgramInv, Machine
  <2> QED BY <2>1, <2>2
<1> QED
  BY <1>1, <1>3, <1>4
  DEF Step, Forth, sysfork_return, waitpid_call, sysexit, sysexecve, SystemCall,
      set_priority, set_aging, WaitWarmUp, Write, LoadLocal, Branch

\* If the timer does not strike while pid is in use, a program goes on behind its waitpid
\* only when the child it forked has exited: in forktask_4, whose first process exits,
\* nobody waits, and the others are disciplined.
THEOREM ChildWaitCorrect ==
    ASSUME ~Preempt
    PROVE  ProgramSpec => ChildHasExited
<1> DEFINE Answered ==
        \A i \in Tasks :
          /\ frame[i] = "waitpid" /\ frame'[i] = "user" => state'[target[i]] = "Terminated"
          /\ Instr(i).op = "wait" /\ pc'[i] # pc[i] /\ frame'[i] = "user" =>
                eax[i] = -1 \/ state'[eax[i]] = "Terminated"
<1>1. Typed /\ Typed' /\ ProgramInv /\ [ProgramNext]_allVars => [Answered]_allVars
  <2> SUFFICES ASSUME Typed, Typed', ProgramInv, [ProgramNext]_allVars PROVE Answered
    OBVIOUS
  <2>1. [ProgramStep]_vars
    BY ProgramSteps
  <2>2. ASSUME NEW i \in Tasks, frame[i] = "waitpid", frame'[i] = "user"
        PROVE  state'[target[i]] = "Terminated"
    <3>1. code[0] # "forktask_4"
      BY <2>2, TasksAreSlots DEF Typed, ProgramInv, NobodyWaits
    <3> QED BY <2>1, <2>2, <3>1, LoyalStep, StepAnswers DEF ProgramInv
  <2>3. ASSUME NEW i \in Tasks, Instr(i).op = "wait", pc'[i] # pc[i], frame'[i] = "user"
        PROVE  eax[i] = -1 \/ state'[eax[i]] = "Terminated"
    <3>1. i = currentTask /\ Step /\ i \in Slots
      BY <2>3, OnlyCurrentMoves, TasksAreSlots DEF Typed
    <3>2. \A name : At(name) => name = "wait"
      BY <2>3, <3>1 DEF At
    <3>3. waitpid_call
      BY <3>1, <3>2
      DEF Step, sysfork, sysfork_return, sysexit, sysexecve, set_priority, set_aging,
          WaitWarmUp, Write, Store, Zero, Inc, LoadLocal, Branch
    <3>4. CASE WaitpidReturns(eax[i])
      <4>1. eax[i] = -1 \/ eax[i] \in Tasks
        BY <2>3, <3>1, WaitTarget
      <4>2. eax[i] \in Tasks => state[eax[i]] = "Terminated"
        <5> SUFFICES ASSUME eax[i] \in Tasks PROVE state[eax[i]] = "Terminated"
          OBVIOUS
        <5>1. eax[i] \in Slots /\ findTaskByPID(eax[i]) = eax[i]
          BY FindValue, TasksAreSlots DEF Typed
        <5>2. eax[i] # -1
          BY DEF Tasks, Typed, TypeOK
        <5> QED BY <3>4, <5>1, <5>2 DEF WaitpidReturns
      <4>3. state' = state
        BY <3>1, <3>3, <3>4 DEF waitpid_call, vars
      <4> QED BY <4>1, <4>2, <4>3
    <3>5. CASE ~WaitpidReturns(eax[i])
      <4>1. waitpid(eax[i])
        BY <3>1, <3>3, <3>5 DEF waitpid_call
      <4>2. eax[i] \in Tasks /\ ppid[eax[i]] = currentTask
        BY <2>3, <3>1, <3>5, WaitTarget DEF WaitpidReturns
      <4>3. code[0] # "forktask_4"
        BY <2>3, <3>1, FirstIsLoyal
      <4>4. currentTask' # currentTask
        BY <4>1, <4>2, <4>3, WaitpidKeeps DEF ProgramInv
      <4>5. frame'[i] = "waitpid"
        BY <3>1, <4>1, <4>4 DEF waitpid, Schedule, SwitchContext
      <4> QED BY <2>3, <4>5
    <3> QED BY <3>4, <3>5
  <2> QED BY <2>2, <2>3
<1>2. ChildHasExited <=> [][Answered]_allVars
  BY DEF ChildHasExited
<1> QED BY <1>1, <1>2, AlwaysTyped, ProgramsImplement, ProgramInvariant, PTL DEF ProgramSpec

\* No process runs on behind the end of its function.
THEOREM ReturnCorrect ==
    ASSUME ~Preempt
    PROVE  ProgramSpec => []NeverReturns
<1>1. Typed /\ ProgramInv => NeverReturns
  <2> SUFFICES ASSUME Typed, ProgramInv, NEW i \in Tasks, Instr(i).op = "return"
               PROVE  state[i] = "Terminated"
    BY DEF NeverReturns
  <2>1. i \in Slots
    BY TasksAreSlots DEF Typed
  <2>2. code[0] # "forktask_4" /\ i \in exited
    BY <2>1, FirstIsLoyal DEF ProgramInv, Here
  <2> QED BY <2>2 DEF ProgramInv, DisciplinedInv, TerminatedForever
<1> QED BY <1>1, ProgramInvariant, PTL

\* Nobody who waits is forgotten and whoever has exited stays so, in all programs but
\* forktask_4, whose first process exits.
THEOREM ProgramsWakeUp ==
    ASSUME ~Preempt
    PROVE  ProgramSpec => [](code[0] # "forktask_4" => WaiterRegistered /\ TerminatedForever)
<1>1. ProgramInv => (code[0] # "forktask_4" => WaiterRegistered /\ TerminatedForever)
  BY DEF ProgramInv, DisciplinedInv
<1> QED BY <1>1, ProgramInvariant, PTL

=============================================================================
