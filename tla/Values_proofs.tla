----------------------------- MODULE Values_proofs -----------------------------
(***************************************************************************)
(* Theorems about what the lines of the output refer to: the values that an  *)
(* instruction uses, the memory that it addresses and the constants whose    *)
(* address it takes.                                                         *)
(***************************************************************************)
EXTENDS LLVMGenerator_proofs

(* The operand nodes that the rest of a visit method reads.                  *)
Uses(it) ==
  CASE it.op = "unary"                   -> {it.arg}
    [] it.op \in {"binary", "condition"} -> {it.lhs, it.rhs}
    [] it.op = "call"                    -> {it.args[i] : i \in DOMAIN it.args}
    [] it.op \in {"store", "return"}     -> {it.arg}
    [] it.op = "branch"                  -> {it.node}
    [] OTHER                             -> {}

(* While such an entry is on top, no label is written.                       *)
IsQuiet(it) == it.op \in {"expr", "cond", "unary", "binary", "condition", "call"}

LineDefines(l) == IF l.op = "define" THEN l.use ELSE {l.def} \ {NoReg}
LineOperands(l) == IF l.op \in {"define", "constants"} THEN {} ELSE l.use \ {Literal}

(* A line written now may use r.                                             *)
Available(r) ==
  \/ r = Literal
  \/ \E i \in Lines : /\ out[i].fn = functions /\ r \in LineDefines(out[i])
                      /\ \A k \in i + 1..Len(out) : out[k].op # "label"

Computed(n) == n \in DOMAIN register_reference_ /\ Available(register_reference_[n])

(* A node that has a name is an old one, and is not visited again.            *)
Unvisited ==
  \A n \in DOMAIN register_reference_ :
    n < nodes /\ \A i \in DOMAIN todo : n \notin Visits(todo[i])

(* An operand of an entry has been computed, or an entry above it will        *)
(* compute it; and from then on no label is written before the entry resumes. *)
Due(i, n) ==
  \/ Computed(n) /\ \A k \in 1..i - 1 : IsQuiet(todo[k])
  \/ \E j \in 1..i - 1 : /\ n \in Visits(todo[j]) \union Owns(todo[j])
                         /\ \A k \in j..i - 1 : IsQuiet(todo[k])

Pending == \A i \in DOMAIN todo : \A n \in Uses(todo[i]) : Due(i, n)

VInv == Unvisited /\ Pending /\ ValuesComputed

-----------------------------------------------------------------------------
(* Lines.                                                                    *)

LEMMA ComputedMeans ==
  /\ ValuesComputed =
       \A j \in Lines : out[j].op # "free" =>
         \A r \in LineOperands(out[j]) :
           \E i \in 1..j - 1 : /\ out[i].fn = out[j].fn /\ r \in LineDefines(out[i])
                               /\ \A k \in i + 1..j : out[k].op # "label"
BY DEF ValuesComputed, Operands, LineOperands, Defines, LineDefines, SameBlock

(* A register a new line uses is available, or an earlier new line of the     *)
(* same block defines it.                                                    *)
Covered(lines, f) ==
  \A j \in DOMAIN lines :
    /\ lines[j].fn = f
    /\ lines[j].op # "free" => \A r \in LineOperands(lines[j]) :
         \/ f = functions /\ Available(r) /\ \A k \in 1..j : lines[k].op # "label"
         \/ \E i \in 1..j - 1 : /\ r \in LineDefines(lines[i])
                                /\ \A k \in i + 1..j : lines[k].op # "label"

LEMMA LinesComputed ==
  ASSUME TypeOK, ValuesComputed, NEW lines, IsTuple(lines), Emit(lines), NEW f, Covered(lines, f)
  PROVE  ValuesComputed'
<1>1. /\ IsTuple(out') /\ Len(out) \in Nat /\ Len(lines) \in Nat
      /\ DOMAIN out = 1..Len(out) /\ DOMAIN lines = 1..Len(lines)
      /\ DOMAIN out' = 1..Len(out) + Len(lines)
      /\ \A i \in DOMAIN out : out'[i] = out[i]
      /\ \A i \in DOMAIN lines : out'[Len(out) + i] = lines[i]
  BY Written DEF IsJoined
<1>2. Lines' = DOMAIN out' /\ Lines = DOMAIN out
  BY Written DEF Lines, IsJoined
<1> SUFFICES ASSUME NEW j \in DOMAIN out', out'[j].op # "free",
                    NEW r \in LineOperands(out'[j]), r # Literal
             PROVE  \E i \in 1..j - 1 : /\ out'[i].fn = out'[j].fn /\ r \in LineDefines(out'[i])
                                        /\ \A k \in i + 1..j : out'[k].op # "label"
  BY <1>2 DEF ValuesComputed, Operands, LineOperands, Defines, LineDefines, SameBlock
<1>3. CASE j \in DOMAIN out
  <2>1. out'[j] = out[j]
    BY <1>1, <1>3
  <2>2. PICK i \in 1..j - 1 : /\ out[i].fn = out[j].fn /\ r \in LineDefines(out[i])
                              /\ \A k \in i + 1..j : out[k].op # "label"
    BY <1>2, <1>3, <2>1, ComputedMeans
  <2>3. i \in DOMAIN out /\ \A k \in i + 1..j : k \in DOMAIN out
    BY <1>1, <1>3
  <2> QED
    BY <1>1, <2>1, <2>2, <2>3
<1>4. CASE j \notin DOMAIN out
  <2> DEFINE m == j - Len(out)
  <2>1. j \in Int /\ m \in DOMAIN lines /\ j = Len(out) + m /\ j > Len(out)
    BY <1>1, <1>4
  <2>2. out'[j] = lines[m]
    BY <1>1, <2>1
  <2> HIDE DEF m
  <2>3. m \in Int /\ m >= 1
    BY <1>1, <2>1
  <2>4. lines[m].fn = f
    BY <2>1 DEF Covered
  <2>5. CASE f = functions /\ Available(r) /\ \A k \in 1..m : lines[k].op # "label"
    <3>1. PICK i \in DOMAIN out : /\ out[i].fn = f /\ r \in LineDefines(out[i])
                                  /\ \A k \in i + 1..Len(out) : out[k].op # "label"
      BY <1>2, <2>5 DEF Available
    <3>2. i \in 1..j - 1
      BY <1>1, <2>1
    <3>3. ASSUME NEW k \in i + 1..j
          PROVE  out'[k].op # "label"
      <4>1. CASE k \in DOMAIN out
        <5>1. k \in i + 1..Len(out)
          BY <1>1, <4>1
        <5> QED
          BY <1>1, <3>1, <4>1, <5>1
      <4>2. CASE k \notin DOMAIN out
        <5>1. k \in Int /\ k > Len(out)
          BY <1>1, <3>1, <4>2
        <5>2. k - Len(out) \in 1..m /\ k = Len(out) + (k - Len(out))
          BY <1>1, <2>1, <2>3, <5>1
        <5>3. k - Len(out) \in DOMAIN lines
          BY <1>1, <2>1, <5>2
        <5>4. out'[k] = lines[k - Len(out)]
          BY <1>1, <5>2, <5>3, Zenon
        <5> QED
          BY <2>5, <5>2, <5>4
      <4> QED
        BY <4>1, <4>2
    <3> QED
      BY <1>1, <2>2, <2>4, <3>1, <3>2, <3>3
  <2>6. CASE \E i \in 1..m - 1 : /\ r \in LineDefines(lines[i])
                                 /\ \A k \in i + 1..m : lines[k].op # "label"
    <3>1. PICK i \in 1..m - 1 : /\ r \in LineDefines(lines[i])
                                /\ \A k \in i + 1..m : lines[k].op # "label"
      BY <2>6
    <3>2. i \in DOMAIN lines /\ Len(out) + i \in 1..j - 1
      BY <1>1, <2>1, <2>3
    <3>3. out'[Len(out) + i] = lines[i] /\ lines[i].fn = f
      BY <1>1, <3>2 DEF Covered
    <3>4. ASSUME NEW k \in Len(out) + i + 1..j
          PROVE  out'[k].op # "label"
      <4>1. k - Len(out) \in i + 1..m /\ k = Len(out) + (k - Len(out))
        BY <1>1, <2>1, <2>3
      <4>2. k - Len(out) \in DOMAIN lines
        BY <1>1, <2>1, <3>1, <4>1
      <4>3. out'[k] = lines[k - Len(out)]
        BY <1>1, <4>1, <4>2, Zenon
      <4> QED
        BY <3>1, <4>1, <4>3
    <3> QED
      BY <2>2, <2>4, <3>1, <3>2, <3>3, <3>4
  <2> QED
    BY <2>1, <2>2, <2>5, <2>6 DEF Covered
<1> QED
  BY <1>3, <1>4

(* Behind lines of the current function that hold no label, what was          *)
(* available still is, and what they define is as well.                      *)
LEMMA AvailableBehind ==
  ASSUME TypeOK, NEW lines, IsTuple(lines), Emit(lines), UNCHANGED functions,
         \A i \in DOMAIN lines : lines[i].fn = functions /\ lines[i].op # "label"
  PROVE  /\ \A r : Available(r) => Available(r)'
         /\ \A i \in DOMAIN lines : \A r \in LineDefines(lines[i]) : Available(r)'
<1>1. /\ IsTuple(out') /\ Len(out) \in Nat /\ Len(lines) \in Nat
      /\ DOMAIN out = 1..Len(out) /\ DOMAIN lines = 1..Len(lines)
      /\ DOMAIN out' = 1..Len(out) + Len(lines) /\ Len(out') = Len(out) + Len(lines)
      /\ \A i \in DOMAIN out : out'[i] = out[i]
      /\ \A i \in DOMAIN lines : out'[Len(out) + i] = lines[i]
  BY Written DEF IsJoined
<1>2. Lines' = DOMAIN out' /\ Lines = DOMAIN out
  BY Written DEF Lines, IsJoined
<1>3. \A k \in Len(out) + 1..Len(out') : out'[k].op # "label"
  <2> SUFFICES ASSUME NEW k \in Len(out) + 1..Len(out')
               PROVE  out'[k].op # "label"
    OBVIOUS
  <2>1. k - Len(out) \in DOMAIN lines /\ k = Len(out) + (k - Len(out))
    BY <1>1
  <2>2. out'[k] = lines[k - Len(out)]
    BY <1>1, <2>1, Zenon
  <2> QED
    BY <2>1, <2>2
<1>4. ASSUME NEW r, Available(r)
      PROVE  Available(r)'
  <2>1. CASE r # Literal
    <3>1. PICK i \in DOMAIN out : /\ out[i].fn = functions /\ r \in LineDefines(out[i])
                                  /\ \A k \in i + 1..Len(out) : out[k].op # "label"
      BY <1>2, <1>4, <2>1 DEF Available
    <3>2. i \in DOMAIN out' /\ out'[i] = out[i]
      BY <1>1
    <3>3. ASSUME NEW k \in i + 1..Len(out')
          PROVE  out'[k].op # "label"
      <4>1. CASE k \in DOMAIN out
        <5>1. k \in i + 1..Len(out)
          BY <1>1, <4>1
        <5> QED
          BY <1>1, <3>1, <4>1, <5>1
      <4>2. CASE k \notin DOMAIN out
        <5>1. k \in Len(out) + 1..Len(out')
          BY <1>1, <4>2
        <5> QED
          BY <1>3, <5>1
      <4> QED
        BY <4>1, <4>2
    <3> QED
      BY <1>2, <3>1, <3>2, <3>3 DEF Available, LineDefines
  <2> QED
    BY <2>1 DEF Available
<1>5. ASSUME NEW i \in DOMAIN lines, NEW r \in LineDefines(lines[i])
      PROVE  Available(r)'
  <2>1. Len(out) + i \in DOMAIN out' /\ out'[Len(out) + i] = lines[i]
    BY <1>1
  <2>2. \A k \in Len(out) + i + 1..Len(out') : k \in Len(out) + 1..Len(out')
    BY <1>1
  <2> QED
    BY <1>2, <1>3, <2>1, <2>2 DEF Available, LineDefines
<1> QED
  BY <1>4, <1>5

-----------------------------------------------------------------------------
(* Steps of the visitor.                                                     *)

(* The entries and lines of a step that replaces the first entry.            *)
Moves(items, lines) ==
  /\ todo # <<>> /\ IsTuple(items) /\ Become(items) /\ IsTuple(lines) /\ Emit(lines)
  /\ UNCHANGED functions /\ nodes' \in Nat /\ nodes' >= nodes
  /\ \A i \in DOMAIN items : Visits(items[i]) \subseteq nodes..nodes' - 1
  /\ \/ UNCHANGED register_reference_
     \/ Visits(Top) = {Top.node} /\ \E r : Refer(Top.node, r)
  /\ Covered(lines, functions)

(* An entry that computes a value leaves it available, or to an entry that    *)
(* will compute it, and writes no label.                                     *)
Delivers(items, lines) ==
  IsQuiet(Top) =>
    /\ \A i \in DOMAIN items : IsQuiet(items[i])
    /\ \A i \in DOMAIN lines : lines[i].op # "label"
    /\ \A n \in Visits(Top) \union Owns(Top) :
         Computed(n)' \/ \E k \in DOMAIN items : n \in Owns(items[k])

(* The operands of a new entry are visited right before it.                  *)
Prepared(items) ==
  \A i \in DOMAIN items : \A n \in Uses(items[i]) :
    \E j \in 1..i - 1 : /\ n \in Visits(items[j])
                        /\ \A k \in j..i - 1 : IsQuiet(items[k])

LEMMA ValuesKept ==
  ASSUME IInv, VInv, NEW items, NEW lines,
         Moves(items, lines), Delivers(items, lines), Prepared(items)
  PROVE  VInv'
<1> DEFINE rest == 2..Len(todo)
<1>1. TypeOK /\ nodes \in Nat /\ Unvisited /\ Pending /\ ValuesComputed
  BY DEF IInv, TypeOK, VInv
<1>2. IsReplaced(todo, items, todo') /\ Top = todo[1]
  BY <1>1, Stacked DEF Moves
<1>3. /\ DOMAIN todo = 1..Len(todo) /\ Len(todo) \in Nat /\ Len(todo) > 0
      /\ DOMAIN items = 1..Len(items) /\ Len(items) \in Nat
      /\ DOMAIN todo' = 1..Len(items) + Len(todo) - 1
      /\ \A i \in DOMAIN items : todo'[i] = items[i]
      /\ \A k \in rest : todo'[k + Len(items) - 1] = todo[k]
  BY <1>2 DEF IsReplaced
<1>4. \A i \in DOMAIN todo' :
        \/ i \in DOMAIN items /\ todo'[i] = items[i]
        \/ \E m \in rest : i = m + Len(items) - 1 /\ todo'[i] = todo[m]
  <2> SUFFICES ASSUME NEW i \in DOMAIN todo', i \notin DOMAIN items
               PROVE  \E m \in rest : i = m + Len(items) - 1 /\ todo'[i] = todo[m]
    BY <1>3
  <2>1. i - Len(items) + 1 \in rest /\ i = (i - Len(items) + 1) + Len(items) - 1
    BY <1>3
  <2> QED
    BY <1>3, <2>1
<1>5. /\ \A n \in DOMAIN register_reference_' : n \in DOMAIN register_reference_ \/ n \in Visits(Top)
      /\ \A n \in DOMAIN register_reference_ :
           n \in DOMAIN register_reference_' /\ register_reference_'[n] = register_reference_[n]
  <2>1. CASE UNCHANGED register_reference_
    BY <2>1
  <2>2. ASSUME Visits(Top) = {Top.node}, NEW r, Refer(Top.node, r)
        PROVE  /\ \A n \in DOMAIN register_reference_' :
                    n \in DOMAIN register_reference_ \/ n \in Visits(Top)
               /\ \A n \in DOMAIN register_reference_ :
                    /\ n \in DOMAIN register_reference_'
                    /\ register_reference_'[n] = register_reference_[n]
    <3>1. 1 \in DOMAIN todo /\ Top.node \in Visits(todo[1])
      BY <1>2, <1>3, <2>2
    <3>2. Top.node \notin DOMAIN register_reference_
      BY <1>1, <3>1 DEF Unvisited
    <3> QED
      BY <2>2, <3>2 DEF Refer, With
  <2> QED
    BY <2>1, <2>2 DEF Moves
<1>6. Unvisited'
  <2>1. ASSUME NEW n \in DOMAIN register_reference_'
        PROVE  n < nodes' /\ \A i \in DOMAIN todo' : n \notin Visits(todo'[i])
    <3>1. n \in Nat /\ n < nodes /\ \A m \in rest : n \notin Visits(todo[m])
      <4>1. CASE n \in DOMAIN register_reference_
        BY <1>1, <1>3, <4>1 DEF Unvisited, TypeOK
      <4>2. CASE n \in Visits(Top)
        <5>1. n \in 0..nodes - 1
          BY <1>2, <1>3, <4>2 DEF IInv, Nodes, NodesExist
        <5>2. \A m \in rest : n \notin Visits(todo[m])
          <6>1. 1 \in DOMAIN todo /\ \A m \in rest : m \in DOMAIN todo /\ m # 1
            BY <1>3
          <6> QED
            BY <1>2, <4>2, <6>1 DEF IInv, Nodes, VisitedOnce
        <5> QED
          BY <1>1, <5>1, <5>2
      <4> QED
        BY <1>5, <4>1, <4>2
    <3>2. \A i \in DOMAIN items : n \notin Visits(items[i])
      BY <1>1, <3>1 DEF Moves
    <3>3. n < nodes'
      BY <1>1, <3>1 DEF Moves
    <3> QED
      BY <1>4, <3>1, <3>2, <3>3
  <2> QED
    BY <2>1 DEF Unvisited, Visits
<1>7. ASSUME IsQuiet(Top)
      PROVE  /\ \A i \in DOMAIN items : IsQuiet(items[i])
             /\ \A n : Computed(n) => Computed(n)'
  <2>1. \A i \in DOMAIN lines : lines[i].fn = functions /\ lines[i].op # "label"
    BY <1>7 DEF Moves, Delivers, Covered
  <2>2. \A r : Available(r) => Available(r)'
    BY <1>1, <2>1, AvailableBehind DEF Moves
  <2>3. ASSUME NEW n, Computed(n)
        PROVE  Computed(n)'
    <3>1. PICK r : r = register_reference_[n]
      OBVIOUS
    <3>2. register_reference_'[n] = r /\ n \in DOMAIN register_reference_' /\ Available(r)'
      BY <1>5, <2>2, <2>3, <3>1 DEF Computed
    <3> QED
      BY <3>2 DEF Computed, Available
  <2> QED
    BY <1>7, <2>3 DEF Delivers
<1>8. ASSUME NEW m \in rest, IsQuiet(Top), \A k \in 1..m - 1 : IsQuiet(todo[k])
      PROVE  \A k \in 1..(m + Len(items) - 1) - 1 : IsQuiet(todo'[k])
  <2> SUFFICES ASSUME NEW k \in 1..(m + Len(items) - 1) - 1
               PROVE  IsQuiet(todo'[k])
    OBVIOUS
  <2>1. k \in DOMAIN todo'
    BY <1>3
  <2>2. CASE k \in DOMAIN items
    BY <1>3, <1>7, <1>8, <2>2
  <2>3. ASSUME NEW l \in rest, k = l + Len(items) - 1, todo'[k] = todo[l]
        PROVE  IsQuiet(todo'[k])
    <3>1. l \in 1..m - 1
      BY <1>3, <2>3
    <3> QED
      BY <1>8, <2>3, <3>1
  <2> QED
    BY <1>4, <2>1, <2>2, <2>3
<1>9. ASSUME NEW i \in DOMAIN items, NEW n \in Uses(items[i])
      PROVE  \E j \in 1..i - 1 : /\ n \in Visits(todo'[j]) \union Owns(todo'[j])
                                 /\ \A k \in j..i - 1 : IsQuiet(todo'[k])
  <2>1. PICK j \in 1..i - 1 : n \in Visits(items[j]) /\ \A k \in j..i - 1 : IsQuiet(items[k])
    BY <1>9 DEF Prepared
  <2>2. j \in DOMAIN items /\ \A k \in j..i - 1 : k \in DOMAIN items
    BY <1>3
  <2> QED
    BY <1>3, <2>1, <2>2
<1>10. ASSUME NEW m \in rest, NEW n \in Uses(todo[m])
       PROVE  LET i == m + Len(items) - 1
              IN  \/ Computed(n)' /\ \A k \in 1..i - 1 : IsQuiet(todo'[k])
                  \/ \E j \in 1..i - 1 : /\ n \in Visits(todo'[j]) \union Owns(todo'[j])
                                         /\ \A k \in j..i - 1 : IsQuiet(todo'[k])
  <2> DEFINE i == m + Len(items) - 1
             Later == \E j \in 1..i - 1 : /\ n \in Visits(todo'[j]) \union Owns(todo'[j])
                                          /\ \A k \in j..i - 1 : IsQuiet(todo'[k])
  <2>1. Due(m, n)
    BY <1>1, <1>3, <1>10 DEF Pending
  <2>2. 1 \in 1..m - 1
    BY <1>3
  <2>3. CASE Computed(n) /\ \A k \in 1..m - 1 : IsQuiet(todo[k])
    <3>1. IsQuiet(Top)
      BY <1>2, <2>2, <2>3
    <3> QED
      BY <1>7, <1>8, <2>3, <3>1
  <2>4. ASSUME NEW j \in 1..m - 1, n \in Visits(todo[j]) \union Owns(todo[j]),
               \A k \in j..m - 1 : IsQuiet(todo[k]), j = 1
        PROVE  (Computed(n)' /\ (\A k \in 1..i - 1 : IsQuiet(todo'[k]))) \/ Later
    <3>1. IsQuiet(Top) /\ \A k \in 1..m - 1 : IsQuiet(todo[k])
      BY <1>2, <2>2, <2>4
    <3>2. \A k \in 1..i - 1 : IsQuiet(todo'[k])
      BY <1>8, <3>1
    <3>3. CASE Computed(n)'
      BY <3>2, <3>3
    <3>4. ASSUME NEW l \in DOMAIN items, n \in Owns(items[l])
          PROVE  Later
      <4>1. l \in 1..i - 1 /\ todo'[l] = items[l]
        BY <1>3
      <4>2. \A k \in l..i - 1 : k \in 1..i - 1
        BY <4>1
      <4> QED
        BY <3>2, <3>4, <4>1, <4>2
    <3>5. Computed(n)' \/ \E l \in DOMAIN items : n \in Owns(items[l])
      BY <1>2, <2>4, <3>1 DEF Delivers
    <3> QED
      BY <3>3, <3>4, <3>5
  <2>5. ASSUME NEW j \in 1..m - 1, n \in Visits(todo[j]) \union Owns(todo[j]),
               \A k \in j..m - 1 : IsQuiet(todo[k]), j # 1
        PROVE  Later
    <3> DEFINE l == j + Len(items) - 1
    <3>1. j \in rest /\ l \in 1..i - 1
      BY <1>3, <2>5
    <3>2. todo'[l] = todo[j]
      BY <1>3, <3>1
    <3>3. ASSUME NEW k \in l..i - 1
          PROVE  IsQuiet(todo'[k])
      <4>1. k \in Int /\ k - Len(items) + 1 \in j..m - 1 /\ k - Len(items) + 1 \in rest
            /\ (k - Len(items) + 1) + Len(items) - 1 = k
        BY <1>3, <2>5
      <4>2. todo'[k] = todo[k - Len(items) + 1]
        BY <1>3, <4>1
      <4> QED
        BY <2>5, <4>1, <4>2
    <3> QED
      BY <2>5, <3>1, <3>2, <3>3
  <2> QED
    BY <2>1, <2>3, <2>4, <2>5 DEF Due
<1>11. Pending'
  <2>1. ASSUME NEW i \in DOMAIN todo', NEW n \in Uses(todo'[i])
        PROVE  \/ Computed(n)' /\ \A k \in 1..i - 1 : IsQuiet(todo'[k])
               \/ \E j \in 1..i - 1 : /\ n \in Visits(todo'[j]) \union Owns(todo'[j])
                                      /\ \A k \in j..i - 1 : IsQuiet(todo'[k])
    BY <1>4, <1>9, <1>10, <2>1
  <2> QED
    BY <2>1 DEF Pending, Due, Uses, Visits, Owns, IsQuiet
<1>12. ValuesComputed'
  BY <1>1, LinesComputed DEF Moves
<1> QED
  BY <1>6, <1>11, <1>12 DEF VInv

-----------------------------------------------------------------------------
(* The entries that visit methods put on the stack.                          *)

LEMMA VisitEntries ==
  /\ \A n, t : /\ Visits(ExprItem(n, t)) = {n} /\ IsQuiet(ExprItem(n, t))
               /\ Uses(ExprItem(n, t)) = {}
  /\ \A n : /\ Visits(CondItem(n)) = {n} /\ IsQuiet(CondItem(n)) /\ Uses(CondItem(n)) = {}
  /\ \A n : Visits(AssignItem(n)) = {n} /\ Uses(AssignItem(n)) = {}
  /\ \A it \in {InstrItem, ElseItem, BodyItem, EndFunctionItem} :
       Visits(it) = {} /\ Uses(it) = {}
  /\ \A d : Visits(BlockItem(d)) = {} /\ Uses(BlockItem(d)) = {}
BY DEF ExprItem, CondItem, AssignItem, InstrItem, ElseItem, BodyItem, EndFunctionItem,
       BlockItem, Visits, IsQuiet, Uses

LEMMA RestEntries ==
  /\ \A n, a : /\ Visits(UnaryRest(n, a)) = {} /\ Owns(UnaryRest(n, a)) = {n}
               /\ IsQuiet(UnaryRest(n, a)) /\ Uses(UnaryRest(n, a)) = {a}
  /\ \A n, t, a, b :
       /\ Visits(BinaryRest(n, t, a, b)) = {} /\ Owns(BinaryRest(n, t, a, b)) = {n}
       /\ IsQuiet(BinaryRest(n, t, a, b)) /\ Uses(BinaryRest(n, t, a, b)) = {a, b}
  /\ \A n, t, o, a, b :
       /\ Visits(ConditionRest(n, t, o, a, b)) = {} /\ Owns(ConditionRest(n, t, o, a, b)) = {n}
       /\ IsQuiet(ConditionRest(n, t, o, a, b)) /\ Uses(ConditionRest(n, t, o, a, b)) = {a, b}
  /\ \A n, t, as : /\ Visits(CallRest(n, t, as)) = {} /\ Owns(CallRest(n, t, as)) = {n}
                /\ IsQuiet(CallRest(n, t, as)) /\ Uses(CallRest(n, t, as)) = {as[i] : i \in DOMAIN as}
  /\ \A s, a : Visits(AssignRest(s, a)) = {} /\ Uses(AssignRest(s, a)) = {a}
  /\ \A t, a : Visits(ReturnRest(t, a)) = {} /\ Uses(ReturnRest(t, a)) = {a}
  /\ \A n, l, k, at : Visits(BranchRest(n, l, k, at)) = {} /\ Uses(BranchRest(n, l, k, at)) = {n}
  /\ \A l, at : Visits(JumpRest(l, at)) = {} /\ Uses(JumpRest(l, at)) = {}
BY DEF UnaryRest, BinaryRest, ConditionRest, CallRest, AssignRest, ReturnRest, BranchRest,
       JumpRest, Visits, Owns, IsQuiet, Uses

(* Most entries with an operand follow its visit immediately.                *)
LEMMA PreparedByPrevious ==
  ASSUME NEW items, IsTuple(items),
         \A i \in DOMAIN items :
           \/ Uses(items[i]) = {}
           \/ /\ i > 1 /\ IsQuiet(items[i - 1])
              /\ Uses(items[i]) \subseteq Visits(items[i - 1])
  PROVE  Prepared(items)
<1>1. DOMAIN items = 1..Len(items) /\ Len(items) \in Nat
  BY LenProperties DEF IsTuple
<1>2. ASSUME NEW i \in DOMAIN items, NEW n \in Uses(items[i])
      PROVE  \E j \in 1..i - 1 : /\ n \in Visits(items[j])
                                 /\ \A k \in j..i - 1 : IsQuiet(items[k])
  <2>1. i > 1 /\ IsQuiet(items[i - 1]) /\ n \in Visits(items[i - 1])
    BY <1>2
  <2>2. i - 1 \in 1..i - 1 /\ \A k \in i - 1..i - 1 : k = i - 1
    BY <1>1, <2>1
  <2> QED
    BY <2>1, <2>2
<1> QED
  BY <1>2 DEF Prepared

LEMMA PreparedItems ==
  /\ Prepared(<<>>)
  /\ \A a : Uses(a) = {} => Prepared(<<a>>)
  /\ \A a, b : (/\ Uses(a) = {}
                /\ Uses(b) = {} \/ (IsQuiet(a) /\ Uses(b) \subseteq Visits(a)))
               => Prepared(<<a, b>>)
  /\ \A a, b, c : (/\ Uses(a) = {} /\ Uses(b) = {} /\ IsQuiet(a) /\ IsQuiet(b)
                   /\ Uses(c) \subseteq Visits(a) \union Visits(b))
                  => Prepared(<<a, b, c>>)
<1>1. Prepared(<<>>)
  BY ShortItems DEF Prepared
<1>2. ASSUME NEW a, Uses(a) = {}
      PROVE  Prepared(<<a>>)
  BY <1>2, ShortItems DEF Prepared
<1>3. ASSUME NEW a, NEW b, Uses(a) = {},
             Uses(b) = {} \/ (IsQuiet(a) /\ Uses(b) \subseteq Visits(a))
      PROVE  Prepared(<<a, b>>)
  <2> DEFINE s == <<a, b>>
  <2>1. IsTuple(s) /\ DOMAIN s = {1, 2} /\ s[1] = a /\ s[2] = b
    BY ShortTuples
  <2> HIDE DEF s
  <2>2. 2 > 1 /\ 2 - 1 = 1
    OBVIOUS
  <2>3. \A i \in DOMAIN s : \/ Uses(s[i]) = {}
                            \/ /\ i > 1 /\ IsQuiet(s[i - 1])
                               /\ Uses(s[i]) \subseteq Visits(s[i - 1])
    BY <1>3, <2>1, <2>2
  <2> QED
    BY <2>1, <2>3, PreparedByPrevious DEF s
<1>4. ASSUME NEW a, NEW b, NEW c, Uses(a) = {}, Uses(b) = {}, IsQuiet(a), IsQuiet(b),
             Uses(c) \subseteq Visits(a) \union Visits(b)
      PROVE  Prepared(<<a, b, c>>)
  <2> DEFINE s == <<a, b, c>>
  <2>1. DOMAIN s = {1, 2, 3} /\ s[1] = a /\ s[2] = b /\ s[3] = c
    OBVIOUS
  <2> HIDE DEF s
  <2>2. ASSUME NEW n \in Uses(c)
        PROVE  \E j \in 1..3 - 1 : n \in Visits(s[j]) /\ \A k \in j..3 - 1 : IsQuiet(s[k])
    <3>1. \A k \in 1..3 - 1 : k = 1 \/ k = 2
      OBVIOUS
    <3>2. \A k \in 1..3 - 1 : IsQuiet(s[k])
      BY <1>4, <2>1, <3>1
    <3>3. \A j \in {1, 2} : j \in 1..3 - 1 /\ \A k \in j..3 - 1 : k \in 1..3 - 1
      OBVIOUS
    <3> QED
      BY <1>4, <2>1, <2>2, <3>2, <3>3
  <2> QED
    BY <1>4, <2>1, <2>2 DEF Prepared, s
<1> QED
  BY <1>1, <1>2, <1>3, <1>4

-----------------------------------------------------------------------------
(* Two forms of steps: visits that only call emit_code, and rests that only   *)
(* write a line.                                                             *)

(* An operand that the rest of a visit method reads is available to it.      *)
LEMMA OperandAvailable ==
  ASSUME TypeOK, VInv, NEW op, At(op), NEW n \in Uses(Top)
  PROVE  n \in DOMAIN register_reference_ /\ Available(register_reference_[n])
<1>1. Top = todo[1] /\ 1 \in DOMAIN todo
  BY TopTyped
<1>2. Due(1, n)
  BY <1>1 DEF VInv, Pending
<1>3. 1..1 - 1 = {}
  OBVIOUS
<1> QED
  BY <1>2, <1>3 DEF Due, Computed

LEMMA VisitKeepsValues ==
  ASSUME IInv, VInv, NEW op, At(op), NEW items, IsTuple(items), Become(items),
         nodes' \in Nat, nodes' >= nodes, UNCHANGED <<out, functions>>,
         \A i \in DOMAIN items : Visits(items[i]) \subseteq nodes..nodes' - 1,
         \/ UNCHANGED register_reference_
         \/ op \in {"expr", "cond", "assign"} /\ \E r : Refer(Top.node, r),
         IsQuiet(Top) => /\ \A i \in DOMAIN items : IsQuiet(items[i])
                         /\ \E k \in DOMAIN items : Top.node \in Owns(items[k]),
         Prepared(items)
  PROVE  VInv'
<1>1. TypeOK /\ todo # <<>> /\ Top.op = op
  BY TopTyped DEF IInv
<1>2. Emit(<<>>) /\ IsTuple(<<>>) /\ DOMAIN <<>> = {}
  BY <1>1, NoLines
<1>3. Covered(<<>>, functions)
  BY <1>2 DEF Covered
<1>4. op \in {"expr", "cond", "assign"} => Visits(Top) = {Top.node}
  BY <1>1 DEF Visits
<1>5. Moves(items, <<>>)
  BY <1>1, <1>2, <1>3, <1>4 DEF Moves
<1>6. \A n \in Visits(Top) \union Owns(Top) : n = Top.node
  BY DEF Visits, Owns
<1>7. Delivers(items, <<>>)
  BY <1>2, <1>6 DEF Delivers
<1> QED
  BY <1>5, <1>7, ValuesKept

LEMMA LineKeepsValues ==
  ASSUME IInv, VInv, NEW op, At(op), Become(<<>>), NEW l, Emit(<<l>>),
         l.fn = functions, l.op \notin {"label", "free"}, UNCHANGED <<nodes, functions>>,
         \/ UNCHANGED register_reference_
         \/ op \in {"expr", "cond", "assign"} /\ \E r : Refer(Top.node, r),
         \A r \in LineOperands(l) : Available(r),
         IsQuiet(Top) => /\ Top.node \in DOMAIN register_reference_'
                         /\ register_reference_'[Top.node] \in LineDefines(l)
  PROVE  VInv'
<1> DEFINE lines == <<l>>
<1>1. TypeOK /\ todo # <<>> /\ Top.op = op /\ nodes \in Nat
  BY TopTyped DEF IInv, TypeOK
<1>2. /\ IsTuple(<<>>) /\ DOMAIN <<>> = {}
      /\ IsTuple(lines) /\ DOMAIN lines = {1} /\ lines[1] = l
  BY ShortTuples
<1>3. Emit(lines)
  OBVIOUS
<1> HIDE DEF lines
<1>4. \A k \in 1..1 : k = 1
  OBVIOUS
<1>5. Covered(lines, functions)
  BY <1>2, <1>4 DEF Covered
<1>6. op \in {"expr", "cond", "assign"} => Visits(Top) = {Top.node}
  BY <1>1 DEF Visits
<1>7. Moves(<<>>, lines)
  BY <1>1, <1>2, <1>3, <1>5, <1>6 DEF Moves
<1>8. \A n \in Visits(Top) \union Owns(Top) : n = Top.node
  BY DEF Visits, Owns
<1>9. \A r \in LineDefines(l) : Available(r)'
  <2>1. \A i \in DOMAIN lines : lines[i].fn = functions /\ lines[i].op # "label"
    BY <1>2
  <2>2. \A i \in DOMAIN lines : \A r \in LineDefines(lines[i]) : Available(r)'
    BY <1>1, <1>2, <1>3, <2>1, AvailableBehind
  <2> QED
    BY <1>2, <2>2
<1>10. ASSUME IsQuiet(Top), NEW n, n = Top.node
       PROVE  Computed(n)'
  <2>1. PICK r : r = register_reference_'[n]
    OBVIOUS
  <2>2. Available(r)' /\ n \in DOMAIN register_reference_'
    BY <1>9, <1>10, <2>1
  <2> QED
    BY <2>1, <2>2 DEF Computed, Available
<1>11. Delivers(<<>>, lines)
  <2> SUFFICES ASSUME IsQuiet(Top)
               PROVE  /\ \A i \in DOMAIN lines : lines[i].op # "label"
                      /\ \A n \in Visits(Top) \union Owns(Top) : Computed(n)'
    BY <1>2 DEF Delivers
  <2>1. \A i \in DOMAIN lines : lines[i].op # "label"
    BY <1>2
  <2>2. \A n : n = Top.node => Computed(n)'
    BY <1>10
  <2> QED
    BY <1>8, <2>1, <2>2
<1> QED
  BY <1>7, <1>11, PreparedItems, ValuesKept

-----------------------------------------------------------------------------
(* The steps of expressions.                                                 *)

LEMMA TerminalValues ==
  ASSUME IInv, VInv,
         (\E s \in Symbols : VisitVariable(s)) \/ VisitConstInteger \/ VisitConstString
  PROVE  VInv'
<1>1. TypeOK
  BY DEF IInv
<1>2. ASSUME NEW s \in Symbols, VisitVariable(s)
      PROVE  VInv'
  <2> DEFINE r == Load(s, VarCount(s))
             l == LoadFrom(s, r)
  <2>1. /\ At("expr") /\ Become(<<>>) /\ Emit(<<l>>) /\ Refer(Top.node, r)
        /\ UNCHANGED <<nodes, functions>>
    BY <1>2 DEF VisitVariable, program
  <2>2. VarCount(s) \in Nat
    BY <1>1 DEF TypeOK, VarCount
  <2>3. r.id = VarCount(s) /\ NoReg.id = NoId
    BY DEF Load, Reg, NoReg
  <2>4. r # NoReg
    BY <2>2, <2>3 DEF NoId
  <2> HIDE DEF r
  <2>5. l.op = "load" /\ l.fn = functions /\ l.def = r /\ l.use = {}
    BY DEF LoadFrom, IR
  <2> HIDE DEF l
  <2>6. r \in LineDefines(l) /\ LineOperands(l) = {}
    BY <2>4, <2>5 DEF LineDefines, LineOperands
  <2>7. Top.node \in DOMAIN register_reference_' /\ register_reference_'[Top.node] = r
    BY <2>1 DEF Refer, With
  <2> QED
    BY <2>1, <2>5, <2>6, <2>7, LineKeepsValues
<1>3. CASE VisitConstInteger
  <2>1. /\ At("expr") /\ Become(<<>>) /\ Refer(Top.node, Literal)
        /\ UNCHANGED <<out, nodes, functions>>
    BY <1>3 DEF VisitConstInteger, program
  <2>2. todo # <<>> /\ Top.op = "expr" /\ nodes \in Nat
    BY <1>1, <2>1, TopTyped DEF TypeOK
  <2>3. Emit(<<>>) /\ IsTuple(<<>>) /\ DOMAIN <<>> = {}
    BY <1>1, <2>1, NoLines
  <2>4. Visits(Top) = {Top.node} /\ Owns(Top) = {}
    BY <2>2 DEF Visits, Owns
  <2>5. Moves(<<>>, <<>>)
    BY <2>1, <2>2, <2>3, <2>4 DEF Moves, Covered
  <2>6. ASSUME NEW n, n = Top.node
        PROVE  Computed(n)'
    <3>1. n \in DOMAIN register_reference_' /\ register_reference_'[n] = Literal
      BY <2>1, <2>6 DEF Refer, With
    <3> QED
      BY <3>1 DEF Computed, Available
  <2>7. Delivers(<<>>, <<>>)
    BY <2>3, <2>4, <2>6 DEF Delivers
  <2> QED
    BY <2>5, <2>7, PreparedItems, ValuesKept
<1>4. CASE VisitConstString
  <2> DEFINE r == StrReg(const_string_next_id_)
             l == Plain("gep", r, {})
  <2>1. /\ At("expr") /\ Become(<<>>) /\ Emit(<<l>>) /\ Refer(Top.node, r)
        /\ UNCHANGED <<nodes, functions>>
    BY <1>4 DEF VisitConstString, program
  <2>2. r.name = "str" /\ NoReg.name = ""
    BY DEF StrReg, Reg, NoReg
  <2> HIDE DEF r
  <2>3. l.op = "gep" /\ l.fn = functions /\ l.def = r /\ l.use = {}
    BY DEF Plain, IR
  <2> HIDE DEF l
  <2>4. r \in LineDefines(l) /\ LineOperands(l) = {}
    BY <2>2, <2>3 DEF LineDefines, LineOperands
  <2>5. Top.node \in DOMAIN register_reference_' /\ register_reference_'[Top.node] = r
    BY <2>1 DEF Refer, With
  <2> QED
    BY <2>1, <2>3, <2>4, <2>5, LineKeepsValues
<1> QED
  BY <1>2, <1>3, <1>4

(* The rest of an operator or a call.                                        *)
LEMMA ResultKeepsValues ==
  ASSUME IInv, VInv, NEW op \in {"unary", "binary", "condition", "call"}, At(op), Become(<<>>),
         NEW iop \in {"sub", "arith", "concat", "icmp", "equal", "call i32", "call i8*"},
         NEW use, use = {register_reference_[a] : a \in Uses(Top)},
         Emit(<<Plain(iop, register_reference_[Top.node], use)>>),
         UNCHANGED <<nodes, functions, register_reference_>>
  PROVE  VInv'
<1> DEFINE r == register_reference_[Top.node]
           l == Plain(iop, r, use)
<1>1. TypeOK /\ Top.op = op
  BY TopTyped DEF IInv
<1>2. Top.node \in Reads(Top)
  BY <1>1 DEF Reads
<1>3. Top.node \in DOMAIN register_reference_ /\ r.name = "tmp"
  BY <1>2, OperandRead, OwnRegister
<1>4. r # NoReg
  <2>1. NoReg.name # "tmp"
    BY Zenon DEF NoReg, Reg
  <2> QED
    BY <1>3, <2>1, Zenon
<1>5. Emit(<<l>>)
  OBVIOUS
<1> HIDE DEF r
<1>6. /\ l.op = iop /\ l.fn = functions /\ l.def = r /\ l.use = use
  BY DEF Plain, IR
<1> HIDE DEF l
<1>7. r \in LineDefines(l)
  BY <1>4, <1>6 DEF LineDefines
<1>8. \A x \in LineOperands(l) : Available(x)
  <2>1. \A a \in Uses(Top) : Available(register_reference_[a])
    BY <1>1, OperandAvailable
  <2>2. \A x \in use : Available(x)
    BY <2>1
  <2> QED
    BY <1>6, <2>2 DEF LineOperands
<1> QED
  BY <1>3, <1>5, <1>6, <1>7, <1>8, LineKeepsValues DEF r

LEMMA OperatorValues ==
  ASSUME IInv, VInv, UnaryResumed \/ BinaryResumed \/ ConditionResumed \/ FunctionCallResumed
  PROVE  VInv'
<1>1. TypeOK
  BY DEF IInv
<1> DEFINE two == {register_reference_[Top.lhs], register_reference_[Top.rhs]}
           ref == register_reference_[Top.node]
<1>2. two = {register_reference_[a] : a \in {Top.lhs, Top.rhs}}
  OBVIOUS
<1>3. CASE UnaryResumed
  <2>1. /\ At("unary") /\ Become(<<>>) /\ UNCHANGED <<nodes, functions, register_reference_>>
        /\ Emit(<<Plain("sub", ref, {register_reference_[Top.arg]})>>)
    BY <1>3 DEF UnaryResumed, program
  <2>2. Uses(Top) = {Top.arg}
    BY <1>1, <2>1, TopTyped DEF Uses
  <2>3. {register_reference_[Top.arg]} = {register_reference_[a] : a \in Uses(Top)}
    BY <2>2
  <2> QED
    BY <2>1, <2>3, ResultKeepsValues
<1>4. CASE BinaryResumed
  <2>1. /\ At("binary") /\ Become(<<>>) /\ UNCHANGED <<nodes, functions, register_reference_>>
        /\ Emit(<<Plain("arith", ref, two)>>) \/ Emit(<<Plain("concat", ref, two)>>)
    BY <1>4 DEF BinaryResumed, program
  <2>2. Uses(Top) = {Top.lhs, Top.rhs}
    BY <1>1, <2>1, TopTyped DEF Uses
  <2> HIDE DEF two
  <2> QED
    BY <1>2, <2>1, <2>2, ResultKeepsValues
<1>5. CASE ConditionResumed
  <2>1. /\ At("condition") /\ UNCHANGED <<nodes, functions, register_reference_>>
        /\ \/ Become(<<>>) /\ Emit(<<Plain("icmp", ref, two)>>)
           \/ Become(<<>>) /\ Emit(<<Plain("equal", ref, two)>>)
           \/ UNCHANGED <<todo, out>>
    BY <1>5 DEF ConditionResumed, program
  <2>2. Uses(Top) = {Top.lhs, Top.rhs}
    BY <1>1, <2>1, TopTyped DEF Uses
  <2> HIDE DEF two
  <2>3. CASE UNCHANGED <<todo, out>>
    BY <2>1, <2>3 DEF VInv, Unvisited, Pending, Due, Computed, Available, ValuesComputed,
       Lines, Operands, Defines, SameBlock
  <2> QED
    BY <1>2, <2>1, <2>2, <2>3, ResultKeepsValues
<1>6. CASE FunctionCallResumed
  <2> DEFINE operands == {register_reference_[Top.args[i]] : i \in DOMAIN Top.args}
  <2>1. /\ At("call") /\ Become(<<>>) /\ UNCHANGED <<nodes, functions, register_reference_>>
        /\ Emit(<<Plain(CallOp(Top.type), ref, operands)>>)
    BY <1>6 DEF FunctionCallResumed, program
  <2>2. Uses(Top) = {Top.args[i] : i \in DOMAIN Top.args}
    BY <1>1, <2>1, TopTyped DEF Uses
  <2>3. operands = {register_reference_[a] : a \in Uses(Top)}
    BY <2>2
  <2> HIDE DEF operands
  <2>4. CallOp(Top.type) \in {"call i32", "call i8*"}
    BY CallOpTyped
  <2> QED
    BY <2>1, <2>3, <2>4, ResultKeepsValues
<1> QED
  BY <1>3, <1>4, <1>5, <1>6

LEMMA AssignmentValues ==
  ASSUME IInv, VInv, AssignmentResumed
  PROVE  VInv'
<1> DEFINE r == register_reference_[Top.arg]
           l == StoreTo(Top.sym, r)
<1>1. /\ At("store") /\ Become(<<>>) /\ Emit(<<l>>)
      /\ UNCHANGED <<nodes, functions, register_reference_>>
  BY DEF AssignmentResumed, program
<1>2. TypeOK /\ Top.op = "store"
  BY <1>1, TopTyped DEF IInv
<1>3. Top.arg \in Uses(Top) /\ ~IsQuiet(Top)
  BY <1>2 DEF Uses, IsQuiet
<1>4. Available(r)
  BY <1>1, <1>2, <1>3, OperandAvailable
<1> HIDE DEF r
<1>5. l.op = "store" /\ l.fn = functions /\ l.use = {r}
  BY DEF StoreTo, IR
<1> HIDE DEF l
<1>6. \A x \in LineOperands(l) : Available(x)
  BY <1>4, <1>5 DEF LineOperands, Available
<1> QED
  BY <1>1, <1>3, <1>5, <1>6, LineKeepsValues

LEMMA OperatorVisitValues ==
  ASSUME IInv, VInv,
         \/ VisitUnary \/ VisitBinary
         \/ \E ordering \in BOOLEAN, lhs, rhs \in SourceTypes :
              VisitCondition(ordering, lhs, rhs)
         \/ \E s \in Symbols : VisitAssignment(s)
  PROVE  VInv'
<1>1. nodes \in Nat
  BY DEF IInv, TypeOK
<1>2. CASE VisitUnary
  <2> DEFINE a == ExprItem(nodes, "int")
             b == UnaryRest(Top.node, nodes)
             s == <<a, b>>
  <2>1. /\ At("expr") /\ Become(s) /\ nodes' = nodes + 1 /\ Refer(Top.node, FreshTmp)
        /\ UNCHANGED <<out, functions>>
    BY <1>2 DEF VisitUnary, program
  <2>2. /\ Visits(a) = {nodes} /\ Uses(a) = {} /\ IsQuiet(a) /\ Visits(b) = {}
        /\ IsQuiet(b) /\ Uses(b) = {nodes} /\ Owns(b) = {Top.node}
    BY VisitEntries, RestEntries
  <2> HIDE DEF a, b
  <2>3. IsTuple(s) /\ DOMAIN s = {1, 2} /\ s[1] = a /\ s[2] = b /\ Prepared(s)
    BY <2>2, ShortTuples, PreparedItems
  <2> HIDE DEF s
  <2>4. nodes' \in Nat /\ nodes' >= nodes /\ nodes \in nodes..nodes' - 1
    BY <1>1, <2>1
  <2> QED
    BY <2>1, <2>2, <2>3, <2>4, VisitKeepsValues
<1>3. CASE VisitBinary
  <2> DEFINE a == ExprItem(nodes, Top.type)
             b == ExprItem(nodes + 1, Top.type)
             c == BinaryRest(Top.node, Top.type, nodes, nodes + 1)
             s == <<a, b, c>>
  <2>1. /\ At("expr") /\ Become(s) /\ nodes' = nodes + 2 /\ Refer(Top.node, FreshTmp)
        /\ UNCHANGED <<out, functions>>
    BY <1>3 DEF VisitBinary, program
  <2>2. /\ Visits(a) = {nodes} /\ Uses(a) = {} /\ IsQuiet(a)
        /\ Visits(b) = {nodes + 1} /\ Uses(b) = {} /\ IsQuiet(b)
        /\ Visits(c) = {} /\ IsQuiet(c) /\ Uses(c) = {nodes, nodes + 1} /\ Owns(c) = {Top.node}
    BY VisitEntries, RestEntries
  <2> HIDE DEF a, b, c
  <2>3. /\ IsTuple(s) /\ DOMAIN s = {1, 2, 3} /\ s[1] = a /\ s[2] = b /\ s[3] = c
    BY ShortTuples
  <2>4. Prepared(s)
    BY <2>2, PreparedItems
  <2> HIDE DEF s
  <2>5. /\ nodes' \in Nat /\ nodes' >= nodes
        /\ nodes \in nodes..nodes' - 1 /\ nodes + 1 \in nodes..nodes' - 1
    BY <1>1, <2>1
  <2> QED
    BY <2>1, <2>2, <2>3, <2>4, <2>5, VisitKeepsValues
<1>4. ASSUME NEW ordering \in BOOLEAN, NEW lhs \in SourceTypes, NEW rhs \in SourceTypes,
             VisitCondition(ordering, lhs, rhs)
      PROVE  VInv'
  <2> DEFINE a == ExprItem(nodes, lhs)
             b == ExprItem(nodes + 1, rhs)
             c == ConditionRest(Top.node, lhs, ordering, nodes, nodes + 1)
             s == <<a, b, c>>
  <2>1. /\ At("cond") /\ Become(s) /\ nodes' = nodes + 2 /\ Refer(Top.node, FreshTmp)
        /\ UNCHANGED <<out, functions>>
    BY <1>4 DEF VisitCondition, program
  <2>2. /\ Visits(a) = {nodes} /\ Uses(a) = {} /\ IsQuiet(a)
        /\ Visits(b) = {nodes + 1} /\ Uses(b) = {} /\ IsQuiet(b)
        /\ Visits(c) = {} /\ IsQuiet(c) /\ Uses(c) = {nodes, nodes + 1} /\ Owns(c) = {Top.node}
    BY VisitEntries, RestEntries
  <2> HIDE DEF a, b, c
  <2>3. /\ IsTuple(s) /\ DOMAIN s = {1, 2, 3} /\ s[1] = a /\ s[2] = b /\ s[3] = c
    BY ShortTuples
  <2>4. Prepared(s)
    BY <2>2, PreparedItems
  <2> HIDE DEF s
  <2>5. /\ nodes' \in Nat /\ nodes' >= nodes
        /\ nodes \in nodes..nodes' - 1 /\ nodes + 1 \in nodes..nodes' - 1
    BY <1>1, <2>1
  <2> QED
    BY <2>1, <2>2, <2>3, <2>4, <2>5, VisitKeepsValues
<1>5. ASSUME NEW sym \in Symbols, VisitAssignment(sym)
      PROVE  VInv'
  <2> DEFINE a == ExprItem(nodes, TypeOf[sym])
             b == AssignRest(sym, nodes)
             s == <<a, b>>
  <2>1. /\ At("assign") /\ Become(s) /\ nodes' = nodes + 1 /\ Refer(Top.node, FreshTmp)
        /\ UNCHANGED <<out, functions>>
    BY <1>5 DEF VisitAssignment, program
  <2>2. /\ Visits(a) = {nodes} /\ Uses(a) = {} /\ IsQuiet(a) /\ Visits(b) = {}
        /\ Uses(b) = {nodes}
    BY VisitEntries, RestEntries
  <2> HIDE DEF a, b
  <2>3. IsTuple(s) /\ DOMAIN s = {1, 2} /\ s[1] = a /\ s[2] = b /\ Prepared(s)
    BY <2>2, ShortTuples, PreparedItems
  <2> HIDE DEF s
  <2>4. nodes' \in Nat /\ nodes' >= nodes /\ nodes \in nodes..nodes' - 1
    BY <1>1, <2>1
  <2>5. ~IsQuiet(Top)
    BY <2>1, TopTyped DEF IInv, IsQuiet
  <2> QED
    BY <2>1, <2>2, <2>3, <2>4, <2>5, VisitKeepsValues
<1> QED
  BY <1>2, <1>3, <1>4, <1>5

(* The arguments of a call are visited one after another, and then it.       *)
LEMMA CallVisitValues ==
  ASSUME IInv, VInv, NEW k \in Nat, NEW types \in [1..k -> SourceTypes],
         VisitFunctionCall(types)
  PROVE  VInv'
<1> DEFINE args == [i \in DOMAIN types |-> ExprItem(nodes + i - 1, types[i])]
           as == [i \in DOMAIN types |-> nodes + i - 1]
           rest == CallRest(Top.node, Top.type, as)
           last == <<rest>>
           s == args \o last
           S == {args[i] : i \in 1..k}
<1>1. /\ At("expr") /\ Become(s) /\ nodes' = nodes + Len(types) /\ Refer(Top.node, FreshTmp)
      /\ UNCHANGED <<out, functions>>
  BY DEF VisitFunctionCall, program
<1>2. DOMAIN types = 1..k /\ Len(types) = k /\ nodes \in Nat
  BY DEF IInv, TypeOK
<1>3. DOMAIN as = 1..k /\ \A i \in 1..k : as[i] = nodes + i - 1
  BY <1>2
<1> HIDE DEF as
<1>4. /\ Visits(rest) = {} /\ IsQuiet(rest) /\ Owns(rest) = {Top.node}
      /\ Uses(rest) = {as[i] : i \in DOMAIN as}
  BY DEF CallRest, Visits, Owns, IsQuiet, Uses
<1>5. /\ DOMAIN args = 1..k /\ args = [i \in 1..k |-> args[i]]
      /\ \A i \in 1..k : /\ Visits(args[i]) = {nodes + i - 1} /\ Uses(args[i]) = {}
                         /\ IsQuiet(args[i])
  BY <1>2, VisitEntries
<1> HIDE DEF args, rest
<1>6. args \in [1..k -> S]
  BY <1>5
<1> HIDE DEF S
<1>7. args \in Seq(S)
  BY <1>6, SeqDef
<1>8. IsTuple(args) /\ Len(args) = k
  BY <1>5, <1>7, Tuples, LenProperties
<1>9. IsTuple(last) /\ DOMAIN last = {1} /\ last[1] = rest /\ Len(last) = 1
  BY ShortTuples
<1> HIDE DEF last
<1>10. IsJoined(args, last, s)
  BY <1>8, <1>9, Joined
<1> HIDE DEF s
<1>11. /\ IsTuple(s) /\ DOMAIN s = 1..k + 1 /\ s[k + 1] = rest
       /\ \A i \in 1..k : s[i] = args[i]
  BY <1>5, <1>8, <1>9, <1>10 DEF IsJoined
<1>12. \A i \in DOMAIN s : i \in 1..k \/ i = k + 1
  BY <1>11
<1>13. \A i \in DOMAIN s : IsQuiet(s[i])
  BY <1>4, <1>5, <1>11, <1>12
<1>14. nodes' \in Nat /\ nodes' >= nodes /\ \A i \in 1..k : nodes + i - 1 \in nodes..nodes' - 1
  BY <1>1, <1>2
<1>15. \A i \in DOMAIN s : Visits(s[i]) \subseteq nodes..nodes' - 1
  BY <1>4, <1>5, <1>11, <1>12, <1>14
<1>16. Prepared(s)
  <2> SUFFICES ASSUME NEW i \in DOMAIN s, NEW n \in Uses(s[i])
               PROVE  \E j \in 1..i - 1 : /\ n \in Visits(s[j])
                                          /\ \A m \in j..i - 1 : IsQuiet(s[m])
    BY DEF Prepared
  <2>1. i = k + 1 /\ n \in Uses(rest)
    BY <1>5, <1>11, <1>12
  <2>2. PICK j \in 1..k : n = nodes + j - 1
    BY <1>3, <1>4, <2>1
  <2>3. n \in Visits(s[j])
    BY <1>5, <1>11, <2>2
  <2>4. j \in 1..i - 1 /\ \A m \in j..i - 1 : m \in DOMAIN s
    BY <1>11, <2>1
  <2> QED
    BY <1>13, <2>3, <2>4
<1>17. \E m \in DOMAIN s : Top.node \in Owns(s[m])
  <2>1. k + 1 \in DOMAIN s
    BY <1>11
  <2> QED
    BY <1>4, <1>11, <2>1
<1> QED
  BY <1>1, <1>11, <1>13, <1>14, <1>15, <1>16, <1>17, VisitKeepsValues

-----------------------------------------------------------------------------
(* The steps of instructions.                                                *)

(* A step that is no part of an expression, and whose lines use no value.    *)
LEMMA InstructionKeepsValues ==
  ASSUME IInv, VInv, NEW op \in {"instr", "body", "block", "jump"}, At(op),
         NEW items, IsTuple(items), Become(items), NEW lines, IsTuple(lines), Emit(lines),
         \A i \in DOMAIN lines : lines[i].fn = functions /\ lines[i].use = {},
         UNCHANGED <<functions, register_reference_>>, nodes' \in Nat, nodes' >= nodes,
         \A i \in DOMAIN items : Visits(items[i]) \subseteq nodes..nodes' - 1,
         Prepared(items)
  PROVE  VInv'
<1>1. TypeOK /\ todo # <<>> /\ Top.op = op
  BY TopTyped DEF IInv
<1>2. Covered(lines, functions)
  BY DEF Covered, LineOperands
<1>3. Moves(items, lines)
  BY <1>1, <1>2 DEF Moves
<1>4. Delivers(items, lines)
  BY <1>1 DEF Delivers, IsQuiet
<1> QED
  BY <1>3, <1>4, ValuesKept

LEMMA SilentKeepsValues ==
  ASSUME IInv, VInv, NEW op \in {"instr", "body", "block"}, At(op),
         NEW items, IsTuple(items), Become(items),
         UNCHANGED <<out, functions, register_reference_>>, nodes' \in Nat, nodes' >= nodes,
         \A i \in DOMAIN items : Visits(items[i]) \subseteq nodes..nodes' - 1,
         Prepared(items)
  PROVE  VInv'
<1>1. Emit(<<>>) /\ IsTuple(<<>>) /\ DOMAIN <<>> = {}
  BY NoLines DEF IInv
<1> QED
  BY <1>1, InstructionKeepsValues

LEMMA InstructionValues ==
  ASSUME IInv, VInv,
         \/ \E t \in SourceTypes : VisitExpressionInstruction(t)
         \/ VisitAssignmentInstruction
         \/ \E t \in SourceTypes : VisitReturnInstruction(t)
         \/ VisitCompoundInstruction \/ NextInstruction \/ EndCompound
  PROVE  VInv'
<1>1. nodes \in Nat /\ \A m : m = nodes + 1 => m \in Nat /\ m >= nodes /\ nodes \in nodes..m - 1
  BY DEF IInv, TypeOK
<1>2. ASSUME NEW t \in SourceTypes, VisitExpressionInstruction(t)
      PROVE  VInv'
  <2> DEFINE a == ExprItem(nodes, t)
             s == <<a>>
  <2>1. /\ At("instr") /\ Become(s) /\ nodes' = nodes + 1
        /\ UNCHANGED <<out, functions, register_reference_>>
    BY <1>2 DEF VisitExpressionInstruction, program
  <2>2. Visits(a) = {nodes} /\ Uses(a) = {}
    BY VisitEntries
  <2> HIDE DEF a
  <2>3. IsTuple(s) /\ Prepared(s) /\ \A i \in DOMAIN s : s[i] = a
    BY <2>2, ShortTuples, ShortItems, PreparedItems
  <2> HIDE DEF s
  <2> QED
    BY <1>1, <2>1, <2>2, <2>3, SilentKeepsValues
<1>3. CASE VisitAssignmentInstruction
  <2> DEFINE a == AssignItem(nodes)
             s == <<a>>
  <2>1. /\ At("instr") /\ Become(s) /\ nodes' = nodes + 1
        /\ UNCHANGED <<out, functions, register_reference_>>
    BY <1>3 DEF VisitAssignmentInstruction, program
  <2>2. Visits(a) = {nodes} /\ Uses(a) = {}
    BY VisitEntries
  <2> HIDE DEF a
  <2>3. IsTuple(s) /\ Prepared(s) /\ \A i \in DOMAIN s : s[i] = a
    BY <2>2, ShortTuples, ShortItems, PreparedItems
  <2> HIDE DEF s
  <2> QED
    BY <1>1, <2>1, <2>2, <2>3, SilentKeepsValues
<1>4. ASSUME NEW t \in SourceTypes, VisitReturnInstruction(t)
      PROVE  VInv'
  <2> DEFINE a == ExprItem(nodes, t)
             b == ReturnRest(t, nodes)
             s == <<a, b>>
  <2>1. /\ At("instr") /\ Become(s) /\ nodes' = nodes + 1
        /\ UNCHANGED <<out, functions, register_reference_>>
    BY <1>4 DEF VisitReturnInstruction, program
  <2>2. /\ Visits(a) = {nodes} /\ Uses(a) = {} /\ IsQuiet(a)
        /\ Visits(b) = {} /\ Uses(b) = {nodes}
    BY VisitEntries, RestEntries
  <2> HIDE DEF a, b
  <2>3. IsTuple(s) /\ Prepared(s) /\ \A i \in DOMAIN s : s[i] = a \/ s[i] = b
    BY <2>2, ShortTuples, ShortItems, PreparedItems
  <2> HIDE DEF s
  <2> QED
    BY <1>1, <2>1, <2>2, <2>3, SilentKeepsValues
<1>5. CASE VisitCompoundInstruction
  <2> DEFINE a == BlockItem(TRUE)
             s == <<a>>
  <2>1. /\ At("body") \/ At("instr")
        /\ Become(s) /\ nodes' = nodes /\ UNCHANGED <<out, functions, register_reference_>>
    BY <1>5 DEF VisitCompoundInstruction
  <2>2. Visits(a) = {} /\ Uses(a) = {}
    BY VisitEntries
  <2> HIDE DEF a
  <2>3. IsTuple(s) /\ Prepared(s) /\ \A i \in DOMAIN s : s[i] = a
    BY <2>2, ShortTuples, ShortItems, PreparedItems
  <2> HIDE DEF s
  <2> QED
    BY <1>1, <2>1, <2>2, <2>3, SilentKeepsValues
<1>6. CASE NextInstruction
  <2> DEFINE a == InstrItem
             b == BlockItem(FALSE)
             s == <<a, b>>
  <2>1. /\ At("block") /\ Become(s) /\ nodes' = nodes + 1
        /\ UNCHANGED <<out, functions, register_reference_>>
    BY <1>6 DEF NextInstruction, program
  <2>2. Visits(a) = {} /\ Uses(a) = {} /\ Visits(b) = {} /\ Uses(b) = {}
    BY VisitEntries
  <2> HIDE DEF a, b
  <2>3. IsTuple(s) /\ Prepared(s) /\ \A i \in DOMAIN s : s[i] = a \/ s[i] = b
    BY <2>2, ShortTuples, ShortItems, PreparedItems
  <2> HIDE DEF s
  <2> QED
    BY <1>1, <2>1, <2>2, <2>3, SilentKeepsValues
<1>7. CASE EndCompound
  <2>1. /\ At("block") /\ Become(<<>>) /\ nodes' = nodes
        /\ UNCHANGED <<out, functions, register_reference_>>
    BY <1>7 DEF EndCompound
  <2> QED
    BY <1>1, <2>1, ShortTuples, ShortItems, PreparedItems, SilentKeepsValues
<1> QED
  BY <1>2, <1>3, <1>4, <1>5, <1>6, <1>7

LEMMA DeclareLocalValues ==
  ASSUME IInv, VInv, NEW sym \in Symbols, DeclareLocal(sym)
  PROVE  VInv'
<1> DEFINE l == Plain("alloca", Pointer(sym), {})
           lines == <<l>>
           items == <<Top>>
<1>1. /\ At("block") /\ Emit(lines) /\ UNCHANGED <<todo, nodes, functions, register_reference_>>
  BY DEF DeclareLocal
<1>2. TypeOK /\ todo # <<>> /\ Top.op = "block" /\ nodes \in Nat
  BY <1>1, TopTyped DEF IInv, TypeOK
<1>3. Become(items) /\ IsTuple(items)
  BY <1>1, <1>2, StackKept
<1>4. Visits(Top) = {} /\ Uses(Top) = {}
  BY <1>2 DEF Visits, Uses
<1>5. Prepared(items) /\ \A i \in DOMAIN items : items[i] = Top
  BY <1>4, ShortItems, PreparedItems
<1>6. l.fn = functions /\ l.use = {}
  BY DEF Plain, IR
<1> HIDE DEF l
<1>7. IsTuple(lines) /\ \A i \in DOMAIN lines : lines[i] = l
  BY ShortTuples, ShortItems
<1> HIDE DEF lines, items
<1> QED
  BY <1>1, <1>2, <1>3, <1>4, <1>5, <1>6, <1>7, InstructionKeepsValues

(* Instructions that branch.  The condition of each is visited right before   *)
(* its branch.                                                               *)
LEMMA TwoLines ==
  \A l, k : LET lines == <<Br(l), LabelAt(k)>>
            IN  /\ IsTuple(lines)
                /\ \A i \in DOMAIN lines : lines[i].fn = functions /\ lines[i].use = {}
<1> SUFFICES ASSUME NEW l, NEW k
             PROVE  LET lines == <<Br(l), LabelAt(k)>>
                    IN  /\ IsTuple(lines)
                        /\ \A i \in DOMAIN lines : lines[i].fn = functions /\ lines[i].use = {}
  OBVIOUS
<1> DEFINE a == Br(l)
           b == LabelAt(k)
<1>1. a.fn = functions /\ a.use = {} /\ b.fn = functions /\ b.use = {}
  BY DEF Br, LabelAt, IR
<1> HIDE DEF a, b
<1>2. IsTuple(<<a, b>>) /\ \A i \in DOMAIN <<a, b>> : <<a, b>>[i] = a \/ <<a, b>>[i] = b
  BY ShortTuples, ShortItems
<1> QED
  BY <1>1, <1>2 DEF a, b

LEMMA WhileDoValues ==
  ASSUME IInv, VInv, VisitWhileInstruction \/ VisitDoInstruction
  PROVE  VInv'
<1>1. nodes \in Nat /\ \A m : m = nodes + 2 => m \in Nat /\ m >= nodes /\ nodes \in nodes..m - 1
  BY DEF IInv, TypeOK
<1> DEFINE lines == <<Br(Lab(0)), LabelAt(Lab(0))>>
<1>2. IsTuple(lines) /\ \A i \in DOMAIN lines : lines[i].fn = functions /\ lines[i].use = {}
  BY TwoLines
<1>3. CASE VisitWhileInstruction
  <2> DEFINE a == CondItem(nodes)
             b == BranchRest(nodes, Lab(1), Lab(2), Lab(1))
             c == InstrItem
             d == JumpRest(Lab(0), Lab(2))
             s == <<a, b, c, d>>
  <2>1. /\ At("instr") /\ Become(s) /\ nodes' = nodes + 2 /\ Emit(lines)
        /\ UNCHANGED <<functions, register_reference_>>
    BY <1>3 DEF VisitWhileInstruction, program
  <2>2. /\ Visits(a) = {nodes} /\ Uses(a) = {} /\ IsQuiet(a)
        /\ Visits(b) = {} /\ Uses(b) = {nodes} /\ Visits(c) = {} /\ Uses(c) = {}
        /\ Visits(d) = {} /\ Uses(d) = {}
    BY VisitEntries, RestEntries
  <2> HIDE DEF a, b, c, d, lines
  <2>3. IsTuple(s) /\ DOMAIN s = 1..4 /\ s[1] = a /\ s[2] = b /\ s[3] = c /\ s[4] = d
    BY FourEntries
  <2> HIDE DEF s
  <2>4. \A i \in DOMAIN s : i \in {1, 2, 3, 4}
    BY <2>3
  <2>5. \A i \in DOMAIN s : Visits(s[i]) \subseteq nodes..nodes' - 1
    BY <1>1, <2>1, <2>2, <2>3, <2>4
  <2>6. 2 > 1 /\ 2 - 1 = 1
    OBVIOUS
  <2>7. Prepared(s)
    BY <2>2, <2>3, <2>4, <2>6, PreparedByPrevious
  <2> QED
    BY <1>1, <1>2, <2>1, <2>3, <2>5, <2>7, InstructionKeepsValues
<1>4. CASE VisitDoInstruction
  <2> DEFINE a == InstrItem
             b == JumpRest(Lab(1), Lab(1))
             c == CondItem(nodes)
             d == BranchRest(nodes, Lab(0), Lab(2), Lab(2))
             s == <<a, b, c, d>>
  <2>1. /\ At("instr") /\ Become(s) /\ nodes' = nodes + 2 /\ Emit(lines)
        /\ UNCHANGED <<functions, register_reference_>>
    BY <1>4 DEF VisitDoInstruction, program
  <2>2. /\ Visits(a) = {} /\ Uses(a) = {} /\ Visits(b) = {} /\ Uses(b) = {}
        /\ Visits(c) = {nodes} /\ Uses(c) = {} /\ IsQuiet(c)
        /\ Visits(d) = {} /\ Uses(d) = {nodes}
    BY VisitEntries, RestEntries
  <2> HIDE DEF a, b, c, d, lines
  <2>3. IsTuple(s) /\ DOMAIN s = 1..4 /\ s[1] = a /\ s[2] = b /\ s[3] = c /\ s[4] = d
    BY FourEntries
  <2> HIDE DEF s
  <2>4. \A i \in DOMAIN s : i \in {1, 2, 3, 4}
    BY <2>3
  <2>5. \A i \in DOMAIN s : Visits(s[i]) \subseteq nodes..nodes' - 1
    BY <1>1, <2>1, <2>2, <2>3, <2>4
  <2>6. 4 > 1 /\ 4 - 1 = 3
    OBVIOUS
  <2>7. Prepared(s)
    BY <2>2, <2>3, <2>4, <2>6, PreparedByPrevious
  <2> QED
    BY <1>1, <1>2, <2>1, <2>3, <2>5, <2>7, InstructionKeepsValues
<1> QED
  BY <1>3, <1>4

LEMMA CondValues ==
  ASSUME IInv, VInv, NEW hasElse \in BOOLEAN, VisitCondInstruction(hasElse)
  PROVE  VInv'
<1> DEFINE a == CondItem(nodes)
           b == BranchRest(nodes, Lab(0), Lab(1), Lab(0))
           c == JumpRest(Lab(2), Lab(1))
           d == JumpRest(Lab(2), Lab(2))
           else == IF hasElse THEN <<ElseItem>> ELSE <<>>
           s == <<a, b, InstrItem, c>> \o else \o <<d>>
<1>1. /\ At("instr") /\ Become(s) /\ nodes' = nodes + (IF hasElse THEN 3 ELSE 2)
      /\ UNCHANGED <<out, functions, register_reference_>>
  BY DEF VisitCondInstruction, program
<1>2. nodes \in Nat /\ nodes' \in Nat /\ nodes' >= nodes /\ nodes \in nodes..nodes' - 1
  BY <1>1 DEF IInv, TypeOK
<1>3. /\ Visits(a) = {nodes} /\ Uses(a) = {} /\ IsQuiet(a)
      /\ Visits(b) = {} /\ Uses(b) = {nodes} /\ Visits(c) = {} /\ Uses(c) = {}
      /\ Visits(d) = {} /\ Uses(d) = {} /\ Visits(InstrItem) = {} /\ Uses(InstrItem) = {}
      /\ Visits(ElseItem) = {} /\ Uses(ElseItem) = {}
  BY VisitEntries, RestEntries
<1>4. else = <<>> \/ else = <<ElseItem>>
  OBVIOUS
<1> HIDE DEF a, b, c, d, else
<1>5. IsConditional(s, a, b, InstrItem, c, ElseItem, d)
  BY <1>4, CondEntries
<1> HIDE DEF s
<1>6. \A i \in DOMAIN s :
        \/ i = 1 /\ s[i] = a
        \/ i = 2 /\ s[i] = b /\ s[i - 1] = a /\ i > 1
        \/ s[i] \in {InstrItem, c, d, ElseItem}
  <2>1. 2 - 1 = 1 /\ 2 > 1
    OBVIOUS
  <2> QED
    BY <1>5, <2>1 DEF IsConditional
<1>7. \A i \in DOMAIN s : Visits(s[i]) \subseteq nodes..nodes' - 1
  BY <1>2, <1>3, <1>6
<1>8. IsTuple(s)
  BY <1>5 DEF IsConditional
<1>9. Prepared(s)
  BY <1>3, <1>6, <1>8, PreparedByPrevious
<1> QED
  BY <1>1, <1>2, <1>7, <1>8, <1>9, SilentKeepsValues

LEMMA ForValues ==
  ASSUME IInv, VInv, VisitForInstruction
  PROVE  VInv'
<1> DEFINE a == AssignItem(nodes)
           b == JumpRest(Lab(0), Lab(0))
           c == CondItem(nodes + 1)
           d == BranchRest(nodes + 1, Lab(1), Lab(3), Lab(1))
           e == InstrItem
           f == JumpRest(Lab(2), Lab(2))
           g == AssignItem(nodes + 2)
           h == JumpRest(Lab(0), Lab(3))
           s == <<a, b, c, d, e, f, g, h>>
<1>1. /\ At("instr") /\ Become(s) /\ nodes' = nodes + 4
      /\ UNCHANGED <<out, functions, register_reference_>>
  BY DEF VisitForInstruction, program
<1>2. /\ nodes \in Nat /\ nodes' \in Nat /\ nodes' >= nodes
      /\ {nodes, nodes + 1, nodes + 2} \subseteq nodes..nodes' - 1
  BY <1>1, SMTT(30) DEF IInv, TypeOK
<1>3. /\ Visits(a) = {nodes} /\ Uses(a) = {} /\ Visits(b) = {} /\ Uses(b) = {}
      /\ Visits(c) = {nodes + 1} /\ Uses(c) = {} /\ IsQuiet(c)
      /\ Visits(d) = {} /\ Uses(d) = {nodes + 1} /\ Visits(e) = {} /\ Uses(e) = {}
      /\ Visits(f) = {} /\ Uses(f) = {} /\ Visits(g) = {nodes + 2} /\ Uses(g) = {}
      /\ Visits(h) = {} /\ Uses(h) = {}
  BY VisitEntries, RestEntries
<1> HIDE DEF a, b, c, d, e, f, g, h
<1>4. IsTuple(s) /\ DOMAIN s = 1..8
  BY EightEntries
<1>5. /\ s[1] = a /\ s[2] = b /\ s[3] = c /\ s[4] = d
      /\ s[5] = e /\ s[6] = f /\ s[7] = g /\ s[8] = h
  OBVIOUS
<1> HIDE DEF s
<1>6. \A i \in DOMAIN s : i \in {1, 2, 3, 4, 5, 6, 7, 8}
  BY <1>4
<1>7. \A i \in DOMAIN s : Visits(s[i]) \subseteq nodes..nodes' - 1
  BY <1>2, <1>3, <1>5, <1>6
<1>8. 4 - 1 = 3 /\ 4 > 1
  OBVIOUS
<1>9. \A i \in DOMAIN s : i # 4 => Uses(s[i]) = {}
  BY <1>3, <1>5, <1>6
<1>10. Prepared(s)
  BY <1>3, <1>4, <1>5, <1>8, <1>9, PreparedByPrevious
<1> QED
  BY <1>1, <1>2, <1>4, <1>7, <1>10, SilentKeepsValues

LEMMA ResumedValues ==
  ASSUME IInv, VInv, BranchResumed \/ JumpResumed
  PROVE  VInv'
<1>1. TypeOK /\ nodes \in Nat
  BY DEF IInv, TypeOK
<1>2. IsTuple(<<>>) /\ DOMAIN <<>> = {} /\ Prepared(<<>>)
  BY ShortTuples, PreparedItems
<1>3. CASE JumpResumed
  <2> DEFINE lines == <<Br(Top.target), LabelAt(Top.at)>>
  <2>1. /\ At("jump") /\ Become(<<>>) /\ Emit(lines) /\ nodes' = nodes
        /\ UNCHANGED <<functions, register_reference_>>
    BY <1>3 DEF JumpResumed, program
  <2>2. IsTuple(lines) /\ \A i \in DOMAIN lines : lines[i].fn = functions /\ lines[i].use = {}
    BY TwoLines
  <2> HIDE DEF lines
  <2> QED
    BY <1>1, <1>2, <2>1, <2>2, InstructionKeepsValues
<1>4. CASE BranchResumed
  <2> DEFINE r == register_reference_[Top.node]
             l == CondBr(r, Top.yes, Top.no)
             k == LabelAt(Top.at)
             lines == <<l, k>>
  <2>1. /\ At("branch") /\ Become(<<>>) /\ Emit(lines) /\ nodes' = nodes
        /\ UNCHANGED <<functions, register_reference_>>
    BY <1>4 DEF BranchResumed, program
  <2>2. todo # <<>> /\ Top.op = "branch"
    BY <1>1, <2>1, TopTyped
  <2>3. Uses(Top) = {Top.node} /\ Visits(Top) = {} /\ ~IsQuiet(Top)
    BY <2>2 DEF Uses, Visits, IsQuiet
  <2>4. Available(r)
    BY <1>1, <2>1, <2>3, OperandAvailable
  <2> HIDE DEF r
  <2>5. l.fn = functions /\ l.op = "cbr" /\ l.use = {r} /\ k.fn = functions /\ k.use = {}
    BY DEF CondBr, LabelAt, IR
  <2> HIDE DEF l, k
  <2>6. IsTuple(lines) /\ DOMAIN lines = {1, 2} /\ lines[1] = l /\ lines[2] = k
    BY ShortTuples
  <2> HIDE DEF lines
  <2>7. \A i \in 1..1 : lines[i].op # "label"
    BY <2>5, <2>6
  <2>8. LineOperands(l) \subseteq {r} /\ LineOperands(k) = {}
    BY <2>5 DEF LineOperands
  <2>9. Covered(lines, functions)
    BY <2>4, <2>5, <2>6, <2>7, <2>8 DEF Covered
  <2>10. Moves(<<>>, lines) /\ Delivers(<<>>, lines)
    BY <1>1, <1>2, <2>1, <2>2, <2>3, <2>6, <2>9 DEF Moves, Delivers
  <2> QED
    BY <1>2, <2>10, ValuesKept
<1> QED
  BY <1>3, <1>4

(* A return copies a string that it frees before it returns it.              *)
LEMMA ReturnCovered ==
  ASSUME NEW t, NEW reg, Available(reg)
  PROVE  Covered(ReturnLines(t, reg), functions)
<1> DEFINE c == Plain("copy", ReturnCopy, {reg})
           f == Plain("free", NoReg, Freed(t, reg))
           x == IF NeedsCopy(t, reg) THEN ReturnCopy ELSE reg
           r == Ret(t, x)
           copy == IF NeedsCopy(t, reg) THEN <<c>> ELSE <<>>
           free == IF Freed(t, reg) # {} THEN <<f>> ELSE <<>>
           front == copy \o free
           last == <<r>>
           lines == front \o last
<1>1. ReturnLines(t, reg) = lines
  BY DEF ReturnLines
<1>2. \A i \in DOMAIN lines : lines[i].fn = functions /\ lines[i].op # "label"
  <2>1. \A op \in ReturnOps : op # "label"
    BY DEF ReturnOps
  <2> HIDE DEF lines
  <2> QED
    BY <1>1, <2>1, ReturnLineOps
<1>3. LineOperands(r) \subseteq {x} /\ LineOperands(c) \subseteq {reg}
  BY DEF LineOperands, Ret, Plain, IR
<1>4. f.op = "free" /\ c.op = "copy" /\ c.def = ReturnCopy
  BY DEF Plain, IR
<1>5. NoReg.name # "tmp" /\ ReturnCopy.name = "tmp"
  BY Zenon DEF NoReg, ReturnCopy, Reg
<1>6. ReturnCopy \in LineDefines(c)
  BY <1>4, <1>5 DEF LineDefines
<1> HIDE DEF c, f, r
<1>7. /\ IsTuple(copy) /\ \A i \in DOMAIN copy : copy[i] = c
      /\ NeedsCopy(t, reg) => 1 \in DOMAIN copy /\ copy[1] = c
      /\ IsTuple(free) /\ \A i \in DOMAIN free : free[i] = f
      /\ IsTuple(last) /\ DOMAIN last = {1} /\ last[1] = r
  <2>1. /\ IsTuple(copy) /\ \A i \in DOMAIN copy : copy[i] = c
    BY ShortTuples, ShortItems
  <2>2. NeedsCopy(t, reg) => 1 \in DOMAIN copy /\ copy[1] = c
    OBVIOUS
  <2>3. IsTuple(free) /\ \A i \in DOMAIN free : free[i] = f
    BY ShortTuples, ShortItems
  <2>4. IsTuple(last) /\ DOMAIN last = {1} /\ last[1] = r
    BY ShortTuples
  <2> QED
    BY <2>1, <2>2, <2>3, <2>4
<1> HIDE DEF copy, free, last
<1>8. IsJoined(copy, free, front)
  BY <1>7, Joined
<1>9. IsJoined(front, last, lines)
  BY <1>7, <1>8, Joined, ZenonT(30) DEF IsJoined
<1> HIDE DEF front, lines
<1>10. \A i \in DOMAIN front : front[i] = c \/ front[i] = f
  BY <1>7, <1>8 DEF IsJoined
<1>11. ASSUME NEW j \in DOMAIN lines, lines[j].op # "free", NEW o \in LineOperands(lines[j])
       PROVE  \/ Available(o) /\ \A k \in 1..j : lines[k].op # "label"
              \/ \E i \in 1..j - 1 : /\ o \in LineDefines(lines[i])
                                     /\ \A k \in i + 1..j : lines[k].op # "label"
  <2>1. DOMAIN lines = 1..Len(lines) /\ Len(lines) \in Nat
    BY <1>9, LenProperties DEF IsJoined, IsTuple
  <2>2. \A k \in 1..j : k \in DOMAIN lines
    BY <2>1
  <2>3. CASE j \in DOMAIN front
    <3>1. lines[j] = c
      BY <1>4, <1>9, <1>10, <1>11, <2>3 DEF IsJoined
    <3> QED
      BY <1>2, <1>3, <1>11, <2>2, <3>1
  <2>4. CASE j \notin DOMAIN front
    <3>1. lines[j] = r /\ j > Len(front)
      BY <1>7, <1>9, <2>4 DEF IsJoined
    <3>2. o = x
      BY <1>3, <1>11, <3>1
    <3>3. CASE NeedsCopy(t, reg)
      <4>1. 1 \in DOMAIN front /\ front[1] = c
        BY <1>7, <1>8, <3>3 DEF IsJoined
      <4>2. 1 \in DOMAIN lines /\ lines[1] = c /\ 1 <= Len(front) /\ Len(front) \in Nat
        BY <1>9, <4>1 DEF IsJoined
      <4>3. 1 \in 1..j - 1 /\ \A k \in 1 + 1..j : k \in DOMAIN lines
        BY <2>1, <3>1, <4>2
      <4>4. o \in LineDefines(lines[1])
        BY <1>6, <3>2, <3>3, <4>2
      <4> QED
        BY <1>2, <4>3, <4>4
    <3>4. CASE ~NeedsCopy(t, reg)
      BY <1>2, <2>2, <3>2, <3>4
    <3> QED
      BY <3>3, <3>4
  <2> QED
    BY <2>3, <2>4
<1>12. Covered(lines, functions)
  BY <1>2, <1>11 DEF Covered
<1> QED
  BY <1>1, <1>12

LEMMA ReturnValues ==
  ASSUME IInv, VInv, ReturnResumed
  PROVE  VInv'
<1> DEFINE lines == ReturnLines(Top.type, register_reference_[Top.arg])
<1>1. /\ At("return") /\ Become(<<>>) /\ Emit(lines)
      /\ UNCHANGED <<nodes, functions, register_reference_>>
  BY DEF ReturnResumed, program
<1>2. TypeOK /\ nodes \in Nat /\ todo # <<>> /\ Top.op = "return"
  BY <1>1, TopTyped DEF IInv, TypeOK
<1>3. Uses(Top) = {Top.arg} /\ Visits(Top) = {} /\ ~IsQuiet(Top)
  BY <1>2 DEF Uses, Visits, IsQuiet
<1>4. Available(register_reference_[Top.arg])
  BY <1>1, <1>2, <1>3, OperandAvailable
<1>5. IsTuple(lines) /\ Covered(lines, functions)
  BY <1>4, ReturnLineOps, ReturnCovered
<1> HIDE DEF lines
<1>6. IsTuple(<<>>) /\ DOMAIN <<>> = {} /\ Prepared(<<>>)
  BY ShortTuples, PreparedItems
<1>7. Moves(<<>>, lines) /\ Delivers(<<>>, lines)
  BY <1>1, <1>2, <1>3, <1>5, <1>6 DEF Moves, Delivers
<1> QED
  BY <1>6, <1>7, ValuesKept

-----------------------------------------------------------------------------
(* The steps of external declarations.                                       *)

(* Only EndFunctionItem is behind a body: nothing is left to be computed.    *)
LEMMA ExternalKeepsValues ==
  ASSUME IInv, VInv, NEW lines, IsTuple(lines), Emit(lines), NEW f, Covered(lines, f),
         UNCHANGED <<nodes, register_reference_>>,
         \A i \in DOMAIN todo' : Visits(todo'[i]) = {} /\ Uses(todo'[i]) = {}
  PROVE  VInv'
<1>1. TypeOK /\ ValuesComputed /\ Unvisited
  BY DEF IInv, VInv
<1>2. ValuesComputed'
  BY <1>1, LinesComputed
<1>3. Unvisited'
  BY <1>1 DEF Unvisited, Visits
<1>4. Pending'
  BY DEF Pending, Uses
<1> QED
  BY <1>2, <1>3, <1>4 DEF VInv

LEMMA DeclareGlobalValues ==
  ASSUME IInv, VInv, NEW s \in Symbols, DeclareGlobal(s)
  PROVE  VInv'
<1> DEFINE l == Plain("global", Pointer(s), {})
           lines == <<l>>
<1>1. todo' = <<>> /\ Emit(lines) /\ UNCHANGED <<nodes, register_reference_>>
  BY DEF DeclareGlobal, Idle
<1>2. l.fn = functions /\ LineOperands(l) = {}
  BY DEF Plain, IR, LineOperands
<1> HIDE DEF l
<1>3. IsTuple(lines) /\ \A i \in DOMAIN lines : lines[i] = l
  BY ShortTuples, ShortItems
<1> HIDE DEF lines
<1>4. Covered(lines, functions)
  BY <1>2, <1>3 DEF Covered
<1>5. DOMAIN todo' = {}
  BY <1>1
<1> QED
  BY <1>1, <1>3, <1>4, <1>5, ExternalKeepsValues

(* The head of a function stores the parameters, which its first line defines. *)
LEMMA FunctionBeginValues ==
  ASSUME SymbolsAssumption, IInv, VInv, NEW params \in ParamLists,
         VisitFunctionDefinition(params)
  PROVE  VInv'
<1> DEFINE head == FunctionHead(params)
           numbered(l) == [l EXCEPT !.fn = functions + 1]
           incoming == {Incoming(s) : s \in SymbolsOf(params)}
           define == numbered(Plain("define", NoReg, incoming))
           alloca(k) == numbered(ParamLines(params[k])[1])
           store(k) == numbered(ParamLines(params[k])[2])
<1>1. /\ Emit(head) /\ todo' = <<BodyItem, EndFunctionItem>>
      /\ UNCHANGED <<nodes, register_reference_>> /\ functions \in Nat
  BY DEF VisitFunctionDefinition, IInv, TypeOK
<1>2. params \in Seq(Symbols)
  BY SeqMonotonic DEF SymbolsAssumption, Locals
<1>3. /\ IsTuple(head)
      /\ \A i \in DOMAIN head : /\ head[i].op \in {"define", "alloca", "store"}
                                /\ head[i].fn = functions + 1
  BY <1>1, <1>2, HeadOps
<1>4. /\ DOMAIN head = 1..1 + 2 * Len(params)
      /\ head[1] = define
      /\ \A k \in 1..Len(params) : head[2 * k] = alloca(k) /\ head[2 * k + 1] = store(k)
      /\ \A i \in DOMAIN head : i = 1 \/ \E k \in 1..Len(params) : i = 2 * k \/ i = 2 * k + 1
  BY <1>1, <1>2, HeadLines, Zenon
<1>5. LineDefines(define) = incoming /\ LineOperands(define) = {}
  BY DEF Plain, IR, LineDefines, LineOperands
<1>6. ASSUME NEW k \in 1..Len(params)
      PROVE  LineOperands(alloca(k)) = {} /\ LineOperands(store(k)) \subseteq incoming
  <2>1. params[k] \in SymbolsOf(params)
    BY <1>2, LenProperties DEF SymbolsOf
  <2>2. alloca(k).use = {} /\ store(k).use = {Incoming(params[k])}
    BY DEF ParamLines, Plain, IR
  <2> HIDE DEF alloca, store
  <2> QED
    BY <2>1, <2>2 DEF LineOperands
<1> HIDE DEF head, define, alloca, store, incoming
<1>7. Len(params) \in Nat
  BY <1>2, LenProperties
<1>8. ASSUME NEW j \in DOMAIN head, NEW r \in LineOperands(head[j])
      PROVE  \E i \in 1..j - 1 : /\ r \in LineDefines(head[i])
                                 /\ \A k \in i + 1..j : head[k].op # "label"
  <2>1. r \in incoming /\ j # 1
    BY <1>4, <1>5, <1>6, <1>8
  <2>2. 1 \in 1..j - 1 /\ \A k \in 1 + 1..j : k \in DOMAIN head
    BY <1>4, <1>7, <2>1
  <2>3. r \in LineDefines(head[1])
    BY <1>4, <1>5, <2>1
  <2> QED
    BY <1>3, <2>2, <2>3
<1>9. Covered(head, functions + 1)
  BY <1>3, <1>8 DEF Covered
<1>10. \A i \in DOMAIN todo' : todo'[i] = BodyItem \/ todo'[i] = EndFunctionItem
  BY <1>1, ShortItems
<1>11. \A i \in DOMAIN todo' : Visits(todo'[i]) = {} /\ Uses(todo'[i]) = {}
  BY <1>10, VisitEntries
<1> QED
  BY <1>1, <1>3, <1>9, <1>11, ExternalKeepsValues

LEMMA FunctionEndValues ==
  ASSUME IInv, VInv, EndFunction
  PROVE  VInv'
<1> DEFINE lines == FunctionTail
<1>1. /\ At("end_function") /\ Become(<<>>) /\ Emit(lines)
      /\ UNCHANGED <<nodes, functions, register_reference_>>
  BY DEF EndFunction, program
<1>2. TypeOK /\ nodes \in Nat /\ todo # <<>> /\ Top.op = "end_function"
  BY <1>1, TopTyped DEF IInv, TypeOK
<1>3. /\ IsTuple(lines)
      /\ \A i \in DOMAIN lines : lines[i].fn = functions /\ LineOperands(lines[i]) = {}
  BY TailOps DEF LineOperands
<1> HIDE DEF lines
<1>4. Covered(lines, functions)
  BY <1>3 DEF Covered
<1>5. IsTuple(<<>>) /\ DOMAIN <<>> = {} /\ Prepared(<<>>)
  BY ShortTuples, PreparedItems
<1>6. ~IsQuiet(Top)
  BY <1>2 DEF IsQuiet
<1>7. Moves(<<>>, lines) /\ Delivers(<<>>, lines)
  BY <1>1, <1>2, <1>3, <1>4, <1>5, <1>6 DEF Moves, Delivers
<1> QED
  BY <1>5, <1>7, ValuesKept

-----------------------------------------------------------------------------
LEMMA InitVInv ==
  ASSUME Init
  PROVE  VInv
<1>1. Lines = {} /\ DOMAIN todo = {} /\ DOMAIN register_reference_ = {}
  BY DEF Init, Lines
<1> QED
  BY <1>1 DEF VInv, Unvisited, Pending, ValuesComputed

LEMMA ExpressionValues ==
  ASSUME IInv, VInv, ExpressionStep, BoundsAssumption
  PROVE  VInv'
<1>1. \A k \in 0..MaxArgs : k \in Nat
  BY DEF BoundsAssumption
<1> QED
  BY <1>1, TerminalValues, OperatorValues, AssignmentValues, OperatorVisitValues,
     CallVisitValues DEF ExpressionStep

LEMMA NextVInv ==
  ASSUME SymbolsAssumption, BoundsAssumption, IInv, VInv, [Next]_vars
  PROVE  VInv'
<1>1. CASE VisitNull \/ Finish \/ UNCHANGED vars
  <2>1. UNCHANGED <<todo, nodes, functions, out, register_reference_>>
    BY <1>1 DEF VisitNull, Finish, vars, program
  <2> QED
    BY <2>1 DEF VInv, Unvisited, Pending, Due, Computed, Available, ValuesComputed, Lines,
       Operands, Defines, SameBlock
<1>2. CASE ExpressionStep
  BY <1>2, ExpressionValues
<1>3. CASE InstructionStep
  BY <1>1, <1>3, InstructionValues, CondValues, WhileDoValues, ForValues, ResumedValues,
     ReturnValues, DeclareLocalValues DEF InstructionStep
<1>4. CASE ExternalStep
  BY <1>1, <1>4, DeclareGlobalValues, FunctionBeginValues, FunctionEndValues DEF ExternalStep
<1> QED
  BY <1>1, <1>2, <1>3, <1>4 DEF Next, Stopped

LEMMA Values == Spec => []VInv
<1>1. Init => VInv
  BY InitVInv
<1>2. IInv /\ VInv /\ [Next]_vars => VInv'
  BY NextVInv, SymbolsAssumption, BoundsAssumption
<1> QED
  BY <1>1, <1>2, Invariance, PTL DEF Spec

(* Whatever the AST, each value that an instruction uses is defined by an      *)
(* earlier line of its basic block: the visit methods emit the operands        *)
(* before the operator, and the loops' conditions where they are tested.       *)
THEOREM ValuesAlwaysComputed == Spec => []ValuesComputed
<1>1. VInv => ValuesComputed
  BY DEF VInv
<1> QED
  BY <1>1, Values, PTL

-----------------------------------------------------------------------------
(* Memory.  The pointers of a symbol that a name may stand for.              *)

Allocated(s) ==
  \E i \in Lines : /\ out[i].def = Pointer(s)
                   /\ IF s \in Globals THEN out[i].op = "global"
                      ELSE out[i].op = "alloca" /\ out[i].fn = functions

(* Each block that is open has a table, behind that of the globals.          *)
Scopes == {it \in StackItem : it.op \in {"block", "body"}}

TablesMatchBlocks == Len(tables) = 1 + Count(todo, Scopes)

TablesAllocated ==
  /\ tables[1] \subseteq Globals
  /\ \A k \in DOMAIN tables : \A s \in tables[k] : s \in declared /\ Allocated(s)

(* A variable that is assigned may be out of sight when its store is written. *)
StoresAllocated ==
  \A i \in DOMAIN todo : todo[i].op = "store" => Allocated(todo[i].sym)

MInv == TablesMatchBlocks /\ TablesAllocated /\ StoresAllocated /\ MemoryAllocated

LEMMA LinesAllocated ==
  ASSUME TypeOK, MemoryAllocated, NEW lines, IsTuple(lines), Emit(lines),
         \A j \in DOMAIN lines : lines[j].mem # NoReg =>
           \/ \E i \in Lines :
                /\ out[i].def = lines[j].mem
                /\ out[i].op = "global" \/ (out[i].op = "alloca" /\ out[i].fn = lines[j].fn)
           \/ \E i \in 1..j - 1 : /\ lines[i].def = lines[j].mem
                                  /\ lines[i].op = "alloca" /\ lines[i].fn = lines[j].fn
  PROVE  MemoryAllocated'
<1>1. /\ IsTuple(out') /\ Len(out) \in Nat /\ Len(lines) \in Nat
      /\ DOMAIN out = 1..Len(out) /\ DOMAIN lines = 1..Len(lines)
      /\ DOMAIN out' = 1..Len(out) + Len(lines)
      /\ \A i \in DOMAIN out : out'[i] = out[i]
      /\ \A i \in DOMAIN lines : out'[Len(out) + i] = lines[i]
  BY Written DEF IsJoined
<1>2. Lines' = DOMAIN out' /\ Lines = DOMAIN out
  BY Written DEF Lines, IsJoined
<1> SUFFICES ASSUME NEW j \in DOMAIN out', out'[j].mem # NoReg
             PROVE  \E i \in 1..j - 1 :
                      /\ out'[i].def = out'[j].mem
                      /\ out'[i].op = "global" \/ (out'[i].op = "alloca" /\ out'[i].fn = out'[j].fn)
  BY <1>2 DEF MemoryAllocated
<1>3. CASE j \in DOMAIN out
  <2>1. out'[j] = out[j]
    BY <1>1, <1>3
  <2>2. PICK i \in 1..j - 1 :
          /\ out[i].def = out[j].mem
          /\ out[i].op = "global" \/ (out[i].op = "alloca" /\ out[i].fn = out[j].fn)
    BY <1>2, <1>3, <2>1 DEF MemoryAllocated
  <2>3. i \in DOMAIN out
    BY <1>1, <1>3
  <2> QED
    BY <1>1, <2>1, <2>2, <2>3
<1>4. CASE j \notin DOMAIN out
  <2>1. PICK m \in DOMAIN lines : j = Len(out) + m
    <3>1. j \in Int /\ j - Len(out) \in DOMAIN lines /\ j = Len(out) + (j - Len(out))
      BY <1>1, <1>4
    <3> QED
      BY <3>1
  <2>2. out'[j] = lines[m]
    BY <1>1, <2>1
  <2>3. ASSUME NEW i \in Lines, out[i].def = lines[m].mem,
               out[i].op = "global" \/ (out[i].op = "alloca" /\ out[i].fn = lines[m].fn)
        PROVE  i \in 1..j - 1 /\ out'[i] = out[i]
    BY <1>1, <1>2, <2>1
  <2>4. ASSUME NEW i \in 1..m - 1
        PROVE  Len(out) + i \in 1..j - 1 /\ out'[Len(out) + i] = lines[i]
    <3>1. i \in DOMAIN lines /\ Len(out) + i \in 1..j - 1
      BY <1>1, <2>1
    <3> QED
      BY <1>1, <3>1
  <2> QED
    BY <2>2, <2>3, <2>4
<1> QED
  BY <1>3, <1>4

(* A line that addresses an allocated variable finds its memory.             *)
LEMMA AllocatedMeans ==
  ASSUME NEW s, Allocated(s)
  PROVE  \E i \in Lines :
           /\ out[i].def = Pointer(s)
           /\ out[i].op = "global" \/ (out[i].op = "alloca" /\ out[i].fn = functions)
BY DEF Allocated

LEMMA VisibleAllocated ==
  ASSUME TypeOK, MInv, NEW s, Visible(s)
  PROVE  Allocated(s)
<1>1. DOMAIN tables = 1..Len(tables)
  BY LenProperties DEF TypeOK
<1> QED
  BY <1>1 DEF Visible, MInv, TablesAllocated

LEMMA AllocatedKept ==
  ASSUME TypeOK, NEW lines, IsTuple(lines), Emit(lines), UNCHANGED <<functions, renamed>>
  PROVE  /\ \A s : Pointer(s)' = Pointer(s)
         /\ \A s : Allocated(s) => Allocated(s)'
<1>1. \A i \in Lines : i \in Lines' /\ out'[i] = out[i]
  BY Written DEF Lines, IsJoined
<1>2. \A s : Pointer(s)' = Pointer(s)
  BY DEF Pointer, SubName
<1>3. ASSUME NEW s, Allocated(s)
      PROVE  Allocated(s)'
  <2>1. PICK i \in Lines : /\ out[i].def = Pointer(s)
                           /\ IF s \in Globals THEN out[i].op = "global"
                              ELSE out[i].op = "alloca" /\ out[i].fn = functions
    BY <1>3 DEF Allocated
  <2>2. i \in Lines' /\ out'[i] = out[i] /\ Pointer(s)' = Pointer(s)
    BY <1>1, <1>2
  <2> QED
    BY <2>1, <2>2 DEF Allocated
<1> QED
  BY <1>2, <1>3

(* A step of the visitor that only addresses allocated variables.            *)
LEMMA MemoryKept ==
  ASSUME TypeOK, MInv, todo # <<>>, NEW items, IsTuple(items), Become(items),
         \A i \in DOMAIN items : items[i].op = "store" => Allocated(items[i].sym),
         NEW lines, IsTuple(lines), Emit(lines),
         \A i \in DOMAIN lines :
           /\ lines[i].fn = functions
           /\ lines[i].mem # NoReg => \E s : Allocated(s) /\ lines[i].mem = Pointer(s),
         UNCHANGED <<functions, renamed>>
  PROVE  /\ \A s : Allocated(s) => Allocated(s)'
         /\ StoresAllocated' /\ MemoryAllocated'
<1>1. \A s : Allocated(s) => Allocated(s)'
  BY AllocatedKept
<1>2. StoresAllocated'
  <2>1. IsReplaced(todo, items, todo')
    BY Stacked
  <2>2. ASSUME NEW i \in DOMAIN todo', todo'[i].op = "store", NEW x, x = todo'[i].sym
        PROVE  Allocated(x)'
    <3>2. CASE i \in DOMAIN items /\ todo'[i] = items[i]
      BY <1>1, <2>2, <3>2
    <3>3. CASE i - Len(items) + 1 \in 2..Len(todo) /\ todo'[i] = todo[i - Len(items) + 1]
      <4>1. i - Len(items) + 1 \in DOMAIN todo
        BY <2>1, <3>3 DEF IsReplaced
      <4>2. Allocated(x)
        BY <2>2, <3>3, <4>1 DEF MInv, StoresAllocated
      <4> QED
        BY <1>1, <4>2
    <3> QED
      BY <2>1, <3>2, <3>3 DEF IsReplaced
  <2> QED
    BY <2>2 DEF StoresAllocated, Allocated
<1>3. \A j \in DOMAIN lines : lines[j].mem # NoReg =>
        \E i \in Lines :
          /\ out[i].def = lines[j].mem
          /\ out[i].op = "global" \/ (out[i].op = "alloca" /\ out[i].fn = lines[j].fn)
  BY AllocatedMeans
<1>4. MemoryAllocated'
  BY <1>3, LinesAllocated DEF MInv
<1> QED
  BY <1>1, <1>2, <1>4

LEMMA ScopesCounted ==
  ASSUME TypeOK, todo # <<>>, NEW items, IsTuple(items), Become(items)
  PROVE  /\ Count(todo', Scopes) + (IF Top \in Scopes THEN 1 ELSE 0)
              = Count(items, Scopes) + Count(todo, Scopes)
         /\ Count(todo', Scopes) \in Nat /\ Count(items, Scopes) \in Nat
         /\ Count(todo, Scopes) \in Nat
<1> DEFINE S == StackItem \union {items[i] : i \in DOMAIN items}
<1>1. todo \in Seq(S) /\ items \in Seq(S)
  BY SeqMonotonic DEF TypeOK, IsTuple
<1> HIDE DEF S
<1>2. Top = todo[1]
  BY Stacked
<1>3. todo' \in Seq(S)
  BY <1>1, FirstReplaced DEF Become
<1> QED
  BY <1>1, <1>2, <1>3, CountReplaced, CountTyped, ZenonT(30) DEF Become

LEMMA NoScopes ==
  ASSUME NEW items, IsTuple(items), \A i \in DOMAIN items : items[i].op \notin {"block", "body"}
  PROVE  Count(items, Scopes) = 0
BY CountNone DEF IsTuple, Scopes

(* The tables stay, and so do the blocks.                                    *)
LEMMA BlocksKept ==
  ASSUME TypeOK, MInv, todo # <<>>, NEW items, IsTuple(items), Become(items),
         Count(items, Scopes) = (IF Top \in Scopes THEN 1 ELSE 0), UNCHANGED scopes,
         \A s : Allocated(s) => Allocated(s)', StoresAllocated', MemoryAllocated'
  PROVE  MInv'
<1>1. UNCHANGED <<tables, declared>>
  BY DEF scopes
<1>2. TablesMatchBlocks'
  BY <1>1, ScopesCounted DEF MInv, TablesMatchBlocks
<1>3. TablesAllocated'
  BY <1>1 DEF MInv, TablesAllocated
<1> QED
  BY <1>2, <1>3 DEF MInv

LEMMA ExpressionMemory ==
  ASSUME TypeOK, MInv, NEW items, NEW lines, Evaluates(items, lines)
  PROVE  MInv'
<1>1. /\ todo # <<>> /\ IsTuple(items) /\ Become(items) /\ IsTuple(lines) /\ Emit(lines)
      /\ UNCHANGED <<scopes, functions, renamed>>
      /\ \A i \in DOMAIN items : IsPart(items[i])
      /\ \A i \in DOMAIN lines : Computes(lines[i]) /\ Addresses(lines[i])
  BY DEF Evaluates, program
<1>2. Top \notin Scopes
  BY DEF Evaluates, ExpressionOps, Scopes
<1>3. Count(items, Scopes) = 0
  BY <1>1, NoScopes DEF IsPart
<1>4. \A i \in DOMAIN items : items[i].op = "store" => Allocated(items[i].sym)
  BY <1>1, VisibleAllocated DEF IsPart
<1>5. Top.op = "store" => Allocated(Top.sym)
  <2>1. Top = todo[1] /\ 1 \in DOMAIN todo
    BY <1>1, Stacked DEF IsReplaced
  <2> QED
    BY <2>1 DEF MInv, StoresAllocated
<1>6. ASSUME NEW i \in DOMAIN lines, lines[i].mem # NoReg
      PROVE  \E s : Allocated(s) /\ lines[i].mem = Pointer(s)
  <2>1. CASE lines[i].op = "load"
    BY <1>1, <2>1, VisibleAllocated DEF Addresses
  <2>2. CASE lines[i].op = "store"
    BY <1>1, <1>5, <2>2 DEF Addresses
  <2> QED
    BY <1>1, <1>6, <2>1, <2>2 DEF Computes
<1>7. \A i \in DOMAIN lines : lines[i].fn = functions
  BY <1>1 DEF Computes
<1>8. (\A s : Allocated(s) => Allocated(s)') /\ StoresAllocated' /\ MemoryAllocated'
  BY <1>1, <1>4, <1>6, <1>7, MemoryKept
<1> QED
  BY <1>1, <1>2, <1>3, <1>8, BlocksKept

-----------------------------------------------------------------------------
(* The steps of instructions that open and close no block, in the form of     *)
(* those of expressions.                                                     *)

Instructs(items, lines) ==
  /\ todo # <<>> /\ Top.op \in {"instr", "branch", "jump", "return"}
  /\ IsTuple(items) /\ Become(items)
  /\ \A i \in DOMAIN items : items[i].op \notin {"store", "block", "body", "end_function"}
  /\ IsTuple(lines) /\ Emit(lines)
  /\ \A i \in DOMAIN lines : /\ lines[i].fn = functions /\ lines[i].mem = NoReg
                             /\ lines[i].op \notin {"gep", "constants"}
  /\ UNCHANGED <<program, strings>>

LEMMA InstructionItems ==
  LET ok(it) == it.op \notin {"store", "block", "body", "end_function"}
  IN  /\ \A n, t : ok(ExprItem(n, t))
      /\ \A n : ok(CondItem(n)) /\ ok(AssignItem(n))
      /\ ok(InstrItem) /\ ok(ElseItem)
      /\ \A t, a : ok(ReturnRest(t, a))
      /\ \A n, l, k, at : ok(BranchRest(n, l, k, at))
      /\ \A l, at : ok(JumpRest(l, at))
BY DEF ExprItem, CondItem, AssignItem, InstrItem, ElseItem, ReturnRest, BranchRest, JumpRest

LEMMA BranchesPlain ==
  ASSUME NEW l, l.fn = functions, l.mem = NoReg, l.op \in {"br", "cbr"}, NEW k
  PROVE  LET lines == <<l, LabelAt(k)>>
         IN  /\ IsTuple(lines)
             /\ \A i \in DOMAIN lines : /\ lines[i].fn = functions /\ lines[i].mem = NoReg
                                        /\ lines[i].op \notin {"gep", "constants"}
<1> DEFINE b == LabelAt(k)
<1>1. b.fn = functions /\ b.mem = NoReg /\ b.op = "label"
  BY DEF LabelAt, IR
<1> HIDE DEF b
<1>2. IsTuple(<<l, b>>) /\ \A i \in DOMAIN <<l, b>> : <<l, b>>[i] = l \/ <<l, b>>[i] = b
  BY ShortTuples, ShortItems
<1> QED
  BY <1>1, <1>2 DEF b

LEMMA SimpleInstructs ==
  ASSUME TypeOK,
         \/ \E t \in SourceTypes : VisitExpressionInstruction(t)
         \/ VisitAssignmentInstruction
         \/ \E t \in SourceTypes : VisitReturnInstruction(t)
         \/ ReturnResumed \/ BranchResumed \/ JumpResumed
  PROVE  \E items, lines : Instructs(items, lines)
<1> DEFINE ok(it) == it.op \notin {"store", "block", "body", "end_function"}
<1>1. IsTuple(<<>>) /\ DOMAIN <<>> = {}
  BY ShortTuples
<1>2. ASSUME NEW t \in SourceTypes, VisitExpressionInstruction(t)
      PROVE  \E items, lines : Instructs(items, lines)
  <2> DEFINE a == ExprItem(nodes, t)
             s == <<a>>
  <2>1. At("instr") /\ Become(s) /\ UNCHANGED <<out, program, strings>>
    BY <1>2 DEF VisitExpressionInstruction
  <2>2. ok(a)
    BY InstructionItems
  <2> HIDE DEF a
  <2>3. IsTuple(s) /\ \A i \in DOMAIN s : s[i] = a
    BY ShortTuples, ShortItems
  <2> HIDE DEF s
  <2>4. Instructs(s, <<>>)
    BY <1>1, <2>1, <2>2, <2>3, NoLines, TopTyped DEF Instructs
  <2> QED
    BY <2>4
<1>3. CASE VisitAssignmentInstruction
  <2> DEFINE a == AssignItem(nodes)
             s == <<a>>
  <2>1. At("instr") /\ Become(s) /\ UNCHANGED <<out, program, strings>>
    BY <1>3 DEF VisitAssignmentInstruction
  <2>2. ok(a)
    BY InstructionItems
  <2> HIDE DEF a
  <2>3. IsTuple(s) /\ \A i \in DOMAIN s : s[i] = a
    BY ShortTuples, ShortItems
  <2> HIDE DEF s
  <2>4. Instructs(s, <<>>)
    BY <1>1, <2>1, <2>2, <2>3, NoLines, TopTyped DEF Instructs
  <2> QED
    BY <2>4
<1>4. ASSUME NEW t \in SourceTypes, VisitReturnInstruction(t)
      PROVE  \E items, lines : Instructs(items, lines)
  <2> DEFINE a == ExprItem(nodes, t)
             b == ReturnRest(t, nodes)
             s == <<a, b>>
  <2>1. At("instr") /\ Become(s) /\ UNCHANGED <<out, program, strings>>
    BY <1>4 DEF VisitReturnInstruction
  <2>2. ok(a) /\ ok(b)
    BY InstructionItems
  <2> HIDE DEF a, b
  <2>3. IsTuple(s) /\ \A i \in DOMAIN s : s[i] = a \/ s[i] = b
    BY ShortTuples, ShortItems
  <2> HIDE DEF s
  <2>4. Instructs(s, <<>>)
    BY <1>1, <2>1, <2>2, <2>3, NoLines, TopTyped DEF Instructs
  <2> QED
    BY <2>4
<1>5. CASE ReturnResumed
  <2> DEFINE lines == ReturnLines(Top.type, register_reference_[Top.arg])
  <2>1. At("return") /\ Become(<<>>) /\ Emit(lines) /\ UNCHANGED <<program, strings>>
    BY <1>5 DEF ReturnResumed
  <2>2. \A op \in ReturnOps : op \notin {"gep", "constants"}
    BY DEF ReturnOps
  <2>3. /\ IsTuple(lines)
        /\ \A i \in DOMAIN lines : /\ lines[i].fn = functions /\ lines[i].mem = NoReg
                                   /\ lines[i].op \notin {"gep", "constants"}
    BY <2>2, ReturnLineOps
  <2> HIDE DEF lines
  <2>4. Instructs(<<>>, lines)
    BY <1>1, <2>1, <2>3, TopTyped DEF Instructs
  <2> QED
    BY <2>4
<1>6. CASE BranchResumed
  <2> DEFINE l == CondBr(register_reference_[Top.node], Top.yes, Top.no)
             lines == <<l, LabelAt(Top.at)>>
  <2>1. At("branch") /\ Become(<<>>) /\ Emit(lines) /\ UNCHANGED <<program, strings>>
    BY <1>6 DEF BranchResumed
  <2>2. l.fn = functions /\ l.mem = NoReg /\ l.op = "cbr"
    BY DEF CondBr, IR
  <2> HIDE DEF l
  <2>3. /\ IsTuple(lines)
        /\ \A i \in DOMAIN lines : /\ lines[i].fn = functions /\ lines[i].mem = NoReg
                                   /\ lines[i].op \notin {"gep", "constants"}
    BY <2>2, BranchesPlain
  <2> HIDE DEF lines
  <2>4. Instructs(<<>>, lines)
    BY <1>1, <2>1, <2>3, TopTyped DEF Instructs
  <2> QED
    BY <2>4
<1>7. CASE JumpResumed
  <2> DEFINE l == Br(Top.target)
             lines == <<l, LabelAt(Top.at)>>
  <2>1. At("jump") /\ Become(<<>>) /\ Emit(lines) /\ UNCHANGED <<program, strings>>
    BY <1>7 DEF JumpResumed
  <2>2. l.fn = functions /\ l.mem = NoReg /\ l.op = "br"
    BY DEF Br, IR
  <2> HIDE DEF l
  <2>3. /\ IsTuple(lines)
        /\ \A i \in DOMAIN lines : /\ lines[i].fn = functions /\ lines[i].mem = NoReg
                                   /\ lines[i].op \notin {"gep", "constants"}
    BY <2>2, BranchesPlain
  <2> HIDE DEF lines
  <2>4. Instructs(<<>>, lines)
    BY <1>1, <2>1, <2>3, TopTyped DEF Instructs
  <2> QED
    BY <2>4
<1> QED
  BY <1>2, <1>3, <1>4, <1>5, <1>6, <1>7

LEMMA BranchingInstructs ==
  ASSUME TypeOK,
         \/ \E hasElse \in BOOLEAN : VisitCondInstruction(hasElse)
         \/ VisitWhileInstruction \/ VisitDoInstruction \/ VisitForInstruction
  PROVE  \E items, lines : Instructs(items, lines)
<1> DEFINE ok(it) == it.op \notin {"store", "block", "body", "end_function"}
           lines == <<Br(Lab(0)), LabelAt(Lab(0))>>
<1>1. IsTuple(<<>>) /\ DOMAIN <<>> = {}
  BY ShortTuples
<1>2. /\ IsTuple(lines)
      /\ \A i \in DOMAIN lines : /\ lines[i].fn = functions /\ lines[i].mem = NoReg
                                 /\ lines[i].op \notin {"gep", "constants"}
  <2> DEFINE l == Br(Lab(0))
  <2>1. l.fn = functions /\ l.mem = NoReg /\ l.op = "br"
    BY DEF Br, IR
  <2> HIDE DEF l
  <2> QED
    BY <2>1, BranchesPlain DEF l
<1>3. ASSUME NEW hasElse \in BOOLEAN, VisitCondInstruction(hasElse)
      PROVE  \E items, ls : Instructs(items, ls)
  <2> DEFINE a == CondItem(nodes)
             b == BranchRest(nodes, Lab(0), Lab(1), Lab(0))
             c == JumpRest(Lab(2), Lab(1))
             d == JumpRest(Lab(2), Lab(2))
             else == IF hasElse THEN <<ElseItem>> ELSE <<>>
             s == <<a, b, InstrItem, c>> \o else \o <<d>>
  <2>1. At("instr") /\ Become(s) /\ UNCHANGED <<out, program, strings>>
    BY <1>3 DEF VisitCondInstruction
  <2>2. ok(a) /\ ok(b) /\ ok(c) /\ ok(d) /\ ok(InstrItem) /\ ok(ElseItem)
    BY InstructionItems
  <2>3. else = <<>> \/ else = <<ElseItem>>
    OBVIOUS
  <2> HIDE DEF a, b, c, d, else
  <2>4. IsConditional(s, a, b, InstrItem, c, ElseItem, d)
    BY <2>3, CondEntries
  <2> HIDE DEF s
  <2>5. IsTuple(s) /\ \A i \in DOMAIN s : s[i] \in {a, b, c, d, InstrItem, ElseItem}
    BY <2>4 DEF IsConditional
  <2> HIDE DEF ok
  <2>6. \A i \in DOMAIN s : ok(s[i])
    BY <2>2, <2>5
  <2>7. Instructs(s, <<>>)
    BY <1>1, <2>1, <2>5, <2>6, NoLines, TopTyped DEF Instructs, ok
  <2> QED
    BY <2>7
<1>4. CASE VisitWhileInstruction
  <2> DEFINE a == CondItem(nodes)
             b == BranchRest(nodes, Lab(1), Lab(2), Lab(1))
             c == InstrItem
             d == JumpRest(Lab(0), Lab(2))
             s == <<a, b, c, d>>
  <2>1. At("instr") /\ Become(s) /\ Emit(lines) /\ UNCHANGED <<program, strings>>
    BY <1>4 DEF VisitWhileInstruction
  <2>2. ok(a) /\ ok(b) /\ ok(c) /\ ok(d)
    BY InstructionItems
  <2> HIDE DEF a, b, c, d, lines, ok
  <2>3. IsTuple(s) /\ DOMAIN s = 1..4 /\ s[1] = a /\ s[2] = b /\ s[3] = c /\ s[4] = d
    BY FourEntries
  <2> HIDE DEF s
  <2>4. \A i \in DOMAIN s : i \in {1, 2, 3, 4}
    BY <2>3
  <2>5. \A i \in DOMAIN s : ok(s[i])
    BY <2>2, <2>3, <2>4
  <2>6. Instructs(s, lines)
    BY <1>2, <2>1, <2>3, <2>5, TopTyped DEF Instructs, ok
  <2> QED
    BY <2>6
<1>5. CASE VisitDoInstruction
  <2> DEFINE a == InstrItem
             b == JumpRest(Lab(1), Lab(1))
             c == CondItem(nodes)
             d == BranchRest(nodes, Lab(0), Lab(2), Lab(2))
             s == <<a, b, c, d>>
  <2>1. At("instr") /\ Become(s) /\ Emit(lines) /\ UNCHANGED <<program, strings>>
    BY <1>5 DEF VisitDoInstruction
  <2>2. ok(a) /\ ok(b) /\ ok(c) /\ ok(d)
    BY InstructionItems
  <2> HIDE DEF a, b, c, d, lines, ok
  <2>3. IsTuple(s) /\ DOMAIN s = 1..4 /\ s[1] = a /\ s[2] = b /\ s[3] = c /\ s[4] = d
    BY FourEntries
  <2> HIDE DEF s
  <2>4. \A i \in DOMAIN s : i \in {1, 2, 3, 4}
    BY <2>3
  <2>5. \A i \in DOMAIN s : ok(s[i])
    BY <2>2, <2>3, <2>4
  <2>6. Instructs(s, lines)
    BY <1>2, <2>1, <2>3, <2>5, TopTyped DEF Instructs, ok
  <2> QED
    BY <2>6
<1>6. CASE VisitForInstruction
  <2> DEFINE a == AssignItem(nodes)
             b == JumpRest(Lab(0), Lab(0))
             c == CondItem(nodes + 1)
             d == BranchRest(nodes + 1, Lab(1), Lab(3), Lab(1))
             e == InstrItem
             f == JumpRest(Lab(2), Lab(2))
             g == AssignItem(nodes + 2)
             h == JumpRest(Lab(0), Lab(3))
             s == <<a, b, c, d, e, f, g, h>>
  <2>1. At("instr") /\ Become(s) /\ UNCHANGED <<out, program, strings>>
    BY <1>6 DEF VisitForInstruction
  <2>2. ok(a) /\ ok(b) /\ ok(c) /\ ok(d) /\ ok(e) /\ ok(f) /\ ok(g) /\ ok(h)
    BY InstructionItems
  <2> HIDE DEF a, b, c, d, e, f, g, h, ok
  <2>3. IsTuple(s) /\ DOMAIN s = 1..8
    BY EightEntries
  <2>4. /\ s[1] = a /\ s[2] = b /\ s[3] = c /\ s[4] = d
        /\ s[5] = e /\ s[6] = f /\ s[7] = g /\ s[8] = h
    OBVIOUS
  <2> HIDE DEF s
  <2>5. \A i \in DOMAIN s : i \in {1, 2, 3, 4, 5, 6, 7, 8}
    BY <2>3
  <2>6. \A i \in DOMAIN s : ok(s[i])
    BY <2>2, <2>4, <2>5
  <2>7. Instructs(s, <<>>)
    BY <1>1, <2>1, <2>3, <2>6, NoLines, TopTyped DEF Instructs, ok
  <2> QED
    BY <2>7
<1> HIDE DEF lines
<1> QED
  BY <1>3, <1>4, <1>5, <1>6

LEMMA InstructsMemory ==
  ASSUME TypeOK, MInv, NEW items, NEW lines, Instructs(items, lines)
  PROVE  MInv'
<1>1. /\ todo # <<>> /\ IsTuple(items) /\ Become(items) /\ IsTuple(lines) /\ Emit(lines)
      /\ UNCHANGED <<scopes, functions, renamed>>
      /\ \A i \in DOMAIN items : items[i].op \notin {"store", "block", "body", "end_function"}
      /\ \A i \in DOMAIN lines : lines[i].fn = functions /\ lines[i].mem = NoReg
  BY DEF Instructs, program
<1>2. Top \notin Scopes
  BY DEF Instructs, Scopes
<1>3. Count(items, Scopes) = 0
  BY <1>1, NoScopes
<1>4. (\A s : Allocated(s) => Allocated(s)') /\ StoresAllocated' /\ MemoryAllocated'
  BY <1>1, MemoryKept
<1> QED
  BY <1>1, <1>2, <1>3, <1>4, BlocksKept

(* The remaining steps of the visitor open and close blocks or declare.        *)
LEMMA BlockScopes ==
  /\ \A d \in BOOLEAN : /\ BlockItem(d) \in Scopes /\ BlockItem(d).op = "block"
                        /\ Count(<<BlockItem(d)>>, Scopes) = 1
  /\ Count(<<InstrItem, BlockItem(FALSE)>>, Scopes) = 1
<1>1. ASSUME NEW d \in BOOLEAN
      PROVE  BlockItem(d) \in Scopes /\ BlockItem(d).op = "block"
  <2>1. BlockItem(d) \in StackItem
    BY BlockItems
  <2> QED
    BY <2>1 DEF BlockItem, Scopes
<1>2. InstrItem \notin Scopes
  BY DEF InstrItem, Scopes
<1>3. ASSUME NEW d \in BOOLEAN
      PROVE  Count(<<BlockItem(d)>>, Scopes) = 1
  <2> DEFINE b == BlockItem(d)
             s == <<b>>
  <2>1. b \in Scopes
    BY <1>1
  <2> HIDE DEF b
  <2>2. s \in Seq({b}) /\ DOMAIN s = {1} /\ s[1] = b
    OBVIOUS
  <2> HIDE DEF s
  <2>3. Count(s, Scopes) = 1
    BY <2>1, <2>2, CountOne
  <2> QED
    BY <2>3 DEF s, b
<1>4. Count(<<InstrItem, BlockItem(FALSE)>>, Scopes) = 1
  <2> DEFINE b == BlockItem(FALSE)
             a == InstrItem
             s == <<a, b>>
  <2>1. b \in Scopes /\ a \notin Scopes
    BY <1>1, <1>2
  <2> HIDE DEF a, b
  <2>2. s \in Seq({a, b}) /\ DOMAIN s = 1..2 /\ s[1] = a /\ s[2] = b
    OBVIOUS
  <2> HIDE DEF s
  <2>3. 2 \in DOMAIN s /\ \A i \in DOMAIN s : s[i] \in Scopes <=> i = 2
    BY <2>1, <2>2
  <2>4. Count(s, Scopes) = 1
    BY <2>2, <2>3, CountOne
  <2> QED
    BY <2>4 DEF s, a, b
<1> QED
  BY <1>1, <1>3, <1>4

LEMMA SilentMemory ==
  ASSUME TypeOK, MInv, todo # <<>>, NEW items, IsTuple(items), Become(items),
         \A i \in DOMAIN items : items[i].op # "store",
         UNCHANGED <<out, functions, renamed>>
  PROVE  /\ \A s : Allocated(s) => Allocated(s)'
         /\ StoresAllocated' /\ MemoryAllocated'
<1>1. Emit(<<>>) /\ IsTuple(<<>>) /\ DOMAIN <<>> = {}
  BY NoLines
<1> QED
  BY <1>1, MemoryKept

LEMMA OpenBlocks ==
  ASSUME TypeOK, MInv
  PROVE  /\ Len(tables) \in Nat /\ DOMAIN tables = 1..Len(tables) /\ Len(tables) >= 1
         /\ todo = <<>> => Len(tables) = 1
         /\ todo # <<>> /\ Top \in Scopes => Len(tables) >= 2
<1>1. Len(tables) \in Nat /\ DOMAIN tables = 1..Len(tables)
  BY LenProperties DEF TypeOK
<1>2. todo \in Seq(StackItem)
  BY DEF TypeOK
<1>3. Count(todo, Scopes) \in Nat
  BY <1>2, CountTyped
<1>4. ASSUME todo = <<>>
      PROVE  Count(todo, Scopes) = 0
  <2>1. DOMAIN todo = {}
    BY <1>4
  <2> QED
    BY <1>2, <2>1, CountNone
<1>5. ASSUME todo # <<>>, Top \in Scopes
      PROVE  Count(todo, Scopes) >= 1
  <2>1. 1 \in DOMAIN todo /\ todo[1] \in Scopes
    BY <1>2, <1>5, EmptySeq, LenProperties, HeadTailProperties DEF Top
  <2> QED
    BY <1>2, <2>1, CountSome
<1> QED
  BY <1>1, <1>3, <1>4, <1>5 DEF MInv, TablesMatchBlocks

LEMMA OpenMemory ==
  ASSUME TypeOK, MInv, VisitCompoundInstruction
  PROVE  MInv'
<1> DEFINE b == BlockItem(TRUE)
           s == <<b>>
<1>1. /\ Become(s) /\ UNCHANGED <<out, functions, renamed>>
      /\ \/ At("body") /\ UNCHANGED scopes
         \/ At("instr") /\ tables' = Append(tables, {}) /\ UNCHANGED declared
  BY DEF VisitCompoundInstruction
<1>2. b.op = "block" /\ Count(s, Scopes) = 1
  BY BlockScopes
<1> HIDE DEF b
<1>3. IsTuple(s) /\ \A i \in DOMAIN s : s[i] = b
  BY ShortTuples, ShortItems
<1> HIDE DEF s
<1>4. todo # <<>> /\ Top \in StackItem
  BY <1>1, TopTyped
<1>5. (\A x : Allocated(x) => Allocated(x)') /\ StoresAllocated' /\ MemoryAllocated'
  BY <1>1, <1>2, <1>3, <1>4, SilentMemory
<1>6. CASE At("body") /\ UNCHANGED scopes
  <2>1. Top \in Scopes
    BY <1>4, <1>6, TopTyped DEF Scopes
  <2> QED
    BY <1>1, <1>2, <1>3, <1>4, <1>5, <1>6, <2>1, BlocksKept
<1>7. CASE At("instr") /\ tables' = Append(tables, {}) /\ UNCHANGED declared
  <2>1. Top \notin Scopes
    BY <1>7, TopTyped DEF Scopes
  <2>2. Count(todo', Scopes) = 1 + Count(todo, Scopes) /\ Count(todo, Scopes) \in Nat
    BY <1>1, <1>2, <1>3, <1>4, <2>1, ScopesCounted
  <2>3. /\ Len(tables') = Len(tables) + 1 /\ DOMAIN tables' = 1..Len(tables) + 1
        /\ tables'[Len(tables) + 1] = {}
        /\ \A k \in DOMAIN tables : tables'[k] = tables[k]
    BY <1>7, AppendProperties DEF TypeOK
  <2>4. TablesMatchBlocks'
    BY <2>2, <2>3, OpenBlocks DEF MInv, TablesMatchBlocks
  <2>5. \A k \in DOMAIN tables' : k \in DOMAIN tables \/ tables'[k] = {}
    BY <2>3, OpenBlocks
  <2>6. 1 \in DOMAIN tables
    BY OpenBlocks
  <2>7. TablesAllocated'
    BY <1>5, <1>7, <2>3, <2>5, <2>6 DEF MInv, TablesAllocated
  <2> QED
    BY <1>5, <2>4, <2>7 DEF MInv
<1> QED
  BY <1>1, <1>6, <1>7

LEMMA NextInstructionMemory ==
  ASSUME TypeOK, MInv, NextInstruction
  PROVE  MInv'
<1> DEFINE a == InstrItem
           b == BlockItem(FALSE)
           s == <<a, b>>
<1>1. At("block") /\ Become(s) /\ UNCHANGED <<out, functions, renamed, scopes>>
  BY DEF NextInstruction, program
<1>2. a.op = "instr" /\ b.op = "block" /\ Count(s, Scopes) = 1
  BY BlockScopes DEF InstrItem
<1> HIDE DEF a, b
<1>3. IsTuple(s) /\ \A i \in DOMAIN s : s[i] = a \/ s[i] = b
  BY ShortTuples, ShortItems
<1> HIDE DEF s
<1>4. todo # <<>> /\ Top \in Scopes
  BY <1>1, TopTyped DEF Scopes
<1>5. (\A x : Allocated(x) => Allocated(x)') /\ StoresAllocated' /\ MemoryAllocated'
  BY <1>1, <1>2, <1>3, <1>4, SilentMemory
<1> QED
  BY <1>1, <1>2, <1>3, <1>4, <1>5, BlocksKept

LEMMA CloseMemory ==
  ASSUME TypeOK, MInv, EndCompound
  PROVE  MInv'
<1>1. /\ At("block") /\ Become(<<>>) /\ UNCHANGED <<out, functions, renamed, declared>>
      /\ tables' = SubSeq(tables, 1, Len(tables) - 1)
  BY DEF EndCompound
<1>2. IsTuple(<<>>) /\ DOMAIN <<>> = {} /\ Count(<<>>, Scopes) = 0
  BY ShortTuples, NoScopes
<1>3. todo # <<>> /\ Top \in Scopes
  BY <1>1, TopTyped DEF Scopes
<1>4. (\A x : Allocated(x) => Allocated(x)') /\ StoresAllocated' /\ MemoryAllocated'
  BY <1>1, <1>2, <1>3, SilentMemory
<1>5. 1 + Count(todo', Scopes) = Count(todo, Scopes) /\ Count(todo, Scopes) \in Nat
      /\ Count(todo', Scopes) \in Nat
  BY <1>1, <1>2, <1>3, ScopesCounted
<1>6. Len(tables) \in Nat /\ Len(tables) >= 2 /\ DOMAIN tables = 1..Len(tables)
  BY <1>3, OpenBlocks
<1>7. /\ Len(tables') = Len(tables) - 1 /\ DOMAIN tables' = 1..Len(tables) - 1
      /\ \A k \in 1..Len(tables) - 1 : tables'[k] = tables[k]
  BY <1>1, <1>6 DEF TypeOK
<1>8. TablesMatchBlocks'
  BY <1>5, <1>6, <1>7 DEF MInv, TablesMatchBlocks
<1>9. 1 \in 1..Len(tables) - 1 /\ \A k \in 1..Len(tables) - 1 : k \in DOMAIN tables
  BY <1>6
<1>10. TablesAllocated'
  BY <1>1, <1>4, <1>7, <1>9 DEF MInv, TablesAllocated
<1> QED
  BY <1>4, <1>8, <1>10 DEF MInv

LEMMA SymbolEntered ==
  ASSUME TypeOK, MInv, NEW sym \in Symbols, AddSymbol(sym),
         \A x : Allocated(x) => Allocated(x)', Allocated(sym)',
         sym \in Globals \/ Len(tables) >= 2, UNCHANGED todo
  PROVE  TablesMatchBlocks' /\ TablesAllocated'
<1>1. /\ declared' = declared \union {sym}
      /\ tables' = [tables EXCEPT ![Len(tables)] = @ \union {sym}]
  BY DEF AddSymbol
<1>2. Len(tables) \in Nat /\ DOMAIN tables = 1..Len(tables) /\ Len(tables) >= 1
  BY OpenBlocks
<1>3. /\ Len(tables') = Len(tables) /\ DOMAIN tables' = DOMAIN tables
      /\ \A k \in DOMAIN tables :
           tables'[k] = IF k = Len(tables) THEN tables[k] \union {sym} ELSE tables[k]
  <2>1. tables \in [1..Len(tables) -> SUBSET Symbols]
    BY LenProperties DEF TypeOK
  <2>2. /\ tables' \in [1..Len(tables) -> SUBSET Symbols]
        /\ \A k \in 1..Len(tables) :
             tables'[k] = IF k = Len(tables) THEN tables[k] \union {sym} ELSE tables[k]
    BY <1>1, <1>2, <2>1, Zenon
  <2>3. tables' \in Seq(SUBSET Symbols)
    BY <1>2, <2>2, SeqDef
  <2>4. Len(tables') \in Nat /\ DOMAIN tables' = 1..Len(tables')
    BY <2>3, LenProperties
  <2>5. DOMAIN tables' = 1..Len(tables)
    BY <2>2
  <2>6. Len(tables') = Len(tables)
    BY <1>2, <2>4, <2>5, SameInterval
  <2> QED
    BY <1>2, <2>2, <2>5, <2>6
<1>4. TablesMatchBlocks'
  BY <1>3 DEF MInv, TablesMatchBlocks, Count
<1>5. tables'[1] \subseteq Globals
  BY <1>2, <1>3 DEF MInv, TablesAllocated
<1>6. ASSUME NEW k \in DOMAIN tables, NEW x \in tables'[k]
      PROVE  x \in declared' /\ Allocated(x)'
  <2>1. x = sym \/ x \in tables[k]
    BY <1>3
  <2>2. x \in tables[k] => x \in declared /\ Allocated(x)
    BY DEF MInv, TablesAllocated
  <2>3. x = sym => Allocated(x)'
    OBVIOUS
  <2> QED
    BY <1>1, <2>1, <2>2, <2>3
<1> QED
  BY <1>3, <1>4, <1>5, <1>6 DEF TablesAllocated

LEMMA DeclareLocalMemory ==
  ASSUME TypeOK, MInv, NEW sym \in Symbols, DeclareLocal(sym)
  PROVE  MInv'
<1> DEFINE l == Plain("alloca", Pointer(sym), {})
           lines == <<l>>
           items == <<Top>>
<1>1. /\ At("block") /\ Emit(lines) /\ UNCHANGED <<todo, functions, renamed>>
      /\ sym \notin Globals /\ AddSymbol(sym)
  BY DEF DeclareLocal, Locals
<1>2. todo # <<>> /\ Top.op = "block" /\ Top \in Scopes
  BY <1>1, TopTyped DEF Scopes
<1>3. Become(items) /\ IsTuple(items)
  BY <1>1, <1>2, StackKept
<1>4. \A i \in DOMAIN items : items[i] = Top
  BY ShortItems
<1> HIDE DEF items
<1>5. l.fn = functions /\ l.mem = NoReg /\ l.def = Pointer(sym) /\ l.op = "alloca"
  BY DEF Plain, IR
<1> HIDE DEF l
<1>6. IsTuple(lines) /\ DOMAIN lines = {1} /\ lines[1] = l
  BY ShortTuples
<1> HIDE DEF lines
<1>7. /\ \A x : Allocated(x) => Allocated(x)'
      /\ StoresAllocated' /\ MemoryAllocated'
  BY <1>1, <1>2, <1>3, <1>4, <1>5, <1>6, MemoryKept
<1>8. Pointer(sym)' = Pointer(sym)
  BY <1>1, <1>6, AllocatedKept
<1>9. Len(out) + 1 \in Lines' /\ out'[Len(out) + 1] = l
  BY <1>1, <1>6, Written DEF IsJoined, Lines
<1>10. Allocated(sym)'
  BY <1>1, <1>5, <1>8, <1>9 DEF Allocated
<1>11. Len(tables) >= 2
  BY <1>2, OpenBlocks
<1>12. TablesMatchBlocks' /\ TablesAllocated'
  BY <1>1, <1>7, <1>10, <1>11, SymbolEntered
<1> QED
  BY <1>7, <1>12 DEF MInv

LEMMA DeclareGlobalMemory ==
  ASSUME TypeOK, MInv, NEW sym \in Symbols, DeclareGlobal(sym)
  PROVE  MInv'
<1> DEFINE l == Plain("global", Pointer(sym), {})
           lines == <<l>>
<1>1. /\ todo = <<>> /\ Emit(lines) /\ UNCHANGED <<todo, functions, renamed>>
      /\ sym \in Globals /\ AddSymbol(sym)
  BY DEF DeclareGlobal, Idle
<1>2. l.mem = NoReg /\ l.def = Pointer(sym) /\ l.op = "global"
  BY DEF Plain, IR
<1> HIDE DEF l
<1>3. IsTuple(lines) /\ DOMAIN lines = {1} /\ lines[1] = l
  BY ShortTuples
<1> HIDE DEF lines
<1>4. (\A x : Allocated(x) => Allocated(x)') /\ Pointer(sym)' = Pointer(sym)
  BY <1>1, <1>3, AllocatedKept
<1>5. MemoryAllocated'
  BY <1>1, <1>2, <1>3, LinesAllocated DEF MInv
<1>6. Len(out) + 1 \in Lines' /\ out'[Len(out) + 1] = l
  BY <1>1, <1>3, Written DEF IsJoined, Lines
<1>7. Allocated(sym)'
  BY <1>1, <1>2, <1>4, <1>6 DEF Allocated
<1>8. TablesMatchBlocks' /\ TablesAllocated'
  BY <1>1, <1>4, <1>7, SymbolEntered
<1>9. StoresAllocated'
  BY <1>1 DEF StoresAllocated
<1> QED
  BY <1>5, <1>8, <1>9 DEF MInv

(* The parameters' pointers are allocated by the head of their function.       *)
LEMMA FunctionBeginMemory ==
  ASSUME SymbolsAssumption, TypeOK, MInv, NEW params \in ParamLists,
         VisitFunctionDefinition(params)
  PROVE  MInv'
<1> DEFINE head == FunctionHead(params)
           numbered(l) == [l EXCEPT !.fn = functions + 1]
           define == numbered(Plain("define", NoReg, {Incoming(s) : s \in SymbolsOf(params)}))
           alloca(k) == numbered(ParamLines(params[k])[1])
           store(k) == numbered(ParamLines(params[k])[2])
           pointer(s) == Reg(NameOf[s], "pointer", NoId)
<1>1. /\ todo = <<>> /\ Emit(head) /\ todo' = <<BodyItem, EndFunctionItem>>
      /\ functions' = functions + 1 /\ functions \in Nat
      /\ declared' = declared \union SymbolsOf(params)
      /\ tables' = Append(tables, ParamTable(params))
      /\ renamed' = renamed \union SymbolsOf(params)
      /\ SymbolsOf(params) \intersect declared = {}
  BY DEF VisitFunctionDefinition, Idle, TypeOK
<1>2. params \in Seq(Locals) /\ params \in Seq(Symbols)
  BY SeqMonotonic DEF SymbolsAssumption, Locals
<1>3. Len(params) \in Nat /\ DOMAIN params = 1..Len(params)
  BY <1>2, LenProperties
<1>4. /\ IsTuple(head) /\ DOMAIN head = 1..1 + 2 * Len(params)
      /\ head[1] = define
      /\ \A k \in 1..Len(params) : head[2 * k] = alloca(k) /\ head[2 * k + 1] = store(k)
      /\ \A i \in DOMAIN head : i = 1 \/ \E k \in 1..Len(params) : i = 2 * k \/ i = 2 * k + 1
  BY <1>1, <1>2, HeadLines, Zenon
<1>5. define.mem = NoReg
  BY DEF Plain, IR
<1>6. ASSUME NEW k \in 1..Len(params)
      PROVE  /\ alloca(k).mem = NoReg /\ alloca(k).op = "alloca"
             /\ alloca(k).fn = functions + 1 /\ alloca(k).def = pointer(params[k])
             /\ store(k).mem = pointer(params[k]) /\ store(k).fn = functions + 1
  BY DEF ParamLines, Plain, IR
<1> HIDE DEF head, define, alloca, store
<1>7. ASSUME NEW j \in DOMAIN head, head[j].mem # NoReg
      PROVE  \E i \in 1..j - 1 : /\ head[i].def = head[j].mem
                                 /\ head[i].op = "alloca" /\ head[i].fn = head[j].fn
  <2>1. PICK k \in 1..Len(params) : j = 2 * k + 1
    BY <1>4, <1>5, <1>6, <1>7
  <2>2. 2 * k \in 1..j - 1
    BY <1>3, <2>1
  <2>3. head[2 * k] = alloca(k) /\ head[j] = store(k)
    BY <1>4, <2>1
  <2> QED
    BY <1>6, <2>2, <2>3
<1>8. MemoryAllocated'
  BY <1>1, <1>4, <1>7, LinesAllocated DEF MInv
<1>9. /\ Len(out) \in Nat /\ Len(head) \in Nat /\ DOMAIN out = 1..Len(out)
      /\ DOMAIN out' = 1..Len(out) + Len(head) /\ Len(out') = Len(out) + Len(head)
      /\ \A i \in DOMAIN out : out'[i] = out[i]
      /\ \A i \in DOMAIN head : Len(out) + i \in DOMAIN out' /\ out'[Len(out) + i] = head[i]
  BY <1>1, <1>4, Written DEF IsJoined
<1>10. Lines' = DOMAIN out' /\ Lines = DOMAIN out
  BY <1>9 DEF Lines
<1>11. ASSUME NEW x \in SymbolsOf(params)
       PROVE  Allocated(x)'
  <2>1. PICK k \in 1..Len(params) : x = params[k]
    BY <1>3 DEF SymbolsOf
  <2>2. x \in Locals
    BY <1>2, <1>3, <2>1, ElementOfSeq
  <2>3. Pointer(x)' = pointer(x)
    BY <1>1, <2>2 DEF Pointer, SubName, Locals
  <2>4. 2 * k \in DOMAIN head
    BY <1>3, <1>4
  <2>5. Len(out) + 2 * k \in Lines' /\ out'[Len(out) + 2 * k] = alloca(k)
    BY <1>4, <1>9, <1>10, <2>4
  <2>6. /\ out'[Len(out) + 2 * k].def = Pointer(x)' /\ out'[Len(out) + 2 * k].op = "alloca"
        /\ out'[Len(out) + 2 * k].fn = functions'
    BY <1>1, <1>6, <2>1, <2>3, <2>5
  <2> QED
    BY <2>2, <2>5, <2>6 DEF Allocated, Locals
<1>12. /\ Len(tables) = 1 /\ DOMAIN tables = {1}
  <2>1. Len(tables) = 1 /\ DOMAIN tables = 1..Len(tables)
    BY <1>1, OpenBlocks
  <2> QED
    BY <2>1
<1>13. /\ Len(tables') = 2 /\ DOMAIN tables' = {1, 2}
       /\ tables'[1] = tables[1] /\ tables'[2] = ParamTable(params)
  <2> DEFINE table == ParamTable(params)
  <2>1. table \subseteq Symbols
    BY <1>2, <1>3, ElementOfSeq DEF ParamTable
  <2>2. tables \in Seq(SUBSET Symbols) /\ tables' = Append(tables, table)
    BY <1>1 DEF TypeOK
  <2> HIDE DEF table
  <2>3. /\ tables' \in Seq(SUBSET Symbols) /\ Len(tables') = Len(tables) + 1
        /\ \A k \in 1..Len(tables) : tables'[k] = tables[k]
        /\ tables'[Len(tables) + 1] = table
    BY <2>1, <2>2, AppendProperties
  <2>4. DOMAIN tables' = 1..Len(tables')
    BY <2>3, LenProperties
  <2> QED
    BY <1>12, <2>3, <2>4 DEF table
<1>14. ASSUME NEW x \in tables[1]
       PROVE  x \in declared /\ x \in Globals /\ Allocated(x)'
  <2>1. x \in declared /\ x \in Globals /\ Allocated(x)
    BY <1>12 DEF MInv, TablesAllocated
  <2>2. PICK i \in Lines : out[i].def = Pointer(x) /\ out[i].op = "global"
    BY <2>1 DEF Allocated
  <2>3. Pointer(x)' = Pointer(x)
    BY <2>1 DEF Pointer
  <2>4. i \in Lines' /\ out'[i] = out[i]
    BY <1>9, <1>10
  <2> QED
    BY <2>1, <2>2, <2>3, <2>4 DEF Allocated
<1>15. ParamTable(params) \subseteq SymbolsOf(params)
  BY DEF ParamTable, SymbolsOf
<1>16. TablesAllocated'
  <2>1. tables'[1] \subseteq Globals
    BY <1>13, <1>14
  <2>2. ASSUME NEW k \in DOMAIN tables', NEW x \in tables'[k]
        PROVE  x \in declared' /\ Allocated(x)'
    BY <1>1, <1>11, <1>13, <1>14, <1>15
  <2> QED
    BY <2>1, <2>2 DEF TablesAllocated
<1>17. /\ BodyItem \in Scopes /\ EndFunctionItem \notin Scopes
       /\ BodyItem.op # "store" /\ EndFunctionItem.op # "store"
  BY OtherItems DEF Scopes, BodyItem, EndFunctionItem
<1>18. /\ todo' \in Seq({BodyItem, EndFunctionItem}) /\ DOMAIN todo' = {1, 2}
       /\ todo'[1] = BodyItem /\ todo'[2] = EndFunctionItem
  <2> DEFINE a == BodyItem
             b == EndFunctionItem
             s == <<a, b>>
  <2> HIDE DEF a, b
  <2>1. s \in Seq({a, b}) /\ DOMAIN s = {1, 2} /\ s[1] = a /\ s[2] = b
    OBVIOUS
  <2> QED
    BY <1>1, <2>1 DEF a, b
<1>19. Count(todo', Scopes) = 1
  BY <1>17, <1>18, CountOne
<1>20. TablesMatchBlocks'
  BY <1>13, <1>19 DEF TablesMatchBlocks
<1>21. StoresAllocated'
  BY <1>17, <1>18 DEF StoresAllocated
<1> QED
  BY <1>8, <1>16, <1>20, <1>21 DEF MInv

LEMMA FunctionEndMemory ==
  ASSUME TypeOK, MInv, EndFunction
  PROVE  MInv'
<1> DEFINE lines == FunctionTail
<1>1. At("end_function") /\ Become(<<>>) /\ Emit(lines) /\ UNCHANGED <<functions, renamed, scopes>>
  BY DEF EndFunction, program
<1>2. todo # <<>> /\ Top \notin Scopes
  BY <1>1, TopTyped DEF Scopes
<1>3. /\ IsTuple(lines)
      /\ \A i \in DOMAIN lines : lines[i].fn = functions /\ lines[i].mem = NoReg
  BY TailOps
<1> HIDE DEF lines
<1>4. IsTuple(<<>>) /\ DOMAIN <<>> = {} /\ Count(<<>>, Scopes) = 0
  BY ShortTuples, NoScopes
<1>5. (\A x : Allocated(x) => Allocated(x)') /\ StoresAllocated' /\ MemoryAllocated'
  BY <1>1, <1>2, <1>3, <1>4, MemoryKept
<1> QED
  BY <1>1, <1>2, <1>4, <1>5, BlocksKept

LEMMA InitMInv ==
  ASSUME Init
  PROVE  MInv
<1>1. Lines = {} /\ DOMAIN todo = {} /\ DOMAIN tables = {1} /\ tables[1] = {} /\ Len(tables) = 1
  BY DEF Init, Lines
<1>2. Count(todo, Scopes) = 0
  BY <1>1, FS_EmptySet DEF Count
<1> QED
  BY <1>1, <1>2 DEF MInv, TablesMatchBlocks, TablesAllocated, StoresAllocated, MemoryAllocated

LEMMA InstructionMemory ==
  ASSUME TypeOK, MInv, InstructionStep, ~VisitNull
  PROVE  MInv'
<1>1. CASE \/ \E t \in SourceTypes : VisitExpressionInstruction(t)
           \/ VisitAssignmentInstruction
           \/ \E t \in SourceTypes : VisitReturnInstruction(t)
           \/ ReturnResumed \/ BranchResumed \/ JumpResumed
  BY <1>1, SimpleInstructs, InstructsMemory
<1>2. CASE \/ \E hasElse \in BOOLEAN : VisitCondInstruction(hasElse)
           \/ VisitWhileInstruction \/ VisitDoInstruction \/ VisitForInstruction
  BY <1>2, BranchingInstructs, InstructsMemory
<1> QED
  BY <1>1, <1>2, OpenMemory, NextInstructionMemory, CloseMemory, DeclareLocalMemory
  DEF InstructionStep

LEMMA NextMInv ==
  ASSUME SymbolsAssumption, TypeOK, MInv, [Next]_vars
  PROVE  MInv'
<1>1. ASSUME UNCHANGED <<todo, out, program>>
      PROVE  MInv'
  <2>1. UNCHANGED <<todo, out, tables, declared, functions, renamed, Lines>>
    BY <1>1 DEF program, scopes, Lines
  <2>2. ASSUME NEW s
        PROVE  Allocated(s)' <=> Allocated(s)
    BY <2>1 DEF Allocated, Pointer, SubName
  <2>3. TablesMatchBlocks'
    BY <2>1 DEF MInv, TablesMatchBlocks, Count
  <2>4. TablesAllocated'
    BY <2>1, <2>2 DEF MInv, TablesAllocated
  <2>5. StoresAllocated'
    <3>1. ASSUME NEW i \in DOMAIN todo, todo[i].op = "store", NEW x, x = todo[i].sym
          PROVE  Allocated(x)'
      BY <2>2, <3>1 DEF MInv, StoresAllocated
    <3> QED
      BY <2>1, <3>1 DEF StoresAllocated, Allocated
  <2>6. MemoryAllocated'
    BY <2>1 DEF MInv, MemoryAllocated
  <2> QED
    BY <2>3, <2>4, <2>5, <2>6 DEF MInv
<1>2. CASE VisitNull \/ Finish \/ UNCHANGED vars
  <2>1. UNCHANGED <<todo, out, program>>
    BY <1>2 DEF VisitNull, Finish, vars, program, scopes
  <2> QED
    BY <1>1, <2>1
<1>3. CASE ExpressionStep
  BY <1>1, <1>3, ExpressionEvaluates, ExpressionMemory
<1>4. CASE InstructionStep
  BY <1>2, <1>4, InstructionMemory
<1>5. CASE ExternalStep
  BY <1>2, <1>5, DeclareGlobalMemory, FunctionBeginMemory, FunctionEndMemory DEF ExternalStep
<1> QED
  BY <1>2, <1>3, <1>4, <1>5 DEF Next, Stopped

LEMMA Memory == Spec => []MInv
<1>1. Init => MInv
  BY InitMInv
<1>2. IInv /\ MInv /\ [Next]_vars => MInv'
  BY NextMInv, SymbolsAssumption DEF IInv
<1> QED
  BY <1>1, <1>2, Invariance, PTL DEF Spec

(* Every load and store addresses a global defined before it, or an alloca     *)
(* written before it in the same function: for a parameter the one its value   *)
(* was copied to, whatever blocks are opened and closed in between.           *)
THEOREM MemoryAlwaysAllocated == Spec => []MemoryAllocated
<1>1. MInv => MemoryAllocated
  BY DEF MInv
<1> QED
  BY <1>1, Memory, PTL

-----------------------------------------------------------------------------
(* String constants.  An address taken is that of a constant still to be       *)
(* written, or of one that exactly one "constants" line has written; when a    *)
(* function is closed none is left to be written.                              *)

Issued == {StrReg(n) : n \in 0..const_string_next_id_ - 1}
Waiting == {StrReg(n) : n \in const_strings_}

IdsIssued == const_strings_ \subseteq 0..const_string_next_id_ - 1

AddressesKept ==
  \A i \in Lines : out[i].op = "gep" =>
    /\ out[i].def \in Issued
    /\ \/ out[i].def \in Waiting
       \/ \E j \in Lines : out[j].op = "constants" /\ out[i].def \in out[j].use

WrittenOnce ==
  /\ \A j \in Lines : out[j].op = "constants" => out[j].use \subseteq Issued \ Waiting
  /\ \A i, j \in Lines : (i # j /\ out[i].op = "constants" /\ out[j].op = "constants") =>
       out[i].use \intersect out[j].use = {}

NoneWaiting == todo = <<>> => const_strings_ = {}

KInv == IdsIssued /\ AddressesKept /\ WrittenOnce /\ NoneWaiting

LEMMA StrRegs ==
  \A m, n : StrReg(m) = StrReg(n) => m = n
<1> SUFFICES ASSUME NEW m, NEW n, StrReg(m) = StrReg(n)
             PROVE  m = n
  OBVIOUS
<1>1. StrReg(m).id = m /\ StrReg(n).id = n
  BY DEF StrReg, Reg
<1> QED
  BY <1>1

(* The lines of the output after a step, and those that matter here.          *)
LEMMA LinesAfter ==
  ASSUME TypeOK, NEW lines, IsTuple(lines), Emit(lines)
  PROVE  /\ \A i \in Lines : i \in Lines' /\ out'[i] = out[i]
         /\ \A k \in DOMAIN lines : Len(out) + k \in Lines' /\ out'[Len(out) + k] = lines[k]
         /\ \A i \in Lines' : i \in Lines \/ \E k \in DOMAIN lines : i = Len(out) + k
         /\ \A k \in DOMAIN lines : Len(out) + k \notin Lines
<1>1. IsJoined(out, lines, out')
  BY Written
<1>2. Lines = DOMAIN out /\ Lines' = DOMAIN out'
  BY <1>1 DEF IsJoined, Lines
<1>3. ASSUME NEW i \in DOMAIN out', i \notin DOMAIN out
      PROVE  i - Len(out) \in DOMAIN lines /\ i = Len(out) + (i - Len(out))
  BY <1>1, <1>3 DEF IsJoined
<1>4. \A i \in Lines' : i \in Lines \/ \E k \in DOMAIN lines : i = Len(out) + k
  BY <1>2, <1>3
<1> QED
  BY <1>1, <1>2, <1>4 DEF IsJoined

LEMMA BottomKept ==
  ASSUME TypeOK, SInv, NEW items, IsTuple(items), Become(items), todo # <<>>,
         Top.op # "end_function"
  PROVE  todo' # <<>>
BY BottomStays DEF IsTuple

(* A step that takes no address and writes no constant.                      *)
LEMMA ConstantsKept ==
  ASSUME TypeOK, KInv, NEW lines, IsTuple(lines), Emit(lines), UNCHANGED strings,
         \A i \in DOMAIN lines : lines[i].op \notin {"gep", "constants"},
         todo' # <<>> \/ todo = <<>>
  PROVE  KInv'
<1>1. /\ \A i \in Lines : i \in Lines' /\ out'[i] = out[i]
      /\ \A i \in Lines' : i \in Lines \/ out'[i].op \notin {"gep", "constants"}
  BY LinesAfter
<1>2. UNCHANGED <<const_strings_, const_string_next_id_, Issued, Waiting>>
  BY DEF strings, Issued, Waiting
<1>3. IdsIssued' /\ NoneWaiting'
  BY <1>2 DEF KInv, IdsIssued, NoneWaiting
<1>4. WrittenOnce'
  BY <1>1, <1>2 DEF KInv, WrittenOnce
<1>5. AddressesKept'
  BY <1>1, <1>2 DEF KInv, AddressesKept
<1> QED
  BY <1>3, <1>4, <1>5 DEF KInv

LEMMA ConstantTaken ==
  ASSUME TypeOK, SInv, KInv, VisitConstString
  PROVE  KInv'
<1> DEFINE r == StrReg(const_string_next_id_)
           l == Plain("gep", r, {})
           lines == <<l>>
<1>1. /\ At("expr") /\ Become(<<>>) /\ Emit(lines)
      /\ const_string_next_id_' = const_string_next_id_ + 1
      /\ const_strings_' = const_strings_ \union {const_string_next_id_}
      /\ const_string_next_id_ \in Nat
  BY DEF VisitConstString, TypeOK
<1>2. l.op = "gep" /\ l.def = r
  BY DEF Plain, IR
<1>3. r \notin Issued
  BY <1>1, StrRegs DEF Issued
<1>4. Issued' = Issued \union {r} /\ Waiting' = Waiting \union {r}
  <2>1. 0..const_string_next_id_' - 1 = (0..const_string_next_id_ - 1) \union {const_string_next_id_}
    BY <1>1
  <2> QED
    BY <1>1, <2>1 DEF Issued, Waiting
<1>5. IdsIssued'
  BY <1>1 DEF KInv, IdsIssued
<1> HIDE DEF l, r
<1>6. IsTuple(lines) /\ DOMAIN lines = {1} /\ lines[1] = l
  BY ShortTuples
<1> HIDE DEF lines
<1>7. /\ \A i \in Lines : i \in Lines' /\ out'[i] = out[i]
      /\ \A i \in Lines' : i \in Lines \/ out'[i] = l
  BY <1>1, <1>6, LinesAfter
<1>8. WrittenOnce'
  BY <1>2, <1>3, <1>4, <1>7 DEF KInv, WrittenOnce
<1>9. AddressesKept'
  BY <1>2, <1>4, <1>7 DEF KInv, AddressesKept
<1>10. todo' # <<>>
  BY <1>1, ShortTuples, TopTyped, BottomKept
<1> QED
  BY <1>5, <1>8, <1>9, <1>10 DEF KInv, NoneWaiting

LEMMA TailConstants ==
  /\ const_strings_ = {} => \A i \in DOMAIN FunctionTail : FunctionTail[i].op # "constants"
  /\ const_strings_ # {} =>
       \E k \in DOMAIN FunctionTail :
         /\ FunctionTail[k].op = "constants" /\ FunctionTail[k].use = Waiting
         /\ \A i \in DOMAIN FunctionTail : FunctionTail[i].op = "constants" => i = k
<1> DEFINE e == Plain("end", NoReg, {})
           c == Plain("constants", NoReg, {StrReg(n) : n \in const_strings_})
           d == Plain("declare_strings", NoReg, {})
           constants == IF const_strings_ # {} THEN <<c>> ELSE <<>>
           declarations == IF StringDeclarationsDue THEN <<d>> ELSE <<>>
           front == <<e>> \o constants
           tail == front \o declarations
<1>1. /\ e.op = "end" /\ c.op = "constants" /\ d.op = "declare_strings" /\ c.use = Waiting
  BY DEF Plain, IR, Waiting
<1>2. FunctionTail = tail
  BY DEF FunctionTail
<1> HIDE DEF e, c, d
<1>3. IsTuple(<<e>>) /\ DOMAIN <<e>> = {1} /\ <<e>>[1] = e /\ Len(<<e>>) = 1
  BY ShortTuples
<1>4. IsTuple(constants) /\ IsTuple(declarations)
  BY ShortTuples
<1>5. /\ const_strings_ = {} => DOMAIN constants = {}
      /\ const_strings_ # {} => DOMAIN constants = {1} /\ constants[1] = c
  OBVIOUS
<1>6. \A i \in DOMAIN declarations : declarations[i] = d
  OBVIOUS
<1> HIDE DEF constants, declarations
<1>7. IsJoined(<<e>>, constants, front)
  BY <1>3, <1>4, Joined
<1>8. IsJoined(front, declarations, tail)
  BY <1>4, <1>7, Joined DEF IsJoined
<1> HIDE DEF front, tail
<1>9. \A i \in DOMAIN front :
        \/ front[i] = e
        \/ i - 1 \in DOMAIN constants /\ front[i] = constants[i - 1] /\ i \in Nat
  BY <1>3, <1>7 DEF IsJoined
<1>10. \A i \in DOMAIN tail : tail[i] = d \/ (i \in DOMAIN front /\ tail[i] = front[i])
  BY <1>6, <1>8 DEF IsJoined
<1>11. CASE const_strings_ = {}
  BY <1>1, <1>2, <1>5, <1>9, <1>10, <1>11
<1>12. CASE const_strings_ # {}
  <2>1. 2 \in DOMAIN front /\ front[2] = c
    BY <1>3, <1>5, <1>7, <1>12 DEF IsJoined
  <2>2. 2 \in DOMAIN tail /\ tail[2] = c
    BY <1>8, <2>1 DEF IsJoined
  <2>3. \A i \in DOMAIN tail : tail[i].op = "constants" => i = 2
    BY <1>1, <1>5, <1>9, <1>10, <1>12
  <2> QED
    BY <1>1, <1>2, <1>12, <2>2, <2>3
<1> QED
  BY <1>11, <1>12

LEMMA ConstantsWritten ==
  ASSUME TypeOK, KInv, EndFunction
  PROVE  KInv'
<1> DEFINE lines == FunctionTail
<1>1. Emit(lines) /\ const_strings_' = {} /\ UNCHANGED const_string_next_id_
  BY DEF EndFunction
<1>2. IsTuple(lines) /\ \A i \in DOMAIN lines : lines[i].op # "gep"
  BY TailOps
<1>3. Waiting' = {} /\ Issued' = Issued
  BY <1>1 DEF Waiting, Issued
<1>4. Waiting \subseteq Issued
  BY DEF KInv, IdsIssued, Issued, Waiting
<1>5. CASE const_strings_ = {}
  <2>1. \A i \in DOMAIN lines : lines[i].op # "constants"
    BY <1>5, TailConstants
  <2> HIDE DEF lines
  <2>2. /\ \A i \in Lines : i \in Lines' /\ out'[i] = out[i]
        /\ \A i \in Lines' : i \in Lines \/ out'[i].op \notin {"gep", "constants"}
    BY <1>1, <1>2, <2>1, LinesAfter
  <2>3. Waiting = {}
    BY <1>5 DEF Waiting
  <2>4. IdsIssued' /\ NoneWaiting'
    BY <1>1 DEF IdsIssued, NoneWaiting
  <2>5. WrittenOnce'
    BY <1>3, <2>2 DEF KInv, WrittenOnce
  <2>6. AddressesKept'
    BY <1>3, <2>2, <2>3 DEF KInv, AddressesKept
  <2> QED
    BY <2>4, <2>5, <2>6 DEF KInv
<1>6. CASE const_strings_ # {}
  <2>1. PICK k \in DOMAIN lines :
          /\ lines[k].op = "constants" /\ lines[k].use = Waiting
          /\ \A i \in DOMAIN lines : lines[i].op = "constants" => i = k
    BY <1>6, TailConstants
  <2> HIDE DEF lines
  <2> DEFINE new == Len(out) + k
  <2>2. /\ \A i \in Lines : i \in Lines' /\ out'[i] = out[i]
        /\ new \in Lines' /\ out'[new] = lines[k] /\ new \notin Lines
        /\ \A i \in Lines' : i \in Lines \/ i = new \/ out'[i].op \notin {"gep", "constants"}
    BY <1>1, <1>2, <2>1, LinesAfter
  <2> HIDE DEF new
  <2>3. IdsIssued' /\ NoneWaiting'
    BY <1>1 DEF IdsIssued, NoneWaiting
  <2>4. \A j \in Lines' : out'[j].op = "constants" =>
          \/ j = new /\ out'[j].use = Waiting
          \/ j \in Lines /\ out[j].op = "constants" /\ out'[j].use = out[j].use
    BY <2>1, <2>2
  <2>5. \A j \in Lines : out[j].op = "constants" => out[j].use \subseteq Issued \ Waiting
    BY DEF KInv, WrittenOnce
  <2>6. \A j \in Lines' : out'[j].op = "constants" => out'[j].use \subseteq Issued' \ Waiting'
    BY <1>3, <1>4, <2>4, <2>5
  <2>7. ASSUME NEW i \in Lines', NEW j \in Lines', i # j,
               out'[i].op = "constants", out'[j].op = "constants"
        PROVE  out'[i].use \intersect out'[j].use = {}
    BY <2>4, <2>5, <2>7 DEF KInv, WrittenOnce
  <2>8. WrittenOnce'
    BY <2>6, <2>7 DEF WrittenOnce
  <2>9. ASSUME NEW i \in Lines', out'[i].op = "gep"
        PROVE  /\ out'[i].def \in Issued'
               /\ \E j \in Lines' : out'[j].op = "constants" /\ out'[i].def \in out'[j].use
    <3>1. i \in Lines /\ out'[i] = out[i]
      BY <2>1, <2>2, <2>9
    <3>2. /\ out[i].def \in Issued
          /\ \/ out[i].def \in Waiting
             \/ \E j \in Lines : out[j].op = "constants" /\ out[i].def \in out[j].use
      BY <2>9, <3>1 DEF KInv, AddressesKept
    <3> QED
      BY <1>3, <2>1, <2>2, <3>1, <3>2
  <2>10. AddressesKept'
    BY <2>9 DEF AddressesKept
  <2> QED
    BY <2>3, <2>8, <2>10 DEF KInv
<1> QED
  BY <1>5, <1>6

LEMMA ConstantsUntouched ==
  ASSUME TypeOK, KInv, UNCHANGED <<out, strings>>, todo' # <<>> \/ todo = <<>>
  PROVE  KInv'
<1>1. Emit(<<>>) /\ IsTuple(<<>>) /\ DOMAIN <<>> = {}
  BY NoLines
<1> QED
  BY <1>1, ConstantsKept

LEMMA ExpressionConstants ==
  ASSUME TypeOK, SInv, KInv, NEW items, NEW lines, Evaluates(items, lines)
  PROVE  KInv'
<1>1. CASE VisitConstString
  BY <1>1, ConstantTaken
<1>2. CASE UNCHANGED strings /\ \A i \in DOMAIN lines : lines[i].op # "gep"
  <2>1. /\ todo # <<>> /\ Top.op # "end_function" /\ IsTuple(items) /\ Become(items)
        /\ IsTuple(lines) /\ Emit(lines) /\ \A i \in DOMAIN lines : lines[i].op # "constants"
    BY DEF Evaluates, ExpressionOps, Computes
  <2>2. todo' # <<>>
    BY <2>1, BottomKept
  <2> QED
    BY <1>2, <2>1, <2>2, ConstantsKept
<1> QED
  BY <1>1, <1>2 DEF Evaluates

LEMMA InstructsConstants ==
  ASSUME TypeOK, SInv, KInv, NEW items, NEW lines, Instructs(items, lines)
  PROVE  KInv'
<1>1. /\ todo # <<>> /\ Top.op # "end_function" /\ IsTuple(items) /\ Become(items)
      /\ IsTuple(lines) /\ Emit(lines) /\ UNCHANGED strings
      /\ \A i \in DOMAIN lines : lines[i].op \notin {"gep", "constants"}
  BY DEF Instructs
<1>2. todo' # <<>>
  BY <1>1, BottomKept
<1> QED
  BY <1>1, <1>2, ConstantsKept

LEMMA BlockConstants ==
  ASSUME TypeOK, SInv, KInv, VisitCompoundInstruction \/ NextInstruction \/ EndCompound
  PROVE  KInv'
<1>1. PICK items : IsTuple(items) /\ Become(items)
  BY ShortTuples DEF VisitCompoundInstruction, NextInstruction, EndCompound
<1>2. /\ At("body") \/ At("instr") \/ At("block")
      /\ UNCHANGED <<out, strings>>
  BY DEF VisitCompoundInstruction, NextInstruction, EndCompound
<1>3. todo # <<>> /\ Top.op # "end_function"
  BY <1>2, TopTyped
<1>4. todo' # <<>>
  BY <1>1, <1>3, BottomKept
<1> QED
  BY <1>2, <1>4, ConstantsUntouched

LEMMA DeclarationConstants ==
  ASSUME TypeOK, KInv, NEW sym \in Symbols, DeclareLocal(sym) \/ DeclareGlobal(sym)
  PROVE  KInv'
<1>1. PICK op \in {"alloca", "global"} :
        Emit(<<Plain(op, Pointer(sym), {})>>) /\ UNCHANGED <<todo, strings>>
  BY DEF DeclareLocal, DeclareGlobal
<1> DEFINE l == Plain(op, Pointer(sym), {})
           lines == <<l>>
<1>2. l.op \notin {"gep", "constants"}
  BY DEF Plain, IR
<1> HIDE DEF l
<1>3. IsTuple(lines) /\ \A i \in DOMAIN lines : lines[i] = l
  BY ShortTuples, ShortItems
<1>4. Emit(lines)
  BY <1>1 DEF l
<1> HIDE DEF lines
<1> QED
  BY <1>1, <1>2, <1>3, <1>4, ConstantsKept

LEMMA FunctionBeginConstants ==
  ASSUME SymbolsAssumption, TypeOK, KInv, NEW params \in ParamLists,
         VisitFunctionDefinition(params)
  PROVE  KInv'
<1> DEFINE head == FunctionHead(params)
<1>1. /\ todo = <<>> /\ Emit(head) /\ UNCHANGED strings /\ functions \in Nat
  BY DEF VisitFunctionDefinition, Idle, TypeOK
<1>2. params \in Seq(Symbols)
  BY SeqMonotonic DEF SymbolsAssumption, Locals
<1>3. IsTuple(head) /\ \A i \in DOMAIN head : head[i].op \notin {"gep", "constants"}
  BY <1>1, <1>2, HeadOps
<1> HIDE DEF head
<1> QED
  BY <1>1, <1>3, ConstantsKept

LEMMA InitKInv ==
  ASSUME Init
  PROVE  KInv
<1>1. Lines = {} /\ const_strings_ = {}
  BY DEF Init, Lines
<1> QED
  BY <1>1 DEF KInv, IdsIssued, AddressesKept, WrittenOnce, NoneWaiting

LEMMA InstructionConstants ==
  ASSUME TypeOK, SInv, KInv, InstructionStep, ~VisitNull
  PROVE  KInv'
<1>1. CASE \/ \E t \in SourceTypes : VisitExpressionInstruction(t)
           \/ VisitAssignmentInstruction
           \/ \E t \in SourceTypes : VisitReturnInstruction(t)
           \/ ReturnResumed \/ BranchResumed \/ JumpResumed
  BY <1>1, SimpleInstructs, InstructsConstants
<1>2. CASE \/ \E hasElse \in BOOLEAN : VisitCondInstruction(hasElse)
           \/ VisitWhileInstruction \/ VisitDoInstruction \/ VisitForInstruction
  BY <1>2, BranchingInstructs, InstructsConstants
<1> QED
  BY <1>1, <1>2, BlockConstants, DeclarationConstants DEF InstructionStep

LEMMA NextKInv ==
  ASSUME SymbolsAssumption, TypeOK, SInv, KInv, [Next]_vars
  PROVE  KInv'
<1>1. ASSUME UNCHANGED <<todo, out, strings>>
      PROVE  KInv'
  BY <1>1, ConstantsUntouched
<1>2. CASE VisitNull \/ Finish \/ UNCHANGED vars
  BY <1>1, <1>2 DEF VisitNull, Finish, vars, strings
<1>3. CASE ExpressionStep
  BY <1>1, <1>3, ExpressionEvaluates, ExpressionConstants
<1>4. CASE InstructionStep
  BY <1>2, <1>4, InstructionConstants
<1>5. CASE ExternalStep
  BY <1>2, <1>5, DeclarationConstants, FunctionBeginConstants, ConstantsWritten
  DEF ExternalStep
<1> QED
  BY <1>2, <1>3, <1>4, <1>5 DEF Next, Stopped

LEMMA KInvImplies ==
  ASSUME KInv
  PROVE  ConstStringsDefined
<1> SUFFICES ASSUME Idle, NEW i \in Lines, out[i].op = "gep"
             PROVE  Cardinality({j \in Lines : out[j].op = "constants"
                                               /\ out[i].def \in out[j].use}) = 1
  BY DEF ConstStringsDefined
<1> DEFINE W == {j \in Lines : out[j].op = "constants" /\ out[i].def \in out[j].use}
<1>1. Waiting = {}
  BY DEF KInv, NoneWaiting, Idle, Waiting
<1>2. PICK j \in Lines : out[j].op = "constants" /\ out[i].def \in out[j].use
  BY <1>1 DEF KInv, AddressesKept
<1>3. W = {j}
  BY <1>2 DEF KInv, WrittenOnce
<1>4. Cardinality(W) = 1
  BY <1>3, FS_Singleton
<1> QED
  BY <1>4

(* Whenever a function has been closed, every string constant whose address    *)
(* has been taken is defined by the output, and none is defined twice:         *)
(* const_strings_ is written out and emptied with each function, and its ids   *)
(* are never given again.                                                    *)
THEOREM ConstStringsAlwaysDefined == Spec => []ConstStringsDefined
<1>1. Init => KInv
  BY InitKInv
<1>2. IInv /\ SInv /\ KInv /\ [Next]_vars => KInv'
  BY NextKInv, SymbolsAssumption DEF IInv
<1>3. KInv => ConstStringsDefined
  BY KInvImplies
<1> QED
  BY <1>1, <1>2, <1>3, Invariance, StringFunctions, PTL DEF Spec
=============================================================================
