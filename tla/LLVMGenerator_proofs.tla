------------------------ MODULE LLVMGenerator_proofs ------------------------
(***************************************************************************)
(* Theorems about the code generator, for every program it may be given:    *)
(* any symbols, any nesting of the AST, any number of functions.            *)
(*                                                                          *)
(* TypeOK is not inductive: that only temporaries are slated to be freed    *)
(* depends on the entry of a node in register_reference_ staying what it    *)
(* was while the operands are visited.  The strengthening, Nodes, is about  *)
(* the visitor's call stack: pending visits are of different nodes, and a   *)
(* node whose visit method has begun is not visited again.                  *)
(***************************************************************************)
EXTENDS LLVMGenerator, StackTheorems

(* The node an expression's visit method has named a temporary for.          *)
Owns(item) ==
  IF item.op \in {"unary", "binary", "condition", "call"} THEN {item.node} ELSE {}

NodesExist ==
  \A i \in DOMAIN todo : Visits(todo[i]) \union Reads(todo[i]) \subseteq 0..nodes - 1

VisitedOnce ==
  \A i, j \in DOMAIN todo :
    i # j => Visits(todo[i]) \intersect Visits(todo[j]) = {}

NotVisitedAgain ==
  \A i, j \in DOMAIN todo : Owns(todo[i]) \intersect Visits(todo[j]) = {}

OwnersNamed ==
  \A i \in DOMAIN todo : \A n \in Owns(todo[i]) :
    n \in DOMAIN register_reference_ /\ register_reference_[n].name = "tmp"

Nodes ==
  NodesExist /\ VisitedOnce /\ NotVisitedAgain /\ OwnersNamed /\ OperandsVisited

IInv == TypeOK /\ Nodes

(* The calls and the rest a visit method puts on the stack: they visit new    *)
(* nodes, and read these and the visited node itself.                        *)
Proper(items, own) ==
  /\ \A i \in DOMAIN items : Visits(items[i]) \subseteq nodes..nodes' - 1
  /\ \A i, j \in DOMAIN items :
       i # j => Visits(items[i]) \intersect Visits(items[j]) = {}
  /\ \A i \in DOMAIN items : Owns(items[i]) \subseteq own
  /\ \A i \in DOMAIN items : \A n \in Reads(items[i]) :
       n \in own \/ \E j \in 1..i - 1 : n \in Visits(items[j])

-----------------------------------------------------------------------------
(* Entries of the call stack.                                                *)

(* What an entry of each kind has, reads, visits and owns.                   *)
LEMMA ItemFields ==
  ASSUME NEW it \in StackItem
  PROVE  /\ it.op = "expr" => it.node \in Nat /\ it.type \in Type
         /\ it.op \in {"cond", "assign"} => it.node \in Nat
         /\ it.op = "unary" => it.node \in Nat /\ it.arg \in Nat
         /\ it.op \in {"binary", "condition"} =>
              it.node \in Nat /\ it.type \in Type /\ it.lhs \in Nat /\ it.rhs \in Nat
         /\ it.op = "store" => it.sym \in Symbols /\ it.arg \in Nat
         /\ it.op = "call" => it.node \in Nat /\ it.type \in Type /\ it.args \in Seq(Nat)
         /\ it.op = "return" => it.type \in Type /\ it.arg \in Nat
         /\ it.op = "branch" =>
              it.node \in Nat /\ it.yes \in Nat /\ it.no \in Nat /\ it.at \in Nat
         /\ it.op = "jump" => it.target \in Nat /\ it.at \in Nat
  BY DEF StackItem, Visit, Rest

LEMMA VisitItems ==
  ASSUME NEW n \in Nat, NEW t \in Type
  PROVE  /\ ExprItem(n, t) \in StackItem
         /\ Visits(ExprItem(n, t)) = {n}
         /\ Reads(ExprItem(n, t)) = {} /\ Owns(ExprItem(n, t)) = {}
         /\ CondItem(n) \in StackItem
         /\ Visits(CondItem(n)) = {n}
         /\ Reads(CondItem(n)) = {} /\ Owns(CondItem(n)) = {}
         /\ AssignItem(n) \in StackItem
         /\ Visits(AssignItem(n)) = {n}
         /\ Reads(AssignItem(n)) = {} /\ Owns(AssignItem(n)) = {}
  BY DEF StackItem, Visit, Rest, ExprItem, CondItem, AssignItem, Visits, Reads, Owns

LEMMA NoNodes ==
  ASSUME NEW it, it.op \in {"instr", "body", "block", "end_function"}
  PROVE  Visits(it) = {} /\ Reads(it) = {} /\ Owns(it) = {}
BY DEF Visits, Reads, Owns

LEMMA OtherItems ==
  \A it \in {InstrItem, ElseItem, BodyItem, EndFunctionItem} :
    it \in StackItem /\ Visits(it) = {} /\ Reads(it) = {} /\ Owns(it) = {}
<1>1. \A b \in BOOLEAN : [op |-> "instr", null |-> b] \in StackItem
  <2>1. \A b \in BOOLEAN :
          [op |-> "instr", null |-> b] \in [op : {"instr"}, null : BOOLEAN]
    BY Zenon
  <2> QED
    BY <2>1, Zenon DEF StackItem, Visit
<1>2. InstrItem \in StackItem /\ ElseItem \in StackItem
  BY <1>1, Zenon DEF InstrItem, ElseItem
<1>3. BodyItem \in StackItem /\ EndFunctionItem \in StackItem
  BY DEF StackItem, Visit, BodyItem, EndFunctionItem
<1>4. \A it \in {InstrItem, ElseItem, BodyItem, EndFunctionItem} :
        it.op \in {"instr", "body", "block", "end_function"}
  BY DEF InstrItem, ElseItem, BodyItem, EndFunctionItem
<1> QED
  BY <1>2, <1>3, <1>4, NoNodes

LEMMA BlockItems ==
  ASSUME NEW d \in BOOLEAN
  PROVE  /\ BlockItem(d) \in StackItem
         /\ Visits(BlockItem(d)) = {} /\ Reads(BlockItem(d)) = {} /\ Owns(BlockItem(d)) = {}
<1>1. [op |-> "block", decls |-> d] \in [op : {"block"}, decls : BOOLEAN]
  BY Zenon
<1>2. BlockItem(d) \in StackItem
  BY <1>1, Zenon DEF StackItem, Rest, BlockItem
<1>3. BlockItem(d).op = "block"
  BY DEF BlockItem
<1> QED
  BY <1>2, <1>3, NoNodes

LEMMA UnaryRests ==
  ASSUME NEW n \in Nat, NEW a \in Nat
  PROVE  /\ UnaryRest(n, a) \in StackItem
         /\ Visits(UnaryRest(n, a)) = {} /\ Owns(UnaryRest(n, a)) = {n}
         /\ Reads(UnaryRest(n, a)) = {n, a}
  BY DEF StackItem, Rest, UnaryRest, Visits, Reads, Owns

LEMMA BinaryRests ==
  ASSUME NEW n \in Nat, NEW t \in Type, NEW a \in Nat, NEW b \in Nat
  PROVE  /\ BinaryRest(n, t, a, b) \in StackItem
         /\ Visits(BinaryRest(n, t, a, b)) = {} /\ Owns(BinaryRest(n, t, a, b)) = {n}
         /\ Reads(BinaryRest(n, t, a, b)) = {n, a, b}
  BY DEF StackItem, Rest, BinaryRest, Visits, Reads, Owns

LEMMA ConditionRests ==
  ASSUME NEW n \in Nat, NEW t \in Type, NEW o \in BOOLEAN, NEW a \in Nat, NEW b \in Nat
  PROVE  /\ ConditionRest(n, t, o, a, b) \in StackItem
         /\ Visits(ConditionRest(n, t, o, a, b)) = {}
         /\ Owns(ConditionRest(n, t, o, a, b)) = {n}
         /\ Reads(ConditionRest(n, t, o, a, b)) = {n, a, b}
  BY DEF StackItem, Rest, ConditionRest, Visits, Reads, Owns

LEMMA CallRests ==
  ASSUME NEW n \in Nat, NEW t \in Type, NEW as \in Seq(Nat)
  PROVE  /\ CallRest(n, t, as) \in StackItem
         /\ Visits(CallRest(n, t, as)) = {} /\ Owns(CallRest(n, t, as)) = {n}
         /\ Reads(CallRest(n, t, as)) = {n} \union {as[i] : i \in DOMAIN as}
  BY DEF StackItem, Visit, Rest, CallRest, Visits, Reads, Owns

LEMMA StoreRests ==
  ASSUME NEW s \in Symbols, NEW n \in Nat
  PROVE  /\ AssignRest(s, n) \in StackItem
         /\ Visits(AssignRest(s, n)) = {} /\ Owns(AssignRest(s, n)) = {}
         /\ Reads(AssignRest(s, n)) = {n}
  BY DEF StackItem, Rest, AssignRest, Visits, Reads, Owns

LEMMA ReturnRests ==
  ASSUME NEW t \in Type, NEW n \in Nat
  PROVE  /\ ReturnRest(t, n) \in StackItem
         /\ Visits(ReturnRest(t, n)) = {} /\ Owns(ReturnRest(t, n)) = {}
         /\ Reads(ReturnRest(t, n)) = {n}
  BY DEF StackItem, Rest, ReturnRest, Visits, Reads, Owns

LEMMA BranchRests ==
  ASSUME NEW n \in Nat, NEW l \in Nat, NEW k \in Nat, NEW at \in Nat
  PROVE  /\ BranchRest(n, l, k, at) \in StackItem
         /\ Visits(BranchRest(n, l, k, at)) = {} /\ Owns(BranchRest(n, l, k, at)) = {}
         /\ Reads(BranchRest(n, l, k, at)) = {n}
         /\ JumpRest(l, at) \in StackItem
         /\ Visits(JumpRest(l, at)) = {} /\ Owns(JumpRest(l, at)) = {}
         /\ Reads(JumpRest(l, at)) = {}
  BY DEF StackItem, Rest, BranchRest, JumpRest, Visits, Reads, Owns

-----------------------------------------------------------------------------
(* Nodes is kept by a step that replaces the first entry of the call stack.   *)

LEMMA NodesKept ==
  ASSUME TypeOK, Nodes, todo # <<>>,
         NEW items \in Seq(StackItem), Become(items),
         nodes' \in Nat, nodes' >= nodes,
         DOMAIN register_reference_ \union Visits(Top) \subseteq DOMAIN register_reference_',
         \A n \in DOMAIN register_reference_ \ Visits(Top) :
           register_reference_'[n] = register_reference_[n],
         \A i \in DOMAIN items : Visits(items[i]) \subseteq nodes..nodes' - 1,
         \A i, j \in DOMAIN items :
           i # j => Visits(items[i]) \intersect Visits(items[j]) = {},
         \A i \in DOMAIN items : \A n \in Owns(items[i]) :
           n \in Visits(Top) /\ register_reference_'[n].name = "tmp",
         \A i \in DOMAIN items : \A n \in Reads(items[i]) :
           n \in Visits(Top) \/ \E j \in 1..i - 1 : n \in Visits(items[j])
  PROVE  Nodes'
<1> DEFINE old(i) == i - Len(items) + 1
<1>1. todo \in Seq(StackItem) /\ Top = todo[1] /\ Len(todo) \in Nat /\ Len(todo) > 0
  BY EmptySeq, LenProperties DEF TypeOK, Top
<1>2. /\ todo' \in Seq(StackItem)
      /\ Len(todo') = Len(items) + Len(todo) - 1
      /\ \A i \in 1..Len(items) : todo'[i] = items[i]
      /\ \A i \in Len(items) + 1..Len(items) + Len(todo) - 1 :
           old(i) \in 2..Len(todo) /\ todo'[i] = todo[old(i)]
  BY <1>1, FirstReplaced DEF Become
<1>3. /\ DOMAIN todo = 1..Len(todo) /\ DOMAIN todo' = 1..Len(todo')
      /\ DOMAIN items = 1..Len(items) /\ Len(items) \in Nat
  BY <1>1, <1>2, LenProperties
<1> HIDE DEF old
<1>4. \A i \in DOMAIN todo' :
        \/ i \in DOMAIN items /\ todo'[i] = items[i]
        \/ /\ i > Len(items) /\ old(i) \in DOMAIN todo /\ old(i) > 1
           /\ todo'[i] = todo[old(i)]
  <2> SUFFICES ASSUME NEW i \in 1..Len(items) + Len(todo) - 1
               PROVE  \/ i \in DOMAIN items /\ todo'[i] = items[i]
                      \/ /\ i > Len(items) /\ old(i) \in DOMAIN todo /\ old(i) > 1
                         /\ todo'[i] = todo[old(i)]
    BY <1>2, <1>3
  <2>1. CASE i \in 1..Len(items)
    BY <1>2, <1>3, <2>1
  <2>2. CASE i \in Len(items) + 1..Len(items) + Len(todo) - 1
    <3>1. old(i) \in 2..Len(todo) /\ todo'[i] = todo[old(i)]
      BY <1>2, <2>2
    <3> QED
      BY <1>1, <1>3, <2>2, <3>1
  <2> QED
    BY <1>1, <1>3, <2>1, <2>2
<1>5. nodes \in Nat
  BY DEF TypeOK
<1>6. NodesExist'
  <2> SUFFICES ASSUME NEW i \in DOMAIN todo', NEW n \in Visits(todo'[i]) \union Reads(todo'[i])
               PROVE  n \in 0..nodes' - 1
    BY DEF NodesExist, Visits, Reads
  <2>1. \A m \in Visits(Top) : m \in 0..nodes - 1
    BY <1>1, <1>3 DEF Nodes, NodesExist
  <2>2. CASE i \in DOMAIN items /\ todo'[i] = items[i]
    <3>1. CASE n \in Visits(items[i])
      BY <1>5, <2>2, <3>1
    <3>2. CASE n \in Reads(items[i])
      <4>1. n \in Visits(Top) \/ \E j \in DOMAIN items : n \in Visits(items[j])
        BY <1>3, <2>2, <3>2
      <4> QED
        BY <1>5, <2>1, <4>1
    <3> QED
      BY <2>2, <3>1, <3>2
  <2>3. CASE old(i) \in DOMAIN todo /\ todo'[i] = todo[old(i)]
    BY <1>5, <2>3 DEF Nodes, NodesExist
  <2> QED
    BY <1>4, <2>2, <2>3
<1>7. \A k \in DOMAIN todo : \A n \in Visits(todo[k]) \union Owns(todo[k]) : n \in 0..nodes - 1
  BY DEF Nodes, NodesExist, Owns, Reads, Visits
<1>8. VisitedOnce'
  <2> SUFFICES ASSUME NEW i \in DOMAIN todo', NEW j \in DOMAIN todo', i # j,
                      NEW n \in Visits(todo'[i]), n \in Visits(todo'[j])
               PROVE  FALSE
    BY DEF VisitedOnce, Visits
  <2>1. CASE i \in DOMAIN items /\ todo'[i] = items[i] /\ j \in DOMAIN items /\ todo'[j] = items[j]
    BY <2>1
  <2>2. CASE /\ i > Len(items) /\ old(i) \in DOMAIN todo /\ todo'[i] = todo[old(i)]
             /\ j > Len(items) /\ old(j) \in DOMAIN todo /\ todo'[j] = todo[old(j)]
    <3>1. old(i) # old(j)
      BY <1>3 DEF old
    <3> QED
      BY <2>2, <3>1 DEF Nodes, VisitedOnce
  <2>3. ASSUME NEW k \in DOMAIN items, NEW l \in DOMAIN todo,
               n \in Visits(items[k]), n \in Visits(todo[l])
        PROVE  FALSE
    BY <1>5, <1>7, <2>3
  <2> QED
    BY <1>4, <2>1, <2>2, <2>3
<1>9. NotVisitedAgain'
  <2> SUFFICES ASSUME NEW i \in DOMAIN todo', NEW j \in DOMAIN todo',
                      NEW n \in Owns(todo'[i]), n \in Visits(todo'[j])
               PROVE  FALSE
    BY DEF NotVisitedAgain, Visits, Owns
  <2>1. ASSUME NEW k \in DOMAIN todo, n \in Owns(todo[k]) \/ n \in Visits(todo[k]),
               NEW l \in DOMAIN items, n \in Visits(items[l])
        PROVE  FALSE
    BY <1>5, <1>7, <2>1
  <2>2. ASSUME NEW k \in DOMAIN items, n \in Owns(items[k]),
               NEW l \in DOMAIN todo, l > 1, n \in Visits(todo[l])
        PROVE  FALSE
    BY <1>1, <1>3, <2>2 DEF Nodes, VisitedOnce
  <2>3. ASSUME NEW k \in DOMAIN items, n \in Owns(items[k]),
               NEW l \in DOMAIN items, n \in Visits(items[l])
        PROVE  FALSE
    BY <1>1, <1>3, <2>1, <2>3
  <2>4. ASSUME NEW k \in DOMAIN todo, n \in Owns(todo[k]),
               NEW l \in DOMAIN todo, n \in Visits(todo[l])
        PROVE  FALSE
    BY <2>4 DEF Nodes, NotVisitedAgain
  <2> QED
    BY <1>4, <2>1, <2>2, <2>3, <2>4
<1>10. OwnersNamed'
  <2> SUFFICES ASSUME NEW i \in DOMAIN todo', NEW n \in Owns(todo'[i])
               PROVE  n \in DOMAIN register_reference_' /\ register_reference_'[n].name = "tmp"
    BY DEF OwnersNamed, Owns
  <2>1. CASE i \in DOMAIN items /\ todo'[i] = items[i]
    BY <2>1
  <2>2. CASE old(i) \in DOMAIN todo /\ todo'[i] = todo[old(i)]
    <3>1. n \in DOMAIN register_reference_ /\ register_reference_[n].name = "tmp"
      BY <2>2 DEF Nodes, OwnersNamed
    <3>2. n \notin Visits(Top)
      BY <1>1, <1>3, <2>2 DEF Nodes, NotVisitedAgain
    <3> QED
      BY <3>1, <3>2
  <2> QED
    BY <1>4, <2>1, <2>2
<1>11. OperandsVisited'
  <2> SUFFICES ASSUME NEW i \in DOMAIN todo', NEW n \in Reads(todo'[i])
               PROVE  \/ n \in DOMAIN register_reference_'
                      \/ \E j \in 1..i - 1 : n \in Visits(todo'[j])
    BY DEF OperandsVisited, Reads, Visits
  <2>1. CASE i \in DOMAIN items /\ todo'[i] = items[i]
    <3>1. CASE n \in Visits(Top)
      BY <3>1
    <3>2. ASSUME NEW j \in 1..i - 1, n \in Visits(items[j])
          PROVE  n \in Visits(todo'[j])
      BY <1>2, <1>3, <2>1, <3>2
    <3> QED
      BY <2>1, <3>1, <3>2
  <2>2. CASE i > Len(items) /\ old(i) \in DOMAIN todo /\ todo'[i] = todo[old(i)]
    <3>1. CASE n \in DOMAIN register_reference_ \/ n \in Visits(todo[1])
      BY <1>1, <3>1
    <3>2. ASSUME NEW k \in 2..old(i) - 1, n \in Visits(todo[k])
          PROVE  \E j \in 1..i - 1 : n \in Visits(todo'[j])
      <4>1. /\ k + Len(items) - 1 \in 1..i - 1 /\ old(k + Len(items) - 1) = k
            /\ k + Len(items) - 1 \in Len(items) + 1..Len(items) + Len(todo) - 1
        BY <1>1, <1>3, <2>2 DEF old
      <4>2. todo'[k + Len(items) - 1] = todo[k]
        BY <1>2, <4>1
      <4> QED
        BY <3>2, <4>1, <4>2
    <3>3. \/ n \in DOMAIN register_reference_
          \/ \E k \in 1..old(i) - 1 : n \in Visits(todo[k])
      BY <2>2 DEF Nodes, OperandsVisited
    <3>4. old(i) \in Int
      BY <1>3 DEF old
    <3> QED
      BY <3>1, <3>2, <3>3, <3>4
  <2> QED
    BY <1>4, <2>1, <2>2
<1> QED
  BY <1>6, <1>8, <1>9, <1>10, <1>11 DEF Nodes
-----------------------------------------------------------------------------
(* The parts of TypeOK, by what changes together.                            *)

RegistersTyped ==
  /\ DOMAIN register_reference_ \subseteq Nat
  /\ IsFiniteSet(DOMAIN register_reference_)
  /\ \A n \in DOMAIN register_reference_ : register_reference_[n] \in Register

ScopesTyped ==
  /\ declared \subseteq Symbols /\ renamed \subseteq Symbols
  /\ tables \in Seq(SUBSET Symbols)
  /\ functions \in Nat

TextTyped ==
  /\ out \in Seq(Line)
  /\ variable_counts_ \in [Symbols -> Nat]
  /\ next_label \in Nat

StringsTyped ==
  /\ const_strings_ \subseteq Nat /\ const_string_next_id_ \in Nat
  /\ \A r \in strings_to_free_ : r \in Register /\ r.name = "tmp"
  /\ need_string_functions_ \in BOOLEAN
  /\ string_functions_declared_ \in BOOLEAN
  /\ status \in {"running", "finished", "crashed", "terminated"}

LEMMA TypeParts ==
  TypeOK <=> /\ todo \in Seq(StackItem) /\ nodes \in Nat
             /\ RegistersTyped /\ ScopesTyped /\ TextTyped /\ StringsTyped
BY DEF TypeOK, RegistersTyped, ScopesTyped, TextTyped, StringsTyped

(* The entry a visit method runs for.                                        *)
LEMMA TopTyped ==
  ASSUME TypeOK, NEW op, At(op)
  PROVE  /\ todo \in Seq(StackItem) /\ todo # <<>>
         /\ Top \in StackItem /\ Top.op = op
         /\ Top = todo[1] /\ 1 \in DOMAIN todo
  BY EmptySeq, LenProperties, HeadTailProperties DEF TypeOK, At, Top

(* register_reference_[node] = text.                                         *)
LEMMA Referred ==
  ASSUME RegistersTyped, NEW n \in Nat, NEW r \in Register, Refer(n, r)
  PROVE  /\ RegistersTyped'
         /\ DOMAIN register_reference_' = DOMAIN register_reference_ \union {n}
         /\ register_reference_'[n] = r
         /\ \A m \in DOMAIN register_reference_ \ {n} :
              register_reference_'[m] = register_reference_[m]
<1>1. IsFiniteSet(DOMAIN register_reference_ \union {n})
  BY FS_AddElement DEF RegistersTyped
<1>2. /\ DOMAIN register_reference_' = DOMAIN register_reference_ \union {n}
      /\ register_reference_'[n] = r
      /\ \A m \in DOMAIN register_reference_ \ {n} :
           register_reference_'[m] = register_reference_[m]
  BY DEF Refer, With
<1> QED
  BY <1>1, <1>2 DEF RegistersTyped

LEMMA NamedRegisters ==
  /\ NoReg \in Register /\ Literal \in Register
  /\ ReturnCopy \in Register /\ ReturnCopy.name = "tmp"
  /\ \A n \in Int : Tmp(n) \in Register /\ Tmp(n).name = "tmp" /\ StrReg(n) \in Register
<1>1. NoReg \in Register /\ Literal \in Register
  BY DEF NoReg, Literal, Reg, Register, NoId
<1>2. ReturnCopy \in Register /\ ReturnCopy.name = "tmp"
  BY DEF ReturnCopy, Reg, Register, NoId
<1>3. \A n \in Int : Tmp(n) \in Register /\ Tmp(n).name = "tmp"
  BY DEF Tmp, Reg, Register
<1>4. \A n \in Int : StrReg(n) \in Register
  BY DEF StrReg, Reg, Register
<1> QED
  BY <1>1, <1>2, <1>3, <1>4

LEMMA VariableRegisters ==
  ASSUME NEW s \in Symbols, NEW n \in Nat
  PROVE  /\ Pointer(s) \in Register /\ Load(s, n) \in Register
         /\ Incoming(s) \in Register
         /\ Reg(NameOf[s], "pointer", NoId) \in Register
<1>1. SubName(s) \in {"", "pointer"}
  BY DEF SubName
<1>2. \A sub \in {"", "@", "pointer"}, id \in Int : Reg(NameOf[s], sub, id) \in Register
  BY DEF Reg, Register
<1>3. NoId \in Int /\ n \in Int
  BY DEF NoId
<1>4. Pointer(s) \in Register
  BY <1>1, <1>2, <1>3 DEF Pointer
<1>5. Load(s, n) \in Register
  BY <1>1, <1>2, <1>3 DEF Load
<1>6. Incoming(s) \in Register /\ Reg(NameOf[s], "pointer", NoId) \in Register
  BY <1>2, <1>3 DEF Incoming
<1> QED
  BY <1>4, <1>5, <1>6

LEMMA FreshTmpTyped ==
  ASSUME RegistersTyped
  PROVE  FreshTmp \in Register /\ FreshTmp.name = "tmp"
<1>1. Cardinality(DOMAIN register_reference_) \in Nat
  BY FS_CardinalityType DEF RegistersTyped
<1> QED
  BY <1>1, NamedRegisters DEF FreshTmp

(* A visit method named a temporary for its node and called emit_code.        *)
LEMMA OperatorVisited ==
  ASSUME IInv, NEW op \in {"expr", "cond", "assign"}, At(op),
         NEW items \in Seq(StackItem), Become(items),
         nodes' \in Nat, nodes' >= nodes, Refer(Top.node, FreshTmp),
         UNCHANGED <<program, out, variable_counts_, next_label, strings, frees, status>>,
         Proper(items, {Top.node})
  PROVE  IInv'
<1>1. /\ TypeOK /\ Nodes
      /\ RegistersTyped /\ ScopesTyped /\ TextTyped /\ StringsTyped
  BY TypeParts DEF IInv
<1>2. /\ todo \in Seq(StackItem) /\ todo # <<>>
      /\ Top \in StackItem /\ Top.op = op
  BY <1>1, TopTyped
<1>3. Top.node \in Nat /\ Visits(Top) = {Top.node}
  BY <1>2, ItemFields DEF Visits
<1>4. /\ RegistersTyped'
      /\ DOMAIN register_reference_' = DOMAIN register_reference_ \union {Top.node}
      /\ register_reference_'[Top.node].name = "tmp"
      /\ \A m \in DOMAIN register_reference_ \ {Top.node} :
           register_reference_'[m] = register_reference_[m]
  BY <1>1, <1>3, FreshTmpTyped, Referred
<1>5. \A i \in DOMAIN items : \A n \in Owns(items[i]) :
        n \in Visits(Top) /\ register_reference_'[n].name = "tmp"
  BY <1>3, <1>4 DEF Proper
<1>6. \A i \in DOMAIN items : \A n \in Reads(items[i]) :
        n \in Visits(Top) \/ \E j \in 1..i - 1 : n \in Visits(items[j])
  BY <1>3 DEF Proper
<1>7. Nodes'
  BY <1>1, <1>2, <1>3, <1>4, <1>5, <1>6, NodesKept DEF Proper
<1>8. todo' \in Seq(StackItem)
  BY <1>2, FirstReplaced DEF Become
<1>9. ScopesTyped' /\ TextTyped' /\ StringsTyped'
  BY <1>1 DEF ScopesTyped, TextTyped, StringsTyped, program, scopes, strings, frees
<1> QED
  BY <1>4, <1>7, <1>8, <1>9, TypeParts DEF IInv, TypeOK, RegistersTyped,
     ScopesTyped, TextTyped, StringsTyped

(* Any other step that replaces the first entry leaves register_reference_ as *)
(* it is: it visits no node, or the node of a terminal.                      *)
LEMMA EntryReplaced ==
  ASSUME IInv, todo # <<>>,
         NEW items \in Seq(StackItem), Become(items),
         nodes' \in Nat, nodes' >= nodes,
         \/ Visits(Top) = {} /\ UNCHANGED register_reference_
         \/ \E r \in Register : /\ Top.op = "expr" /\ Refer(Top.node, r),
         Proper(items, {}),
         ScopesTyped', TextTyped', StringsTyped'
  PROVE  IInv'
<1>1. TypeOK /\ Nodes /\ RegistersTyped /\ todo \in Seq(StackItem)
  BY TypeParts DEF IInv
<1>2. Top \in StackItem
  BY <1>1, HeadTailProperties DEF Top
<1>3. /\ RegistersTyped'
      /\ DOMAIN register_reference_ \union Visits(Top) \subseteq DOMAIN register_reference_'
      /\ \A n \in DOMAIN register_reference_ \ Visits(Top) :
           register_reference_'[n] = register_reference_[n]
  <2>1. CASE Visits(Top) = {} /\ UNCHANGED register_reference_
    BY <1>1, <2>1 DEF RegistersTyped
  <2>2. ASSUME NEW r \in Register, Top.op = "expr", Refer(Top.node, r)
        PROVE  <1>3
    <3>1. Top.node \in Nat /\ Visits(Top) = {Top.node}
      BY <1>2, <2>2, ItemFields DEF Visits
    <3>2. /\ RegistersTyped'
          /\ DOMAIN register_reference_' = DOMAIN register_reference_ \union {Top.node}
          /\ \A m \in DOMAIN register_reference_ \ {Top.node} :
               register_reference_'[m] = register_reference_[m]
      BY <1>1, <2>2, <3>1, Referred
    <3> QED
      BY <3>1, <3>2
  <2> QED
    BY <2>1, <2>2
<1>4. Nodes'
  BY <1>1, <1>3, NodesKept DEF Proper
<1>5. todo' \in Seq(StackItem)
  BY <1>1, FirstReplaced DEF Become
<1> QED
  BY <1>3, <1>4, <1>5 DEF IInv, TypeOK, RegistersTyped, ScopesTyped, TextTyped,
     StringsTyped
(* The same for a visit method that makes no further call.                   *)
LEMMA EntryDone ==
  ASSUME IInv, todo # <<>>, Become(<<>>), nodes' = nodes,
         \/ Visits(Top) = {} /\ UNCHANGED register_reference_
         \/ \E r \in Register : Top.op = "expr" /\ Refer(Top.node, r),
         ScopesTyped', TextTyped', StringsTyped'
  PROVE  IInv'
<1> DEFINE items == <<>>
<1>1. items \in Seq(StackItem) /\ DOMAIN items = {} /\ Become(items)
  BY EmptySeq
<1>2. nodes' \in Nat /\ nodes' >= nodes
  BY DEF IInv, TypeOK
<1> HIDE DEF items
<1>3. Proper(items, {})
  BY <1>1 DEF Proper
<1> QED
  BY <1>1, <1>2, <1>3, EntryReplaced

-----------------------------------------------------------------------------
(* Lines of IR.                                                              *)

LEMMA LineTyped ==
  ASSUME functions \in Nat, NEW op \in Operation, NEW def \in Register,
         NEW use \in SUBSET Register, NEW mem \in Register, NEW to \in SUBSET Nat
  PROVE  IR(op, def, use, mem, to) \in Line
BY DEF IR, Line

LEMMA PlainTyped ==
  ASSUME functions \in Nat, NEW op \in Operation, NEW def \in Register,
         NEW use \in SUBSET Register
  PROVE  Plain(op, def, use) \in Line
BY NamedRegisters, LineTyped DEF Plain

LEMMA BranchTyped ==
  ASSUME functions \in Nat, NEW r \in Register, NEW l \in Nat, NEW k \in Nat
  PROVE  Br(l) \in Line /\ CondBr(r, l, k) \in Line /\ LabelAt(l) \in Line
<1>1. {"br", "cbr", "label"} \subseteq Operation
  BY DEF Operation
<1> QED
  BY <1>1, NamedRegisters, LineTyped DEF Br, CondBr, LabelAt

LEMMA AccessTyped ==
  ASSUME functions \in Nat, NEW s \in Symbols, NEW r \in Register
  PROVE  LoadFrom(s, r) \in Line /\ StoreTo(s, r) \in Line
<1>1. {"load", "store"} \subseteq Operation
  BY DEF Operation
<1>2. Pointer(s) \in Register
  BY VariableRegisters
<1> QED
  BY <1>1, <1>2, NamedRegisters, LineTyped DEF LoadFrom, StoreTo

(* Text is only ever appended.                                               *)
LEMMA Emitted ==
  ASSUME TextTyped, NEW lines \in Seq(Line), Emit(lines)
  PROVE  out' \in Seq(Line)
BY ConcatProperties DEF TextTyped, Emit

-----------------------------------------------------------------------------
(* When the rest of a visit method resumes, its operands have been visited.   *)
LEMMA OperandRead ==
  ASSUME IInv, NEW op, At(op), NEW n \in Reads(Top)
  PROVE  n \in DOMAIN register_reference_ /\ register_reference_[n] \in Register
<1>1. TypeOK /\ RegistersTyped /\ OperandsVisited
  BY TypeParts DEF IInv, Nodes
<1>2. Top = todo[1] /\ 1 \in DOMAIN todo
  BY <1>1, TopTyped
<1>3. n \in DOMAIN register_reference_
  BY <1>1, <1>2 DEF OperandsVisited
<1> QED
  BY <1>1, <1>3 DEF RegistersTyped

(* ... and the text of its own node is still the temporary it named.          *)
LEMMA OwnRegister ==
  ASSUME IInv, NEW op \in {"unary", "binary", "condition", "call"}, At(op)
  PROVE  /\ register_reference_[Top.node] \in Register
         /\ register_reference_[Top.node].name = "tmp"
<1>1. TypeOK /\ RegistersTyped /\ OwnersNamed
  BY TypeParts DEF IInv, Nodes
<1>2. Top = todo[1] /\ 1 \in DOMAIN todo /\ Top.op = op
  BY <1>1, TopTyped
<1>3. Top.node \in Owns(Top)
  BY <1>2 DEF Owns
<1> QED
  BY <1>1, <1>2, <1>3 DEF OwnersNamed, RegistersTyped

LEMMA NoVisit ==
  ASSUME TypeOK, NEW op, op \notin {"expr", "cond", "assign"}, At(op)
  PROVE  todo # <<>> /\ Visits(Top) = {}
BY TopTyped DEF Visits

(* The rest of a visit method that only writes lines.                        *)
LEMMA LinesWritten ==
  ASSUME IInv, NEW op, op \notin {"expr", "cond", "assign"}, At(op), Become(<<>>),
         NEW lines \in Seq(Line), Emit(lines),
         UNCHANGED <<nodes, program, register_reference_, variable_counts_,
                     next_label, strings, frees, status>>
  PROVE  IInv'
<1>1. TypeOK /\ ScopesTyped /\ TextTyped /\ StringsTyped
  BY TypeParts DEF IInv
<1>2. todo # <<>> /\ Visits(Top) = {}
  BY <1>1, NoVisit
<1>3. TextTyped'
  BY <1>1, Emitted DEF TextTyped
<1>4. ScopesTyped' /\ StringsTyped'
  BY <1>1 DEF ScopesTyped, StringsTyped, program, scopes, strings, frees
<1> QED
  BY <1>2, <1>3, <1>4, EntryDone

-----------------------------------------------------------------------------
(* The actions of an expression.                                             *)

LEMMA VisitVariableKeeps ==
  ASSUME SymbolsAssumption, IInv, NEW s \in Symbols, VisitVariable(s)
  PROVE  IInv'
<1>1. /\ TypeOK /\ ScopesTyped /\ TextTyped /\ StringsTyped /\ nodes \in Nat
      /\ functions \in Nat
  BY TypeParts DEF IInv, ScopesTyped
<1>2. At("expr") /\ Become(<<>>) /\ nodes' = nodes
  BY DEF VisitVariable
<1>3. todo # <<>> /\ Top.op = "expr"
  BY <1>1, <1>2, TopTyped
<1>4. VarCount(s) \in Nat /\ Load(s, VarCount(s)) \in Register
  <2>1. VarCount(s) \in Nat
    BY <1>1 DEF TextTyped, VarCount
  <2> QED
    BY <2>1, VariableRegisters
<1>5. <<LoadFrom(s, Load(s, VarCount(s)))>> \in Seq(Line)
  BY <1>1, <1>4, AccessTyped
<1>6. TextTyped'
  BY <1>1, <1>4, <1>5, Emitted DEF VisitVariable, TextTyped
<1>7. ScopesTyped' /\ StringsTyped'
  BY <1>1 DEF VisitVariable, ScopesTyped, StringsTyped, program, scopes, strings, frees
<1>8. \E r \in Register : Top.op = "expr" /\ Refer(Top.node, r)
  BY <1>3, <1>4 DEF VisitVariable
<1> QED
  BY <1>1, <1>2, <1>3, <1>6, <1>7, <1>8, EntryDone
LEMMA VisitConstIntegerKeeps ==
  ASSUME IInv, VisitConstInteger
  PROVE  IInv'
<1>1. TypeOK /\ ScopesTyped /\ TextTyped /\ StringsTyped
  BY TypeParts DEF IInv
<1>2. At("expr") /\ Become(<<>>) /\ nodes' = nodes
  BY DEF VisitConstInteger
<1>3. todo # <<>> /\ \E r \in Register : Top.op = "expr" /\ Refer(Top.node, r)
  BY <1>1, <1>2, TopTyped, NamedRegisters DEF VisitConstInteger
<1>4. ScopesTyped' /\ TextTyped' /\ StringsTyped'
  BY <1>1 DEF VisitConstInteger, ScopesTyped, TextTyped, StringsTyped, program,
     scopes, strings, frees
<1> QED
  BY <1>2, <1>3, <1>4, EntryDone

LEMMA VisitConstStringKeeps ==
  ASSUME IInv, VisitConstString
  PROVE  IInv'
<1>1. /\ TypeOK /\ ScopesTyped /\ TextTyped /\ StringsTyped
      /\ functions \in Nat /\ const_string_next_id_ \in Nat
  BY TypeParts DEF IInv, ScopesTyped, StringsTyped
<1>2. At("expr") /\ Become(<<>>) /\ nodes' = nodes
  BY DEF VisitConstString
<1>3. StrReg(const_string_next_id_) \in Register
  BY <1>1, NamedRegisters
<1>4. todo # <<>> /\ \E r \in Register : Top.op = "expr" /\ Refer(Top.node, r)
  BY <1>1, <1>2, <1>3, TopTyped DEF VisitConstString
<1>5. <<Plain("gep", StrReg(const_string_next_id_), {})>> \in Seq(Line)
  <2>1. "gep" \in Operation
    BY DEF Operation
  <2> QED
    BY <1>1, <1>3, <2>1, PlainTyped
<1>6. TextTyped'
  BY <1>1, <1>5, Emitted DEF VisitConstString, TextTyped
<1>7. ScopesTyped' /\ StringsTyped'
  BY <1>1 DEF VisitConstString, ScopesTyped, StringsTyped, program, scopes, frees
<1> QED
  BY <1>2, <1>4, <1>6, <1>7, EntryDone

LEMMA VisitUnaryKeeps ==
  ASSUME IInv, VisitUnary
  PROVE  IInv'
<1> DEFINE items == <<ExprItem(nodes, "int"), UnaryRest(Top.node, nodes)>>
<1>1. TypeOK /\ nodes \in Nat /\ At("expr")
  BY DEF IInv, TypeOK, VisitUnary
<1>2. Top \in StackItem /\ Top.node \in Nat
  BY <1>1, TopTyped, ItemFields
<1>3. /\ items[1] \in StackItem /\ Visits(items[1]) = {nodes}
      /\ Reads(items[1]) = {} /\ Owns(items[1]) = {}
  BY <1>1, VisitItems DEF Type
<1>4. /\ items[2] \in StackItem /\ Visits(items[2]) = {}
      /\ Reads(items[2]) = {Top.node, nodes} /\ Owns(items[2]) = {Top.node}
  BY <1>1, <1>2, UnaryRests
<1>5. items \in Seq(StackItem) /\ DOMAIN items = 1..2
  BY <1>3, <1>4
<1>6. /\ Become(items) /\ Refer(Top.node, FreshTmp) /\ nodes' = nodes + 1
      /\ UNCHANGED <<program, out, variable_counts_, next_label, strings, frees, status>>
  BY DEF VisitUnary
<1> HIDE DEF items
<1>7. Proper(items, {Top.node})
  BY <1>1, <1>3, <1>4, <1>5, <1>6 DEF Proper
<1>8. nodes' \in Nat /\ nodes' >= nodes
  BY <1>1, <1>6
<1> QED
  BY <1>1, <1>5, <1>6, <1>7, <1>8, OperatorVisited

LEMMA UnaryResumedKeeps ==
  ASSUME IInv, UnaryResumed
  PROVE  IInv'
<1>1. TypeOK /\ functions \in Nat /\ At("unary")
  BY DEF IInv, TypeOK, UnaryResumed
<1>2. Top.arg \in Reads(Top)
  BY <1>1, TopTyped DEF Reads
<1>3. /\ register_reference_[Top.node] \in Register
      /\ register_reference_[Top.arg] \in Register
  BY <1>1, <1>2, OwnRegister, OperandRead
<1>4. "sub" \in Operation
  BY DEF Operation
<1>5. <<Plain("sub", register_reference_[Top.node], {register_reference_[Top.arg]})>>
        \in Seq(Line)
  BY <1>1, <1>3, <1>4, PlainTyped
<1> QED
  BY <1>1, <1>5, LinesWritten DEF UnaryResumed
(* Two operands and the rest of the visit method that reads them.            *)
LEMMA TwoOperands ==
  ASSUME TypeOK, NEW op \in {"expr", "cond"}, At(op),
         NEW t \in Type, NEW u \in Type, NEW rest \in StackItem,
         Visits(rest) = {}, Owns(rest) = {Top.node},
         Reads(rest) = {Top.node, nodes, nodes + 1},
         NEW items, items = <<ExprItem(nodes, t), ExprItem(nodes + 1, u), rest>>,
         nodes' = nodes + 2
  PROVE  /\ items \in Seq(StackItem) /\ nodes' \in Nat /\ nodes' >= nodes
         /\ Proper(items, {Top.node})
<1>1. nodes \in Nat /\ nodes + 1 \in Nat
  BY DEF TypeOK
<1>2. /\ items[1] \in StackItem /\ Visits(items[1]) = {nodes}
      /\ Reads(items[1]) = {} /\ Owns(items[1]) = {}
  BY <1>1, VisitItems
<1>3. /\ items[2] \in StackItem /\ Visits(items[2]) = {nodes + 1}
      /\ Reads(items[2]) = {} /\ Owns(items[2]) = {}
  BY <1>1, VisitItems
<1>4. items[3] = rest /\ items \in Seq(StackItem) /\ DOMAIN items = 1..3
  BY <1>2, <1>3
<1>5. \A i \in DOMAIN items : \A n \in Reads(items[i]) :
        n \in {Top.node} \/ \E j \in 1..i - 1 : n \in Visits(items[j])
  <2> SUFFICES ASSUME NEW n \in Reads(items[3])
               PROVE  n \in {Top.node} \/ \E j \in 1..2 : n \in Visits(items[j])
    BY <1>2, <1>3, <1>4
  <2> QED
    BY <1>2, <1>3, <1>4
<1>6. nodes' \in Nat /\ nodes' >= nodes
  BY <1>1
<1>7. \A i \in DOMAIN items : Visits(items[i]) \subseteq nodes..nodes' - 1
  BY <1>1, <1>2, <1>3, <1>4
<1>8. \A i, j \in DOMAIN items :
        i # j => Visits(items[i]) \intersect Visits(items[j]) = {}
  BY <1>1, <1>2, <1>3, <1>4
<1>9. \A i \in DOMAIN items : Owns(items[i]) \subseteq {Top.node}
  BY <1>2, <1>3, <1>4
<1> QED
  BY <1>4, <1>5, <1>6, <1>7, <1>8, <1>9 DEF Proper

LEMMA VisitBinaryKeeps ==
  ASSUME IInv, VisitBinary
  PROVE  IInv'
<1> DEFINE rest == BinaryRest(Top.node, Top.type, nodes, nodes + 1)
           items == <<ExprItem(nodes, Top.type), ExprItem(nodes + 1, Top.type), rest>>
<1>1. TypeOK /\ nodes \in Nat /\ nodes + 1 \in Nat /\ At("expr")
  BY DEF IInv, TypeOK, VisitBinary
<1>2. Top \in StackItem /\ Top.node \in Nat /\ Top.type \in Type
  BY <1>1, TopTyped, ItemFields
<1>3. /\ rest \in StackItem /\ Visits(rest) = {} /\ Owns(rest) = {Top.node}
      /\ Reads(rest) = {Top.node, nodes, nodes + 1}
  BY <1>1, <1>2, BinaryRests
<1>4. /\ Become(items) /\ Refer(Top.node, FreshTmp) /\ nodes' = nodes + 2
      /\ UNCHANGED <<program, out, variable_counts_, next_label, strings, frees, status>>
  BY DEF VisitBinary
<1> HIDE DEF rest
<1>5. /\ items \in Seq(StackItem) /\ nodes' \in Nat /\ nodes' >= nodes
      /\ Proper(items, {Top.node})
  BY <1>1, <1>2, <1>3, <1>4, TwoOperands
<1> HIDE DEF items
<1> QED
  BY <1>1, <1>4, <1>5, OperatorVisited

LEMMA VisitConditionKeeps ==
  ASSUME BoundsAssumption, IInv,
         NEW ordering \in BOOLEAN, NEW lhs \in SourceTypes, NEW rhs \in SourceTypes,
         VisitCondition(ordering, lhs, rhs)
  PROVE  IInv'
<1> DEFINE rest == ConditionRest(Top.node, lhs, ordering, nodes, nodes + 1)
           items == <<ExprItem(nodes, lhs), ExprItem(nodes + 1, rhs), rest>>
<1>1. /\ TypeOK /\ nodes \in Nat /\ nodes + 1 \in Nat /\ At("cond")
      /\ lhs \in Type /\ rhs \in Type
  BY DEF IInv, TypeOK, VisitCondition, BoundsAssumption
<1>2. Top \in StackItem /\ Top.node \in Nat
  BY <1>1, TopTyped, ItemFields
<1>3. /\ rest \in StackItem /\ Visits(rest) = {} /\ Owns(rest) = {Top.node}
      /\ Reads(rest) = {Top.node, nodes, nodes + 1}
  BY <1>1, <1>2, ConditionRests
<1>4. /\ Become(items) /\ Refer(Top.node, FreshTmp) /\ nodes' = nodes + 2
      /\ UNCHANGED <<program, out, variable_counts_, next_label, strings, frees, status>>
  BY DEF VisitCondition
<1> HIDE DEF rest
<1>5. /\ items \in Seq(StackItem) /\ nodes' \in Nat /\ nodes' >= nodes
      /\ Proper(items, {Top.node})
  BY <1>1, <1>2, <1>3, <1>4, TwoOperands
<1> HIDE DEF items
<1> QED
  BY <1>1, <1>4, <1>5, OperatorVisited

LEMMA BinaryResumedKeeps ==
  ASSUME IInv, BinaryResumed
  PROVE  IInv'
<1> DEFINE ref == register_reference_[Top.node]
           operands == {register_reference_[Top.lhs], register_reference_[Top.rhs]}
<1>1. /\ TypeOK /\ ScopesTyped /\ TextTyped /\ StringsTyped
      /\ functions \in Nat /\ At("binary")
  BY TypeParts DEF IInv, ScopesTyped, BinaryResumed
<1>2. Top.lhs \in Reads(Top) /\ Top.rhs \in Reads(Top)
  BY <1>1, TopTyped DEF Reads
<1>3. /\ ref \in Register /\ ref.name = "tmp"
      /\ operands \in SUBSET Register
  BY <1>1, <1>2, OwnRegister, OperandRead
<1> HIDE DEF ref, operands
<1>4. "arith" \in Operation /\ "concat" \in Operation
  BY DEF Operation, StringOps
<1>5. /\ <<Plain("arith", ref, operands)>> \in Seq(Line)
      /\ <<Plain("concat", ref, operands)>> \in Seq(Line)
  BY <1>1, <1>3, <1>4, PlainTyped
<1>6. out' \in Seq(Line)
  <2>1. Emit(<<Plain("arith", ref, operands)>>) \/ Emit(<<Plain("concat", ref, operands)>>)
    BY DEF BinaryResumed, ref, operands
  <2> QED
    BY <1>1, <1>5, <2>1, Emitted
<1>7. StringsTyped'
  <2>1. \/ UNCHANGED <<strings_to_free_, need_string_functions_>>
        \/ /\ need_string_functions_' = TRUE
           /\ strings_to_free_' = strings_to_free_ \union {ref}
    BY DEF BinaryResumed, ref
  <2>2. UNCHANGED <<strings, string_functions_declared_, status>>
    BY DEF BinaryResumed
  <2>3. \A r \in strings_to_free_' : r \in Register /\ r.name = "tmp"
    BY <1>1, <1>3, <2>1 DEF StringsTyped
  <2>4. need_string_functions_' \in BOOLEAN
    BY <1>1, <2>1 DEF StringsTyped
  <2> QED
    BY <1>1, <2>2, <2>3, <2>4 DEF StringsTyped, strings
<1>8. ScopesTyped' /\ TextTyped'
  BY <1>1, <1>6 DEF BinaryResumed, ScopesTyped, TextTyped, program, scopes
<1>9. todo # <<>> /\ Visits(Top) = {}
  BY <1>1, NoVisit
<1> QED
  BY <1>7, <1>8, <1>9, EntryDone DEF BinaryResumed
LEMMA ConditionResumedKeeps ==
  ASSUME IInv, ConditionResumed
  PROVE  IInv'
<1> DEFINE ref == register_reference_[Top.node]
           operands == {register_reference_[Top.lhs], register_reference_[Top.rhs]}
<1>1. /\ TypeOK /\ ScopesTyped /\ TextTyped /\ StringsTyped
      /\ functions \in Nat /\ At("condition")
  BY TypeParts DEF IInv, ScopesTyped, ConditionResumed
<1>2. /\ nodes' = nodes
      /\ UNCHANGED <<program, register_reference_, variable_counts_, next_label, strings,
                     strings_to_free_, string_functions_declared_>>
  BY DEF ConditionResumed
<1>3. CASE status' = "terminated" /\ UNCHANGED <<todo, out, need_string_functions_>>
  BY <1>2, <1>3 DEF IInv, TypeOK, Nodes, NodesExist, VisitedOnce, NotVisitedAgain,
     OwnersNamed, OperandsVisited, program, scopes, strings, Visits, Reads, Owns
<1>4. CASE /\ Become(<<>>)
           /\ Emit(<<Plain("icmp", ref, operands)>>) \/ Emit(<<Plain("equal", ref, operands)>>)
           /\ need_string_functions_' \in {need_string_functions_, TRUE}
           /\ UNCHANGED status
  <2>1. Top.lhs \in Reads(Top) /\ Top.rhs \in Reads(Top)
    BY <1>1, TopTyped DEF Reads
  <2>2. ref \in Register /\ operands \in SUBSET Register
    BY <1>1, <2>1, OwnRegister, OperandRead
  <2> HIDE DEF ref, operands
  <2>3. "icmp" \in Operation /\ "equal" \in Operation
    BY DEF Operation, StringOps
  <2>4. /\ <<Plain("icmp", ref, operands)>> \in Seq(Line)
        /\ <<Plain("equal", ref, operands)>> \in Seq(Line)
    BY <1>1, <2>2, <2>3, PlainTyped
  <2>5. out' \in Seq(Line)
    BY <1>1, <1>4, <2>4, Emitted
  <2>6. need_string_functions_' \in BOOLEAN
    BY <1>1, <1>4 DEF StringsTyped
  <2>7. ScopesTyped' /\ TextTyped' /\ StringsTyped'
    BY <1>1, <1>2, <1>4, <2>5, <2>6 DEF ScopesTyped, TextTyped, StringsTyped, program,
       scopes, strings
  <2>8. todo # <<>> /\ Visits(Top) = {}
    BY <1>1, NoVisit
  <2> QED
    BY <1>2, <1>4, <2>7, <2>8, EntryDone
<1> QED
  BY <1>3, <1>4 DEF ConditionResumed

LEMMA VisitAssignmentKeeps ==
  ASSUME SymbolsAssumption, IInv, NEW s \in Symbols, VisitAssignment(s)
  PROVE  IInv'
<1> DEFINE items == <<ExprItem(nodes, TypeOf[s]), AssignRest(s, nodes)>>
<1>1. TypeOK /\ nodes \in Nat /\ At("assign") /\ TypeOf[s] \in Type
  BY DEF IInv, TypeOK, VisitAssignment, SymbolsAssumption
<1>2. /\ items[1] \in StackItem /\ Visits(items[1]) = {nodes}
      /\ Reads(items[1]) = {} /\ Owns(items[1]) = {}
  BY <1>1, VisitItems
<1>3. /\ items[2] \in StackItem /\ Visits(items[2]) = {}
      /\ Reads(items[2]) = {nodes} /\ Owns(items[2]) = {}
  BY <1>1, StoreRests
<1>4. items \in Seq(StackItem) /\ DOMAIN items = 1..2
  BY <1>2, <1>3
<1>5. /\ Become(items) /\ Refer(Top.node, FreshTmp) /\ nodes' = nodes + 1
      /\ UNCHANGED <<program, out, variable_counts_, next_label, strings, frees, status>>
  BY DEF VisitAssignment
<1> HIDE DEF items
<1>6. Proper(items, {Top.node})
  BY <1>1, <1>2, <1>3, <1>4, <1>5 DEF Proper
<1>7. nodes' \in Nat /\ nodes' >= nodes
  BY <1>1, <1>5
<1> QED
  BY <1>1, <1>4, <1>5, <1>6, <1>7, OperatorVisited

LEMMA AssignmentResumedKeeps ==
  ASSUME IInv, AssignmentResumed
  PROVE  IInv'
<1>1. TypeOK /\ functions \in Nat /\ At("store")
  BY DEF IInv, TypeOK, AssignmentResumed
<1>2. Top.arg \in Reads(Top) /\ Top.sym \in Symbols
  BY <1>1, TopTyped, ItemFields DEF Reads
<1>3. register_reference_[Top.arg] \in Register
  BY <1>1, <1>2, OperandRead
<1>4. <<StoreTo(Top.sym, register_reference_[Top.arg])>> \in Seq(Line)
  BY <1>1, <1>2, <1>3, AccessTyped
<1> QED
  BY <1>1, <1>4, LinesWritten DEF AssignmentResumed

LEMMA VisitFunctionCallKeeps ==
  ASSUME BoundsAssumption, IInv,
         NEW k \in 0..MaxArgs, NEW types \in [1..k -> SourceTypes],
         VisitFunctionCall(types)
  PROVE  IInv'
<1> DEFINE args == [i \in 1..k |-> ExprItem(nodes + i - 1, types[i])]
           ids  == [i \in 1..k |-> nodes + i - 1]
           rest == CallRest(Top.node, Top.type, ids)
           items == args \o <<rest>>
<1>1. TypeOK /\ nodes \in Nat /\ k \in Nat /\ At("expr")
  BY DEF IInv, TypeOK, VisitFunctionCall, BoundsAssumption
<1>2. Top \in StackItem /\ Top.node \in Nat /\ Top.type \in Type
  BY <1>1, TopTyped, ItemFields
<1>3. \A i \in 1..k : /\ args[i] \in StackItem /\ Visits(args[i]) = {nodes + i - 1}
                      /\ Reads(args[i]) = {} /\ Owns(args[i]) = {}
  <2> SUFFICES ASSUME NEW i \in 1..k
               PROVE  /\ args[i] \in StackItem /\ Visits(args[i]) = {nodes + i - 1}
                      /\ Reads(args[i]) = {} /\ Owns(args[i]) = {}
    OBVIOUS
  <2>1. nodes + i - 1 \in Nat /\ types[i] \in Type
    BY <1>1 DEF BoundsAssumption
  <2>2. args[i] = ExprItem(nodes + i - 1, types[i])
    OBVIOUS
  <2> QED
    BY <2>1, <2>2, VisitItems
<1>4. ids \in Seq(Nat) /\ DOMAIN ids = 1..k /\ \A i \in 1..k : ids[i] = nodes + i - 1
  BY <1>1
<1>5. args \in Seq(StackItem) /\ Len(args) = k
  BY <1>1, <1>3
<1>6. /\ Become(items) /\ Refer(Top.node, FreshTmp) /\ nodes' = nodes + k
      /\ UNCHANGED <<program, out, variable_counts_, next_label, strings, frees, status>>
  <2>1. DOMAIN types = 1..k /\ Len(types) = k
    BY <1>1
  <2> QED
    BY <2>1 DEF VisitFunctionCall
<1> HIDE DEF args, ids
<1>7. /\ rest \in StackItem /\ Visits(rest) = {} /\ Owns(rest) = {Top.node}
      /\ Reads(rest) = {Top.node} \union {ids[i] : i \in DOMAIN ids}
  <2> DEFINE m == Top.node
             t == Top.type
  <2>1. m \in Nat /\ t \in Type /\ ids \in Seq(Nat)
    BY <1>2, <1>4
  <2> HIDE DEF m, t
  <2>2. /\ CallRest(m, t, ids) \in StackItem
        /\ Visits(CallRest(m, t, ids)) = {} /\ Owns(CallRest(m, t, ids)) = {m}
        /\ Reads(CallRest(m, t, ids)) = {m} \union {ids[i] : i \in DOMAIN ids}
    BY <2>1, CallRests
  <2> QED
    BY <2>2 DEF m, t
<1> HIDE DEF rest
<1>8. /\ items \in Seq(StackItem) /\ Len(items) = k + 1
      /\ \A i \in 1..k + 1 : items[i] = IF i <= k THEN args[i] ELSE <<rest>>[i - k]
  <2>1. <<rest>> \in Seq(StackItem) /\ Len(<<rest>>) = 1
    BY <1>7
  <2> QED
    BY <1>5, <2>1, ConcatProperties
<1>9. items[k + 1] = rest /\ (\A i \in 1..k : items[i] = args[i])
  BY <1>1, <1>8
<1>10. DOMAIN items = 1..k + 1
  BY <1>8
<1> HIDE DEF items
<1>11. \A i \in DOMAIN items :
         \/ /\ i \in 1..k /\ Visits(items[i]) = {nodes + i - 1}
            /\ Reads(items[i]) = {} /\ Owns(items[i]) = {}
         \/ /\ i = k + 1 /\ Visits(items[i]) = {} /\ Owns(items[i]) = {Top.node}
            /\ items[i] = rest
  <2> SUFFICES ASSUME NEW i \in 1..k + 1
               PROVE  \/ /\ i \in 1..k /\ Visits(items[i]) = {nodes + i - 1}
                         /\ Reads(items[i]) = {} /\ Owns(items[i]) = {}
                      \/ /\ i = k + 1 /\ Visits(items[i]) = {} /\ Owns(items[i]) = {Top.node}
                         /\ items[i] = rest
    BY <1>10
  <2>1. CASE i = k + 1
    BY <1>7, <1>9, <2>1
  <2>2. CASE i \in 1..k
    BY <1>3, <1>9, <2>2
  <2> QED
    BY <1>1, <2>1, <2>2
<1>12. nodes' \in Nat /\ nodes' >= nodes
  BY <1>1, <1>6
<1>13. \A i \in DOMAIN items : Visits(items[i]) \subseteq nodes..nodes' - 1
  BY <1>1, <1>6, <1>11
<1>14. \A i, j \in DOMAIN items :
         i # j => Visits(items[i]) \intersect Visits(items[j]) = {}
  BY <1>1, <1>11
<1>15. \A i \in DOMAIN items : Owns(items[i]) \subseteq {Top.node}
  BY <1>11
<1>16. \A i \in DOMAIN items : \A n \in Reads(items[i]) :
         n \in {Top.node} \/ \E j \in 1..i - 1 : n \in Visits(items[j])
  <2> SUFFICES ASSUME NEW n \in Reads(rest), n # Top.node
               PROVE  \E j \in 1..k : n \in Visits(items[j])
    BY <1>1, <1>11
  <2>1. PICK j \in 1..k : n = nodes + j - 1
    BY <1>4, <1>7
  <2> QED
    BY <1>3, <1>9, <2>1
<1> QED
  BY <1>1, <1>6, <1>8, <1>12, <1>13, <1>14, <1>15, <1>16, OperatorVisited DEF Proper

LEMMA FunctionCallResumedKeeps ==
  ASSUME IInv, FunctionCallResumed
  PROVE  IInv'
<1> DEFINE operands == {register_reference_[Top.args[i]] : i \in DOMAIN Top.args}
<1>1. TypeOK /\ functions \in Nat /\ At("call")
  BY DEF IInv, TypeOK, FunctionCallResumed
<1>2. \A i \in DOMAIN Top.args : Top.args[i] \in Reads(Top)
  BY <1>1, TopTyped DEF Reads
<1>3. operands \in SUBSET Register /\ register_reference_[Top.node] \in Register
  BY <1>1, <1>2, OwnRegister, OperandRead
<1>4. CallOp(Top.type) \in Operation
  BY DEF Operation, CallOp
<1> HIDE DEF operands
<1>5. <<Plain(CallOp(Top.type), register_reference_[Top.node], operands)>> \in Seq(Line)
  BY <1>1, <1>3, <1>4, PlainTyped
<1> QED
  BY <1>1, <1>5, LinesWritten DEF FunctionCallResumed, operands
-----------------------------------------------------------------------------
(* The actions of an instruction.                                            *)

(* A visit method that takes labels, writes lines and makes calls.           *)
LEMMA InstructionVisited ==
  ASSUME IInv, At("instr"), NEW items \in Seq(StackItem), Become(items),
         nodes' \in Nat, nodes' >= nodes, Proper(items, {}),
         out' \in Seq(Line), next_label' \in Nat,
         UNCHANGED <<program, register_reference_, variable_counts_, strings, frees, status>>
  PROVE  IInv'
<1>1. TypeOK /\ ScopesTyped /\ TextTyped /\ StringsTyped
  BY TypeParts DEF IInv
<1>2. todo # <<>> /\ Visits(Top) = {}
  BY <1>1, NoVisit
<1>3. ScopesTyped' /\ TextTyped' /\ StringsTyped'
  BY <1>1 DEF ScopesTyped, TextTyped, StringsTyped, program, scopes, strings, frees
<1> QED
  BY <1>2, <1>3, EntryReplaced

LEMMA VisitExpressionInstructionKeeps ==
  ASSUME BoundsAssumption, IInv, NEW t \in SourceTypes, VisitExpressionInstruction(t)
  PROVE  IInv'
<1> DEFINE items == <<ExprItem(nodes, t)>>
<1>1. /\ TypeOK /\ nodes \in Nat /\ At("instr") /\ t \in Type
      /\ out \in Seq(Line) /\ next_label \in Nat
  BY DEF IInv, TypeOK, VisitExpressionInstruction, BoundsAssumption
<1>2. /\ items[1] \in StackItem /\ Visits(items[1]) = {nodes}
      /\ Reads(items[1]) = {} /\ Owns(items[1]) = {}
  BY <1>1, VisitItems
<1>3. items \in Seq(StackItem) /\ DOMAIN items = 1..1
  BY <1>2
<1>4. /\ Become(items) /\ nodes' = nodes + 1 /\ out' = out /\ next_label' = next_label
      /\ UNCHANGED <<program, register_reference_, variable_counts_, strings, frees, status>>
  BY DEF VisitExpressionInstruction
<1> HIDE DEF items
<1>5. Proper(items, {}) /\ nodes' \in Nat /\ nodes' >= nodes
  BY <1>1, <1>2, <1>3, <1>4 DEF Proper
<1> QED
  BY <1>1, <1>3, <1>4, <1>5, InstructionVisited

LEMMA VisitAssignmentInstructionKeeps ==
  ASSUME IInv, VisitAssignmentInstruction
  PROVE  IInv'
<1> DEFINE items == <<AssignItem(nodes)>>
<1>1. /\ TypeOK /\ nodes \in Nat /\ At("instr")
      /\ out \in Seq(Line) /\ next_label \in Nat
  BY DEF IInv, TypeOK, VisitAssignmentInstruction
<1>2. /\ items[1] \in StackItem /\ Visits(items[1]) = {nodes}
      /\ Reads(items[1]) = {} /\ Owns(items[1]) = {}
  BY <1>1, VisitItems DEF Type
<1>3. items \in Seq(StackItem) /\ DOMAIN items = 1..1
  BY <1>2
<1>4. /\ Become(items) /\ nodes' = nodes + 1 /\ out' = out /\ next_label' = next_label
      /\ UNCHANGED <<program, register_reference_, variable_counts_, strings, frees, status>>
  BY DEF VisitAssignmentInstruction
<1> HIDE DEF items
<1>5. Proper(items, {}) /\ nodes' \in Nat /\ nodes' >= nodes
  BY <1>1, <1>2, <1>3, <1>4 DEF Proper
<1> QED
  BY <1>1, <1>3, <1>4, <1>5, InstructionVisited

LEMMA VisitReturnInstructionKeeps ==
  ASSUME BoundsAssumption, IInv, NEW t \in SourceTypes, VisitReturnInstruction(t)
  PROVE  IInv'
<1> DEFINE items == <<ExprItem(nodes, t), ReturnRest(t, nodes)>>
<1>1. /\ TypeOK /\ nodes \in Nat /\ At("instr") /\ t \in Type
      /\ out \in Seq(Line) /\ next_label \in Nat
  BY DEF IInv, TypeOK, VisitReturnInstruction, BoundsAssumption
<1>2. /\ items[1] \in StackItem /\ Visits(items[1]) = {nodes}
      /\ Reads(items[1]) = {} /\ Owns(items[1]) = {}
  BY <1>1, VisitItems
<1>3. /\ items[2] \in StackItem /\ Visits(items[2]) = {}
      /\ Reads(items[2]) = {nodes} /\ Owns(items[2]) = {}
  BY <1>1, ReturnRests
<1>4. items \in Seq(StackItem) /\ DOMAIN items = 1..2
  BY <1>2, <1>3
<1>5. /\ Become(items) /\ nodes' = nodes + 1 /\ out' = out /\ next_label' = next_label
      /\ UNCHANGED <<program, register_reference_, variable_counts_, strings, frees, status>>
  BY DEF VisitReturnInstruction
<1> HIDE DEF items
<1>6. Proper(items, {}) /\ nodes' \in Nat /\ nodes' >= nodes
  BY <1>1, <1>2, <1>3, <1>4, <1>5 DEF Proper
<1> QED
  BY <1>1, <1>4, <1>5, <1>6, InstructionVisited

(* The labels an instruction takes, and the first lines of a loop.           *)
LEMMA LabelsTyped ==
  ASSUME TypeOK
  PROVE  /\ \A i \in 0..3 : Lab(i) \in Nat
         /\ \A k \in Nat : TakeLabels(k) => next_label' \in Nat
         /\ Emit(<<Br(Lab(0)), LabelAt(Lab(0))>>) => out' \in Seq(Line)
<1>1. \A i \in 0..3 : Lab(i) \in Nat
  BY DEF TypeOK, Lab
<1>2. \A k \in Nat : TakeLabels(k) => next_label' \in Nat
  BY DEF TypeOK, TakeLabels
<1>3. <<Br(Lab(0)), LabelAt(Lab(0))>> \in Seq(Line)
  <2>1. Br(Lab(0)) \in Line /\ LabelAt(Lab(0)) \in Line
    BY <1>1, NamedRegisters, BranchTyped DEF TypeOK
  <2> QED
    BY <2>1
<1>4. TextTyped
  BY TypeParts
<1> QED
  BY <1>1, <1>2, <1>3, <1>4, Emitted

LEMMA VisitWhileInstructionKeeps ==
  ASSUME IInv, VisitWhileInstruction
  PROVE  IInv'
<1> DEFINE items == <<CondItem(nodes), BranchRest(nodes, Lab(1), Lab(2), Lab(1)),
                      InstrItem, JumpRest(Lab(0), Lab(2))>>
<1>1. TypeOK /\ nodes \in Nat /\ At("instr") /\ \A i \in 0..3 : Lab(i) \in Nat
  BY LabelsTyped DEF IInv, TypeOK, VisitWhileInstruction
<1>2. /\ items[1] \in StackItem /\ Visits(items[1]) = {nodes}
      /\ Reads(items[1]) = {} /\ Owns(items[1]) = {}
  BY <1>1, VisitItems DEF Type
<1>3. /\ items[2] \in StackItem /\ Visits(items[2]) = {}
      /\ Reads(items[2]) = {nodes} /\ Owns(items[2]) = {}
  BY <1>1, BranchRests
<1>4. /\ items[3] \in StackItem /\ Visits(items[3]) = {}
      /\ Reads(items[3]) = {} /\ Owns(items[3]) = {}
  BY OtherItems
<1>5. /\ items[4] \in StackItem /\ Visits(items[4]) = {}
      /\ Reads(items[4]) = {} /\ Owns(items[4]) = {}
  BY <1>1, BranchRests
<1>6. items \in Seq(StackItem) /\ DOMAIN items = 1..4
  BY <1>2, <1>3, <1>4, <1>5
<1>7. /\ Become(items) /\ nodes' = nodes + 2 /\ TakeLabels(3)
      /\ Emit(<<Br(Lab(0)), LabelAt(Lab(0))>>)
      /\ UNCHANGED <<program, register_reference_, variable_counts_, strings, frees, status>>
  BY DEF VisitWhileInstruction
<1> HIDE DEF items
<1>8. Proper(items, {}) /\ nodes' \in Nat /\ nodes' >= nodes
  BY <1>1, <1>2, <1>3, <1>4, <1>5, <1>6, <1>7 DEF Proper
<1>9. out' \in Seq(Line) /\ next_label' \in Nat
  BY <1>1, <1>7, LabelsTyped
<1> QED
  BY <1>1, <1>6, <1>7, <1>8, <1>9, InstructionVisited
LEMMA VisitDoInstructionKeeps ==
  ASSUME IInv, VisitDoInstruction
  PROVE  IInv'
<1> DEFINE items == <<InstrItem, JumpRest(Lab(1), Lab(1)),
                      CondItem(nodes), BranchRest(nodes, Lab(0), Lab(2), Lab(2))>>
<1>1. TypeOK /\ nodes \in Nat /\ At("instr") /\ \A i \in 0..3 : Lab(i) \in Nat
  BY LabelsTyped DEF IInv, TypeOK, VisitDoInstruction
<1>2. /\ items[1] \in StackItem /\ Visits(items[1]) = {}
      /\ Reads(items[1]) = {} /\ Owns(items[1]) = {}
  BY OtherItems
<1>3. /\ items[2] \in StackItem /\ Visits(items[2]) = {}
      /\ Reads(items[2]) = {} /\ Owns(items[2]) = {}
  BY <1>1, BranchRests
<1>4. /\ items[3] \in StackItem /\ Visits(items[3]) = {nodes}
      /\ Reads(items[3]) = {} /\ Owns(items[3]) = {}
  BY <1>1, VisitItems DEF Type
<1>5. /\ items[4] \in StackItem /\ Visits(items[4]) = {}
      /\ Reads(items[4]) = {nodes} /\ Owns(items[4]) = {}
  BY <1>1, BranchRests
<1>6. items \in Seq(StackItem) /\ DOMAIN items = 1..4
  BY <1>2, <1>3, <1>4, <1>5
<1>7. /\ Become(items) /\ nodes' = nodes + 2 /\ TakeLabels(3)
      /\ Emit(<<Br(Lab(0)), LabelAt(Lab(0))>>)
      /\ UNCHANGED <<program, register_reference_, variable_counts_, strings, frees, status>>
  BY DEF VisitDoInstruction
<1> HIDE DEF items
<1>8. Proper(items, {}) /\ nodes' \in Nat /\ nodes' >= nodes
  BY <1>1, <1>2, <1>3, <1>4, <1>5, <1>6, <1>7 DEF Proper
<1>9. out' \in Seq(Line) /\ next_label' \in Nat
  BY <1>1, <1>7, LabelsTyped
<1> QED
  BY <1>1, <1>6, <1>7, <1>8, <1>9, InstructionVisited

LEMMA VisitForInstructionKeeps ==
  ASSUME IInv, VisitForInstruction
  PROVE  IInv'
<1> DEFINE items == <<AssignItem(nodes), JumpRest(Lab(0), Lab(0)),
                      CondItem(nodes + 1),
                      BranchRest(nodes + 1, Lab(1), Lab(3), Lab(1)),
                      InstrItem, JumpRest(Lab(2), Lab(2)),
                      AssignItem(nodes + 2), JumpRest(Lab(0), Lab(3))>>
<1>1. /\ TypeOK /\ nodes \in Nat /\ nodes + 1 \in Nat /\ nodes + 2 \in Nat
      /\ At("instr") /\ out \in Seq(Line) /\ \A i \in 0..3 : Lab(i) \in Nat
  <2>1. TypeOK /\ nodes \in Nat /\ At("instr") /\ out \in Seq(Line)
    BY DEF IInv, TypeOK, VisitForInstruction
  <2>2. \A i \in 0..3 : Lab(i) \in Nat
    BY <2>1, LabelsTyped
  <2> QED
    BY <2>1, <2>2
<1>2. /\ items[1] \in StackItem /\ Visits(items[1]) = {nodes}
      /\ Reads(items[1]) = {} /\ Owns(items[1]) = {}
  BY <1>1, VisitItems DEF Type
<1>3. /\ items[3] \in StackItem /\ Visits(items[3]) = {nodes + 1}
      /\ Reads(items[3]) = {} /\ Owns(items[3]) = {}
  BY <1>1, VisitItems DEF Type
<1>4. /\ items[4] \in StackItem /\ Visits(items[4]) = {}
      /\ Reads(items[4]) = {nodes + 1} /\ Owns(items[4]) = {}
  BY <1>1, BranchRests, SMTT(30)
<1>5. /\ items[5] \in StackItem /\ Visits(items[5]) = {}
      /\ Reads(items[5]) = {} /\ Owns(items[5]) = {}
  BY OtherItems
<1>6. /\ items[7] \in StackItem /\ Visits(items[7]) = {nodes + 2}
      /\ Reads(items[7]) = {} /\ Owns(items[7]) = {}
  BY <1>1, VisitItems DEF Type
<1>7. \A i \in {2, 6, 8} : /\ items[i] \in StackItem /\ Visits(items[i]) = {}
                           /\ Reads(items[i]) = {} /\ Owns(items[i]) = {}
  <2>1. /\ items[2] \in StackItem /\ Visits(items[2]) = {}
        /\ Reads(items[2]) = {} /\ Owns(items[2]) = {}
    BY <1>1, BranchRests
  <2>2. /\ items[6] \in StackItem /\ Visits(items[6]) = {}
        /\ Reads(items[6]) = {} /\ Owns(items[6]) = {}
    BY <1>1, BranchRests
  <2>3. /\ items[8] \in StackItem /\ Visits(items[8]) = {}
        /\ Reads(items[8]) = {} /\ Owns(items[8]) = {}
    BY <1>1, BranchRests
  <2> HIDE DEF items
  <2> QED
    BY <2>1, <2>2, <2>3
<1>8. items \in Seq(StackItem) /\ DOMAIN items = 1..8
  BY <1>2, <1>3, <1>4, <1>5, <1>6, <1>7
<1>9. /\ Become(items) /\ nodes' = nodes + 4 /\ TakeLabels(4) /\ out' = out
      /\ UNCHANGED <<program, register_reference_, variable_counts_, strings, frees, status>>
  BY DEF VisitForInstruction
<1> HIDE DEF items
<1>10. Proper(items, {})
  <2>1. \A i \in 1..8 : \A n : n \in Visits(items[i]) <=>
          (i = 1 /\ n = nodes) \/ (i = 3 /\ n = nodes + 1) \/ (i = 7 /\ n = nodes + 2)
    BY <1>2, <1>3, <1>4, <1>5, <1>6, <1>7
  <2>2. \A i \in 1..8 : /\ \A n \in Reads(items[i]) : i = 4 /\ n = nodes + 1
                        /\ Owns(items[i]) = {}
    BY <1>2, <1>3, <1>4, <1>5, <1>6, <1>7
  <2>3. \A i \in 1..8 : Visits(items[i]) \subseteq nodes..nodes' - 1
    <3> SUFFICES ASSUME NEW i \in 1..8, NEW n \in Visits(items[i])
                 PROVE  n \in nodes..nodes' - 1
      OBVIOUS
    <3>1. n \in {nodes, nodes + 1, nodes + 2}
      BY <2>1
    <3> QED
      BY <1>1, <1>9, <3>1
  <2>4. \A i, j \in 1..8 : i # j => Visits(items[i]) \intersect Visits(items[j]) = {}
    <3> SUFFICES ASSUME NEW i \in 1..8, NEW j \in 1..8, i # j,
                        NEW n \in Visits(items[i]), n \in Visits(items[j])
                 PROVE  FALSE
      BY Zenon
    <3>1. (i = 1 /\ n = nodes) \/ (i = 3 /\ n = nodes + 1) \/ (i = 7 /\ n = nodes + 2)
      BY <2>1
    <3>2. (j = 1 /\ n = nodes) \/ (j = 3 /\ n = nodes + 1) \/ (j = 7 /\ n = nodes + 2)
      BY <2>1
    <3> QED
      BY <1>1, <3>1, <3>2
  <2>5. \A i \in 1..8 : \A n \in Reads(items[i]) : \E j \in 1..i - 1 : n \in Visits(items[j])
    <3> SUFFICES ASSUME NEW i \in 1..8, NEW n \in Reads(items[i])
                 PROVE  \E j \in 1..i - 1 : n \in Visits(items[j])
      OBVIOUS
    <3>1. i = 4 /\ n \in Visits(items[3])
      BY <2>1, <2>2
    <3> QED
      BY <3>1
  <2> QED
    BY <1>8, <2>2, <2>3, <2>4, <2>5 DEF Proper
<1>11. nodes' \in Nat /\ nodes' >= nodes /\ next_label' \in Nat
  BY <1>1, <1>9, LabelsTyped
<1> QED
  BY <1>1, <1>8, <1>9, <1>10, <1>11, InstructionVisited

LEMMA VisitCondInstructionKeeps ==
  ASSUME IInv, NEW hasElse \in BOOLEAN, VisitCondInstruction(hasElse)
  PROVE  IInv'
<1> DEFINE head == <<CondItem(nodes), BranchRest(nodes, Lab(0), Lab(1), Lab(0)),
                     InstrItem, JumpRest(Lab(2), Lab(1))>>
           else == IF hasElse THEN <<ElseItem>> ELSE <<>>
           tail == <<JumpRest(Lab(2), Lab(2))>>
           items == head \o else \o tail
           quiet(it) == /\ it \in StackItem
                        /\ Visits(it) = {} /\ Reads(it) = {} /\ Owns(it) = {}
<1>1. /\ TypeOK /\ nodes \in Nat /\ At("instr") /\ out \in Seq(Line)
      /\ \A i \in 0..3 : Lab(i) \in Nat
  BY LabelsTyped DEF IInv, TypeOK, VisitCondInstruction
<1>2. /\ head[1] \in StackItem /\ Visits(head[1]) = {nodes}
      /\ Reads(head[1]) = {} /\ Owns(head[1]) = {}
  BY <1>1, VisitItems DEF Type
<1>3. /\ head[2] \in StackItem /\ Visits(head[2]) = {}
      /\ Reads(head[2]) = {nodes} /\ Owns(head[2]) = {}
  BY <1>1, BranchRests, SMTT(30)
<1>4. quiet(head[3]) /\ quiet(ElseItem)
  BY OtherItems
<1>5. quiet(head[4]) /\ quiet(tail[1])
  BY <1>1, BranchRests
<1>6. head \in Seq(StackItem) /\ Len(head) = 4
  BY <1>2, <1>3, <1>4, <1>5
<1>7. /\ else \in Seq(StackItem) /\ Len(else) \in 0..1
      /\ \A i \in 1..Len(else) : quiet(else[i])
  <2>1. CASE hasElse
    <3>1. else = <<ElseItem>>
      BY <2>1
    <3> QED
      BY <1>4, <3>1
  <2>2. CASE ~hasElse
    <3>1. else = <<>>
      BY <2>2
    <3> QED
      BY <3>1, EmptySeq
  <2> QED
    BY <2>1, <2>2
<1>8. tail \in Seq(StackItem) /\ Len(tail) = 1
  BY <1>5
<1>9. /\ Become(items) /\ TakeLabels(3) /\ out' = out /\ nodes' \in {nodes + 2, nodes + 3}
      /\ UNCHANGED <<program, register_reference_, variable_counts_, strings, frees, status>>
  BY DEF VisitCondInstruction
<1> HIDE DEF head, else, tail
<1>10. /\ head \o else \in Seq(StackItem) /\ Len(head \o else) = 4 + Len(else)
       /\ \A i \in 1..4 + Len(else) : (head \o else)[i] =
            IF i <= 4 THEN head[i] ELSE else[i - 4]
  <2>1. /\ head \o else \in Seq(StackItem) /\ Len(head \o else) = Len(head) + Len(else)
        /\ \A i \in 1..Len(head) + Len(else) : (head \o else)[i] =
             IF i <= Len(head) THEN head[i] ELSE else[i - Len(head)]
    BY <1>6, <1>7, ConcatProperties, Zenon
  <2> QED
    BY <1>6, <2>1
<1>11. /\ items \in Seq(StackItem) /\ Len(items) = 5 + Len(else)
       /\ \A i \in 1..5 + Len(else) : items[i] =
            IF i <= 4 + Len(else) THEN (head \o else)[i] ELSE tail[i - (4 + Len(else))]
  <2> DEFINE front == head \o else
  <2>1. front \in Seq(StackItem) /\ Len(front) = 4 + Len(else)
    BY <1>10
  <2> HIDE DEF front
  <2>2. /\ front \o tail \in Seq(StackItem) /\ Len(front \o tail) = Len(front) + Len(tail)
        /\ \A i \in 1..Len(front) + Len(tail) : (front \o tail)[i] =
             IF i <= Len(front) THEN front[i] ELSE tail[i - Len(front)]
    <3>1. front \in Seq(StackItem) /\ tail \in Seq(StackItem)
      BY <1>8, <2>1
    <3> HIDE DEF items
    <3> QED
      BY <3>1, ConcatProperties, Zenon
  <2>3. items = front \o tail
    BY DEF front
  <2> HIDE DEF items
  <2> QED
    BY <1>7, <1>8, <2>1, <2>2, <2>3 DEF front
<1> HIDE DEF items
<1>12. /\ DOMAIN items = 1..5 + Len(else)
       /\ \A i \in 1..4 : items[i] = head[i]
       /\ \A i \in 5..5 + Len(else) : quiet(items[i])
  <2>1. \A i \in 1..4 : items[i] = head[i]
    BY <1>7, <1>10, <1>11
  <2>2. ASSUME NEW i \in 5..4 + Len(else)
        PROVE  quiet(items[i])
    <3>1. items[i] = else[i - 4] /\ i - 4 \in 1..Len(else)
      BY <1>7, <1>10, <1>11
    <3> QED
      BY <1>7, <3>1
  <2>3. items[5 + Len(else)] = tail[1]
    BY <1>7, <1>11
  <2>4. \A i \in 5..5 + Len(else) : quiet(items[i])
    <3> HIDE DEF quiet
    <3> QED
      BY <1>5, <1>7, <2>2, <2>3
  <2>5. DOMAIN items = 1..5 + Len(else)
    BY <1>11
  <2> QED
    BY <2>1, <2>4, <2>5
<1>13. Proper(items, {})
  <2>1. \A i \in DOMAIN items : /\ Visits(items[i]) = IF i = 1 THEN {nodes} ELSE {}
                                /\ Reads(items[i]) = IF i = 2 THEN {nodes} ELSE {}
                                /\ Owns(items[i]) = {}
    <3> SUFFICES ASSUME NEW i \in 1..5 + Len(else)
                 PROVE  /\ Visits(items[i]) = IF i = 1 THEN {nodes} ELSE {}
                        /\ Reads(items[i]) = IF i = 2 THEN {nodes} ELSE {}
                        /\ Owns(items[i]) = {}
      BY <1>12
    <3>1. CASE i \in 5..5 + Len(else)
      <4>1. i # 1 /\ i # 2
        BY <1>7, <3>1
      <4>2. quiet(items[i])
        BY <1>12, <3>1, Zenon
      <4> QED
        BY <4>1, <4>2
    <3>2. CASE i \in 1..4
      BY <1>2, <1>3, <1>4, <1>5, <1>12, <3>2
    <3> QED
      BY <1>7, <3>1, <3>2
  <2>2. DOMAIN items \subseteq 1..6 /\ 1 \in DOMAIN items
    BY <1>7, <1>12
  <2> QED
    BY <1>1, <1>9, <2>1, <2>2 DEF Proper
<1>14. nodes' \in Nat /\ nodes' >= nodes /\ next_label' \in Nat
  BY <1>1, <1>9, LabelsTyped
<1> QED
  BY <1>1, <1>9, <1>11, <1>13, <1>14, InstructionVisited
LEMMA BranchResumedKeeps ==
  ASSUME IInv, BranchResumed
  PROVE  IInv'
<1> DEFINE reg == register_reference_[Top.node]
<1>1. TypeOK /\ functions \in Nat /\ At("branch")
  BY DEF IInv, TypeOK, BranchResumed
<1>2. /\ Top.node \in Reads(Top)
      /\ Top.yes \in Nat /\ Top.no \in Nat /\ Top.at \in Nat
  BY <1>1, TopTyped, ItemFields DEF Reads
<1>3. reg \in Register
  BY <1>1, <1>2, OperandRead
<1>4. Emit(<<CondBr(reg, Top.yes, Top.no), LabelAt(Top.at)>>)
  BY DEF BranchResumed
<1> HIDE DEF reg
<1>5. CondBr(reg, Top.yes, Top.no) \in Line /\ LabelAt(Top.at) \in Line
  BY <1>1, <1>2, <1>3, BranchTyped
<1>6. <<CondBr(reg, Top.yes, Top.no), LabelAt(Top.at)>> \in Seq(Line)
  BY <1>5
<1> QED
  BY <1>1, <1>4, <1>6, LinesWritten DEF BranchResumed

LEMMA JumpResumedKeeps ==
  ASSUME IInv, JumpResumed
  PROVE  IInv'
<1>1. TypeOK /\ functions \in Nat /\ At("jump")
  BY DEF IInv, TypeOK, JumpResumed
<1>2. Top.target \in Nat /\ Top.at \in Nat
  BY <1>1, TopTyped, ItemFields
<1>3. Br(Top.target) \in Line /\ LabelAt(Top.at) \in Line
  BY <1>1, <1>2, NamedRegisters, BranchTyped
<1>4. <<Br(Top.target), LabelAt(Top.at)>> \in Seq(Line)
  BY <1>3
<1> QED
  BY <1>1, <1>4, LinesWritten DEF JumpResumed

(* The lines of a return: each of the first two may be missing.              *)
LEMMA ReturnLinesTyped ==
  ASSUME TypeOK, NEW t \in Type, NEW reg \in Register
  PROVE  ReturnLines(t, reg) \in Seq(Line)
<1> DEFINE copy == IF NeedsCopy(t, reg) THEN <<Plain("copy", ReturnCopy, {reg})>> ELSE <<>>
           free == IF Freed(t, reg) # {} THEN <<Plain("free", NoReg, Freed(t, reg))>>
                                         ELSE <<>>
           ret  == <<Ret(t, IF NeedsCopy(t, reg) THEN ReturnCopy ELSE reg)>>
<1>1. /\ functions \in Nat
      /\ ReturnCopy \in Register /\ NoReg \in Register
      /\ Freed(t, reg) \in SUBSET Register
  BY NamedRegisters DEF TypeOK, Freed
<1>2. {"copy", "free", "ret i32", "ret i8*"} \subseteq Operation
  BY DEF Operation, StringOps
<1>3. Plain("copy", ReturnCopy, {reg}) \in Line
  BY <1>1, <1>2, PlainTyped
<1>4. Plain("free", NoReg, Freed(t, reg)) \in Line
  BY <1>1, <1>2, PlainTyped
<1>5. \A r \in Register : Ret(t, r) \in Line
  <2> SUFFICES ASSUME NEW r \in Register
               PROVE  Ret(t, r) \in Line
    OBVIOUS
  <2>1. (IF t = "int" THEN "ret i32" ELSE "ret i8*") \in Operation /\ {r} \in SUBSET Register
    BY <1>2
  <2> QED
    BY <1>1, <2>1, PlainTyped DEF Ret
<1>6. copy \in Seq(Line) /\ free \in Seq(Line)
  BY <1>3, <1>4, EmptySeq
<1>7. ret \in Seq(Line)
  BY <1>1, <1>5
<1>8. ReturnLines(t, reg) = copy \o free \o ret
  BY DEF ReturnLines
<1> HIDE DEF copy, free, ret
<1> QED
  BY <1>6, <1>7, <1>8, ConcatProperties

LEMMA ReturnResumedKeeps ==
  ASSUME IInv, ReturnResumed
  PROVE  IInv'
<1>1. /\ TypeOK /\ ScopesTyped /\ TextTyped /\ StringsTyped /\ At("return")
  BY TypeParts DEF IInv, ReturnResumed
<1>2. Top.arg \in Reads(Top) /\ Top.type \in Type
  BY <1>1, TopTyped, ItemFields DEF Reads
<1>3. register_reference_[Top.arg] \in Register
  BY <1>1, <1>2, OperandRead
<1>4. ReturnLines(Top.type, register_reference_[Top.arg]) \in Seq(Line)
  BY <1>1, <1>2, <1>3, ReturnLinesTyped
<1>5. out' \in Seq(Line)
  BY <1>1, <1>4, Emitted DEF ReturnResumed
<1>6. ScopesTyped' /\ TextTyped' /\ StringsTyped'
  BY <1>1, <1>5 DEF ReturnResumed, ScopesTyped, TextTyped, StringsTyped, program,
     scopes, strings
<1>7. todo # <<>> /\ Visits(Top) = {}
  BY <1>1, NoVisit
<1> QED
  BY <1>6, <1>7, EntryDone DEF ReturnResumed

-----------------------------------------------------------------------------
(* The actions of a block.                                                   *)

LEMMA VisitCompoundInstructionKeeps ==
  ASSUME IInv, VisitCompoundInstruction
  PROVE  IInv'
<1> DEFINE block == BlockItem(TRUE)
           items == <<block>>
<1>1. /\ TypeOK /\ ScopesTyped /\ TextTyped /\ StringsTyped /\ nodes \in Nat
      /\ At("body") \/ At("instr")
  BY TypeParts DEF IInv, VisitCompoundInstruction
<1>2. todo # <<>> /\ Visits(Top) = {}
  BY <1>1, NoVisit
<1>3. block \in StackItem /\ Visits(block) = {} /\ Reads(block) = {} /\ Owns(block) = {}
  BY BlockItems, Zenon
<1> HIDE DEF block
<1>4. items \in Seq(StackItem) /\ DOMAIN items = 1..1 /\ items[1] = block
  BY <1>3
<1>5. tables' \in Seq(SUBSET Symbols)
  <2>1. tables' = tables \/ tables' = Append(tables, {})
    BY DEF VisitCompoundInstruction, scopes
  <2> QED
    BY <1>1, <2>1, AppendProperties DEF ScopesTyped
<1>6. ScopesTyped' /\ TextTyped' /\ StringsTyped'
  BY <1>1, <1>5 DEF VisitCompoundInstruction, ScopesTyped, TextTyped, StringsTyped,
     scopes, strings, frees
<1>7. Become(items) /\ nodes' = nodes /\ UNCHANGED register_reference_
  BY DEF VisitCompoundInstruction, block
<1> HIDE DEF items
<1>8. Proper(items, {}) /\ nodes' \in Nat /\ nodes' >= nodes
  BY <1>1, <1>3, <1>4, <1>7 DEF Proper
<1> QED
  BY <1>2, <1>4, <1>6, <1>7, <1>8, EntryReplaced

(* A symbol created in the innermost table.                                  *)
LEMMA SymbolAdded ==
  ASSUME ScopesTyped, NEW s \in Symbols, AddSymbol(s)
  PROVE  declared' \subseteq Symbols /\ tables' \in Seq(SUBSET Symbols)
<1>1. declared' \subseteq Symbols
  BY DEF ScopesTyped, AddSymbol
<1>2. tables \in Seq(SUBSET Symbols) /\ Len(tables) \in Nat
  BY LenProperties DEF ScopesTyped
<1>3. tables' = [tables EXCEPT ![Len(tables)] = @ \union {s}]
  BY DEF AddSymbol
<1>4. tables \in [1..Len(tables) -> SUBSET Symbols]
  BY <1>2
<1>5. tables' \in [1..Len(tables) -> SUBSET Symbols]
  BY <1>3, <1>4, Zenon
<1> QED
  BY <1>1, <1>2, <1>5, SeqDef

(* The stack, its nodes and register_reference_ are as they were.            *)
LEMMA StackUnchanged ==
  ASSUME IInv, UNCHANGED <<todo, nodes, register_reference_>>,
         ScopesTyped', TextTyped', StringsTyped'
  PROVE  IInv'
<1>1. Nodes'
  BY DEF IInv, Nodes, NodesExist, VisitedOnce, NotVisitedAgain, OwnersNamed,
     OperandsVisited, Visits, Reads, Owns
<1> QED
  BY <1>1 DEF IInv, TypeOK, ScopesTyped, TextTyped, StringsTyped

LEMMA DeclarationKeeps ==
  ASSUME SymbolsAssumption, IInv, NEW s \in Symbols, DeclareLocal(s) \/ DeclareGlobal(s)
  PROVE  IInv'
<1>1. ScopesTyped /\ TextTyped /\ StringsTyped /\ functions \in Nat
  BY TypeParts DEF IInv, ScopesTyped
<1>2. AddSymbol(s) /\ UNCHANGED <<functions, renamed>>
  BY DEF DeclareLocal, DeclareGlobal
<1>3. \A op \in {"alloca", "global"} : <<Plain(op, Pointer(s), {})>> \in Seq(Line)
  <2>1. {"alloca", "global"} \subseteq Operation
    BY DEF Operation
  <2>2. Pointer(s) \in Register
    BY VariableRegisters
  <2>3. \A op \in {"alloca", "global"} : Plain(op, Pointer(s), {}) \in Line
    BY <1>1, <2>1, <2>2, PlainTyped
  <2> QED
    BY <2>3
<1>4. TextTyped'
  <2>1. out' \in Seq(Line)
    BY <1>1, <1>3, Emitted DEF DeclareLocal, DeclareGlobal
  <2> QED
    BY <1>1, <2>1 DEF TextTyped, DeclareLocal, DeclareGlobal
<1>5. ScopesTyped'
  BY <1>1, <1>2, SymbolAdded DEF ScopesTyped
<1>6. StringsTyped'
  BY <1>1 DEF DeclareLocal, DeclareGlobal, StringsTyped, strings, frees
<1>7. UNCHANGED <<todo, nodes, register_reference_>>
  BY DEF DeclareLocal, DeclareGlobal
<1> QED
  BY <1>4, <1>5, <1>6, <1>7, StackUnchanged

LEMMA NextInstructionKeeps ==
  ASSUME IInv, NextInstruction
  PROVE  IInv'
<1> DEFINE block == BlockItem(FALSE)
           items == <<InstrItem, block>>
<1>1. /\ TypeOK /\ ScopesTyped /\ TextTyped /\ StringsTyped /\ nodes \in Nat
      /\ At("block")
  BY TypeParts DEF IInv, NextInstruction
<1>2. todo # <<>> /\ Visits(Top) = {}
  BY <1>1, NoVisit
<1>3. /\ items[1] \in StackItem /\ Visits(items[1]) = {}
      /\ Reads(items[1]) = {} /\ Owns(items[1]) = {}
  BY OtherItems
<1>4. block \in StackItem /\ Visits(block) = {} /\ Reads(block) = {} /\ Owns(block) = {}
  BY BlockItems, Zenon
<1> HIDE DEF block
<1>5. items \in Seq(StackItem) /\ DOMAIN items = 1..2 /\ items[2] = block
  BY <1>3, <1>4
<1>6. ScopesTyped' /\ TextTyped' /\ StringsTyped'
  BY <1>1 DEF NextInstruction, ScopesTyped, TextTyped, StringsTyped, program, scopes,
     strings, frees
<1>7. Become(items) /\ nodes' = nodes + 1 /\ UNCHANGED register_reference_
  BY DEF NextInstruction, block
<1> HIDE DEF items
<1>8. Proper(items, {}) /\ nodes' \in Nat /\ nodes' >= nodes
  BY <1>1, <1>3, <1>4, <1>5, <1>7 DEF Proper
<1> QED
  BY <1>2, <1>5, <1>6, <1>7, <1>8, EntryReplaced

LEMMA EndCompoundKeeps ==
  ASSUME IInv, EndCompound
  PROVE  IInv'
<1>1. /\ TypeOK /\ ScopesTyped /\ TextTyped /\ StringsTyped /\ At("block")
  BY TypeParts DEF IInv, EndCompound
<1>2. todo # <<>> /\ Visits(Top) = {}
  BY <1>1, NoVisit
<1>3. tables' \in Seq(SUBSET Symbols)
  <2>1. tables \in Seq(SUBSET Symbols) /\ Len(tables) \in Nat
    BY <1>1, LenProperties DEF ScopesTyped
  <2>2. \A i \in 1..Len(tables) - 1 : tables[i] \in SUBSET Symbols
    BY <2>1, ElementOfSeq
  <2> QED
    BY <2>1, <2>2, SubSeqProperties DEF EndCompound
<1>4. ScopesTyped' /\ TextTyped' /\ StringsTyped'
  BY <1>1, <1>3 DEF EndCompound, ScopesTyped, TextTyped, StringsTyped, strings, frees
<1> QED
  BY <1>2, <1>4, EntryDone DEF EndCompound

(* A crash and the end of the input only change status.                      *)
LEMMA StopKeeps ==
  ASSUME IInv, VisitNull \/ Finish
  PROVE  IInv'
<1>1. ScopesTyped /\ TextTyped /\ StringsTyped
  BY TypeParts DEF IInv
<1>2. ScopesTyped' /\ TextTyped' /\ StringsTyped'
  BY <1>1 DEF VisitNull, Finish, ScopesTyped, TextTyped, StringsTyped, program, scopes,
     strings, frees
<1>3. UNCHANGED <<todo, nodes, register_reference_>>
  BY DEF VisitNull, Finish
<1> QED
  BY <1>2, <1>3, StackUnchanged
-----------------------------------------------------------------------------
(* The actions of a function definition.                                     *)

LEMMA ParamLinesTyped ==
  ASSUME SymbolsAssumption, functions \in Nat, NEW s \in Symbols
  PROVE  ParamLines(s)[1] \in Line /\ ParamLines(s)[2] \in Line
<1> DEFINE pointer == Reg(NameOf[s], "pointer", NoId)
<1>1. pointer \in Register /\ Incoming(s) \in Register /\ NoReg \in Register
  BY VariableRegisters, NamedRegisters
<1>2. "alloca" \in Operation /\ "store" \in Operation
  BY DEF Operation
<1>3. ParamLines(s) = <<Plain("alloca", pointer, {}),
                        IR("store", NoReg, {Incoming(s)}, pointer, {})>>
  BY DEF ParamLines
<1> HIDE DEF pointer
<1>4. Plain("alloca", pointer, {}) \in Line
  BY <1>1, <1>2, PlainTyped
<1>5. IR("store", NoReg, {Incoming(s)}, pointer, {}) \in Line
  BY <1>1, <1>2, LineTyped
<1> QED
  BY <1>3, <1>4, <1>5

LEMMA FunctionHeadTyped ==
  ASSUME SymbolsAssumption, functions \in Nat, NEW params \in Seq(Symbols)
  PROVE  FunctionHead(params) \in Seq(Line)
<1> DEFINE incoming == {Incoming(s) : s \in SymbolsOf(params)}
           line(k) == IF k = 0
                      THEN Plain("define", NoReg, incoming)
                      ELSE ParamLines(params[(k + 1) \div 2])[2 - (k % 2)]
           last == 1 + 2 * Len(params)
<1>1. Len(params) \in Nat /\ \A i \in 1..Len(params) : params[i] \in Symbols
  BY LenProperties, ElementOfSeq
<1>2. Plain("define", NoReg, incoming) \in Line
  <2>1. SymbolsOf(params) \subseteq Symbols
    BY DEF SymbolsOf
  <2>2. incoming \in SUBSET Register
    BY <2>1, VariableRegisters
  <2>3. "define" \in Operation
    BY DEF Operation
  <2> QED
    BY <2>2, <2>3, NamedRegisters, PlainTyped
<1>3. ASSUME NEW k \in 1..2 * Len(params)
      PROVE  ParamLines(params[(k + 1) \div 2])[2 - (k % 2)] \in Line
  <2>1. (k + 1) \div 2 \in 1..Len(params)
    BY <1>1
  <2>2. 2 - (k % 2) \in {1, 2}
    BY <1>1
  <2>3. params[(k + 1) \div 2] \in Symbols
    BY <1>1, <2>1
  <2> QED
    BY <2>2, <2>3, ParamLinesTyped
<1>4. \A k \in 1..last : line(k - 1) \in Line
  <2> SUFFICES ASSUME NEW k \in 1..last
               PROVE  line(k - 1) \in Line
    OBVIOUS
  <2>1. CASE k = 1
    BY <1>2, <2>1
  <2>2. CASE k # 1
    <3>1. k - 1 \in 1..2 * Len(params) /\ k - 1 # 0
      BY <1>1, <2>2
    <3> QED
      BY <1>3, <3>1
  <2> QED
    BY <2>1, <2>2
<1>5. FunctionHead(params) = [k \in 1..last |-> [line(k - 1) EXCEPT !.fn = functions + 1]]
  BY DEF FunctionHead
<1> HIDE DEF line
<1>6. \A k \in 1..last : [line(k - 1) EXCEPT !.fn = functions + 1] \in Line
  BY <1>4 DEF Line
<1>7. FunctionHead(params) \in [1..last -> Line] /\ last \in Nat
  BY <1>1, <1>5, <1>6
<1> HIDE DEF last
<1> QED
  BY <1>7, SeqDef

LEMMA VisitFunctionDefinitionKeeps ==
  ASSUME SymbolsAssumption, IInv, NEW params \in ParamLists,
         VisitFunctionDefinition(params)
  PROVE  IInv'
<1>1. /\ TypeOK /\ RegistersTyped /\ ScopesTyped /\ TextTyped /\ StringsTyped
      /\ nodes \in Nat /\ functions \in Nat
  BY TypeParts DEF IInv, ScopesTyped
<1>2. params \in Seq(Symbols)
  BY SeqMonotonic DEF SymbolsAssumption, Locals
<1>3. SymbolsOf(params) \subseteq Symbols /\ ParamTable(params) \in SUBSET Symbols
  BY <1>2 DEF SymbolsOf, ParamTable
<1>4. TextTyped'
  <2>1. out' \in Seq(Line)
    BY <1>1, <1>2, FunctionHeadTyped, Emitted DEF VisitFunctionDefinition
  <2> QED
    BY <1>1, <2>1 DEF VisitFunctionDefinition, TextTyped
<1>5. ScopesTyped'
  <2>1. tables' \in Seq(SUBSET Symbols)
    BY <1>1, <1>3, AppendProperties DEF VisitFunctionDefinition, ScopesTyped
  <2> QED
    BY <1>1, <1>3, <2>1 DEF VisitFunctionDefinition, ScopesTyped
<1>6. StringsTyped' /\ RegistersTyped' /\ nodes' \in Nat
  BY <1>1 DEF VisitFunctionDefinition, StringsTyped, RegistersTyped, strings, frees
<1>7. /\ BodyItem \in StackItem /\ EndFunctionItem \in StackItem
      /\ \A it \in {BodyItem, EndFunctionItem} :
           Visits(it) = {} /\ Reads(it) = {} /\ Owns(it) = {}
  BY OtherItems
<1>8. todo' = <<BodyItem, EndFunctionItem>>
  BY DEF VisitFunctionDefinition
<1>9. /\ todo' \in Seq(StackItem)
      /\ \A i \in DOMAIN todo' :
           Visits(todo'[i]) = {} /\ Reads(todo'[i]) = {} /\ Owns(todo'[i]) = {}
  BY <1>7, <1>8
<1>10. Nodes'
  BY <1>9 DEF Nodes, NodesExist, VisitedOnce, NotVisitedAgain, OwnersNamed,
     OperandsVisited, Visits, Reads, Owns
<1> QED
  BY <1>4, <1>5, <1>6, <1>9, <1>10 DEF IInv, TypeOK, RegistersTyped, ScopesTyped,
     TextTyped, StringsTyped

LEMMA FunctionTailTyped ==
  ASSUME TypeOK
  PROVE  FunctionTail \in Seq(Line)
<1> DEFINE constants == IF const_strings_ # {}
                        THEN <<Plain("constants", NoReg, {StrReg(n) : n \in const_strings_})>>
                        ELSE <<>>
           declarations == IF StringDeclarationsDue
                           THEN <<Plain("declare_strings", NoReg, {})>> ELSE <<>>
<1>1. functions \in Nat /\ NoReg \in Register /\ {StrReg(n) : n \in const_strings_} \in SUBSET Register
  BY NamedRegisters DEF TypeOK
<1>2. {"end", "constants", "declare_strings"} \subseteq Operation
  BY DEF Operation
<1>3. /\ Plain("end", NoReg, {}) \in Line
      /\ Plain("constants", NoReg, {StrReg(n) : n \in const_strings_}) \in Line
      /\ Plain("declare_strings", NoReg, {}) \in Line
  BY <1>1, <1>2, PlainTyped
<1>4. constants \in Seq(Line) /\ declarations \in Seq(Line) /\ <<Plain("end", NoReg, {})>> \in Seq(Line)
  BY <1>3, EmptySeq
<1>5. FunctionTail = <<Plain("end", NoReg, {})>> \o constants \o declarations
  BY DEF FunctionTail
<1> HIDE DEF constants, declarations
<1> QED
  BY <1>4, <1>5, ConcatProperties

LEMMA EndFunctionKeeps ==
  ASSUME IInv, EndFunction
  PROVE  IInv'
<1>1. /\ TypeOK /\ ScopesTyped /\ TextTyped /\ StringsTyped /\ At("end_function")
  BY TypeParts DEF IInv, EndFunction
<1>2. todo # <<>> /\ Visits(Top) = {}
  BY <1>1, NoVisit
<1>3. out' \in Seq(Line)
  BY <1>1, FunctionTailTyped, Emitted DEF EndFunction
<1>4. string_functions_declared_' \in BOOLEAN
  BY <1>1 DEF EndFunction, StringsTyped
<1>5. ScopesTyped' /\ TextTyped' /\ StringsTyped'
  BY <1>1, <1>3, <1>4 DEF EndFunction, ScopesTyped, TextTyped, StringsTyped, program,
     scopes
<1> QED
  BY <1>2, <1>5, EntryDone DEF EndFunction

-----------------------------------------------------------------------------
LEMMA InitIInv ==
  ASSUME Init
  PROVE  IInv
<1>1. RegistersTyped
  BY FS_EmptySet DEF Init, RegistersTyped
<1>2. todo \in Seq(StackItem) /\ DOMAIN todo = {}
  BY EmptySeq DEF Init
<1>3. Nodes
  BY <1>2 DEF Nodes, NodesExist, VisitedOnce, NotVisitedAgain, OwnersNamed, OperandsVisited
<1>4. ScopesTyped /\ nodes \in Nat
  <2>1. {} \in SUBSET Symbols
    OBVIOUS
  <2>2. <<{}>> \in Seq(SUBSET Symbols)
    BY <2>1
  <2> QED
    BY <2>2 DEF Init, ScopesTyped
<1>5. TextTyped
  BY EmptySeq DEF Init, TextTyped
<1>6. StringsTyped
  BY DEF Init, StringsTyped
<1> QED
  BY <1>1, <1>2, <1>3, <1>4, <1>5, <1>6, TypeParts DEF IInv

LEMMA ExpressionStepKeeps ==
  ASSUME SymbolsAssumption, BoundsAssumption, IInv, ExpressionStep
  PROVE  IInv'
BY VisitVariableKeeps, VisitConstIntegerKeeps, VisitConstStringKeeps, VisitUnaryKeeps,
   UnaryResumedKeeps, VisitBinaryKeeps, BinaryResumedKeeps, VisitConditionKeeps,
   ConditionResumedKeeps, VisitAssignmentKeeps, AssignmentResumedKeeps,
   VisitFunctionCallKeeps, FunctionCallResumedKeeps DEF ExpressionStep

LEMMA InstructionStepKeeps ==
  ASSUME SymbolsAssumption, BoundsAssumption, IInv, InstructionStep
  PROVE  IInv'
BY VisitExpressionInstructionKeeps, VisitAssignmentInstructionKeeps,
   VisitCondInstructionKeeps, VisitWhileInstructionKeeps, VisitDoInstructionKeeps,
   VisitForInstructionKeeps, BranchResumedKeeps, JumpResumedKeeps,
   VisitReturnInstructionKeeps, ReturnResumedKeeps, VisitCompoundInstructionKeeps,
   StopKeeps, DeclarationKeeps, NextInstructionKeeps, EndCompoundKeeps
   DEF InstructionStep

LEMMA ExternalStepKeeps ==
  ASSUME SymbolsAssumption, IInv, ExternalStep
  PROVE  IInv'
BY DeclarationKeeps, VisitFunctionDefinitionKeeps, EndFunctionKeeps, StopKeeps
   DEF ExternalStep

LEMMA UnchangedKeeps ==
  ASSUME IInv, UNCHANGED vars
  PROVE  IInv'
<1>1. ScopesTyped /\ TextTyped /\ StringsTyped
  BY TypeParts DEF IInv
<1> QED
  BY <1>1, StackUnchanged DEF vars, ScopesTyped, TextTyped, StringsTyped

LEMMA NextIInv ==
  ASSUME SymbolsAssumption, BoundsAssumption, IInv, [Next]_vars
  PROVE  IInv'
<1>1. CASE ExpressionStep
  BY <1>1, ExpressionStepKeeps
<1>2. CASE InstructionStep
  BY <1>2, InstructionStepKeeps
<1>3. CASE ExternalStep
  BY <1>3, ExternalStepKeeps
<1>4. CASE UNCHANGED vars
  BY <1>4, UnchangedKeeps
<1> QED
  BY <1>1, <1>2, <1>3, <1>4 DEF Next, Stopped

(* The invariant, for all programs.                                          *)
LEMMA Invariance == Spec => []IInv
<1>1. Init => IInv
  BY InitIInv
<1>2. IInv /\ [Next]_vars => IInv'
  BY NextIInv, SymbolsAssumption, BoundsAssumption
<1> QED
  BY <1>1, <1>2, PTL DEF Spec

(* Whatever is compiled, the generator's state is well-formed: in particular  *)
(* only temporaries are ever slated to be freed, never a constant or a        *)
(* variable (strings_to_free_ of BinaryResumed, Return_Instruction).          *)
THEOREM TypeCorrect == Spec => []TypeOK
BY Invariance, PTL DEF IInv

(* No visit method reads the register of a node that has not been visited:    *)
(* register_reference_[...] never makes an empty entry.                      *)
THEOREM OperandsAlwaysVisited == Spec => []OperandsVisited
<1>1. IInv => OperandsVisited
  BY DEF IInv, Nodes
<1> QED
  BY <1>1, Invariance, PTL

-----------------------------------------------------------------------------
(* The string functions of the runtime are declared in the output when it    *)
(* uses them, and never twice.                                               *)
(*                                                                           *)
(* SInv relates the two flags of the generator to the lines written and to   *)
(* the call stack: the flag need_string_functions_ may be ahead of the       *)
(* declarations only while a function is open, and an open function always   *)
(* has its own end waiting at the bottom of the stack.                       *)

Declarations == {i \in Lines : out[i].op = "declare_strings"}

DeclaredOnce == \A i, j \in Declarations : i = j

FlagMeansDeclared == string_functions_declared_ <=> Declarations # {}

UseNeeds == \A i \in Lines : out[i].op \in StringOps => need_string_functions_

SlatedNeeds == strings_to_free_ # {} => need_string_functions_

NeedMeansDeclared ==
  todo = <<>> /\ need_string_functions_ => string_functions_declared_

EndsFunction == todo # <<>> => todo[Len(todo)].op = "end_function"

SInv == /\ DeclaredOnce /\ FlagMeansDeclared /\ UseNeeds /\ SlatedNeeds
        /\ NeedMeansDeclared /\ EndsFunction

-----------------------------------------------------------------------------
(* Lines that declare nothing, and use a string function only if need be.     *)
Harmless(lines) ==
  \A i \in DOMAIN lines : /\ lines[i].op # "declare_strings"
                          /\ lines[i].op \in StringOps => need_string_functions_'

LEMMA Appended ==
  ASSUME TypeOK, NEW T, NEW lines \in Seq(T), Emit(lines)
  PROVE  /\ Len(out) \in Nat /\ Len(lines) \in Nat /\ Len(out') = Len(out) + Len(lines)
         /\ \A i \in 1..Len(out) : out'[i] = out[i]
         /\ \A i \in Len(out) + 1..Len(out') :
              i - Len(out) \in DOMAIN lines /\ out'[i] = lines[i - Len(out)]
<1> DEFINE S == Line \union T
<1>1. out \in Seq(S) /\ lines \in Seq(S)
  BY SeqMonotonic DEF TypeOK
<1>2. out' = out \o lines
  BY DEF Emit
<1> HIDE DEF S
<1>3. /\ Len(out \o lines) = Len(out) + Len(lines)
      /\ \A i \in 1..Len(out) + Len(lines) : (out \o lines)[i] =
           IF i <= Len(out) THEN out[i] ELSE lines[i - Len(out)]
  BY <1>1, ConcatProperties, Zenon
<1>4. Len(out) \in Nat /\ Len(lines) \in Nat /\ DOMAIN lines = 1..Len(lines)
  BY <1>1, LenProperties
<1> QED
  BY <1>2, <1>3, <1>4

LEMMA HarmlessLines ==
  ASSUME TypeOK, SInv, NEW T, NEW lines \in Seq(T), Emit(lines), Harmless(lines),
         need_string_functions_ => need_string_functions_',
         UNCHANGED string_functions_declared_
  PROVE  DeclaredOnce' /\ FlagMeansDeclared' /\ UseNeeds'
<1>1. /\ Len(out) \in Nat /\ Len(lines) \in Nat /\ Len(out') = Len(out) + Len(lines)
      /\ \A i \in 1..Len(out) : out'[i] = out[i]
      /\ \A i \in Len(out) + 1..Len(out') :
           i - Len(out) \in DOMAIN lines /\ out'[i] = lines[i - Len(out)]
  BY Appended
<1>2. ASSUME NEW i \in 1..Len(out')
      PROVE  \/ i \in 1..Len(out) /\ out'[i] = out[i]
             \/ /\ i > Len(out) /\ out'[i].op # "declare_strings"
                /\ out'[i].op \in StringOps => need_string_functions_'
  <2>1. CASE i \in 1..Len(out)
    BY <1>1, <2>1
  <2>2. CASE i \in Len(out) + 1..Len(out')
    BY <1>1, <2>2 DEF Harmless
  <2> QED
    BY <1>1, <2>1, <2>2
<1>3. Declarations' = Declarations
  <2>1. \A i : i \in Declarations' <=> i \in Declarations
    BY <1>1, <1>2 DEF Declarations, Lines
  <2> QED
    BY <2>1
<1>4. DeclaredOnce' /\ FlagMeansDeclared'
  BY <1>3 DEF SInv, DeclaredOnce, FlagMeansDeclared
<1>5. UseNeeds'
  BY <1>1, <1>2 DEF SInv, UseNeeds, Lines
<1> QED
  BY <1>4, <1>5

(* The end of a function stays at the bottom of the stack.                   *)
LEMMA BottomStays ==
  ASSUME TypeOK, SInv, NEW S, NEW items \in Seq(S), Become(items), todo # <<>>,
         Top.op # "end_function"
  PROVE  todo' # <<>> /\ EndsFunction'
<1> DEFINE T == StackItem \union S
<1>1. todo \in Seq(T) /\ items \in Seq(T)
  BY SeqMonotonic DEF TypeOK
<1> HIDE DEF T
<1>2. Len(todo) \in Nat /\ Len(todo) > 0 /\ Len(items) \in Nat /\ Top = todo[1]
  BY <1>1, EmptySeq, LenProperties DEF Top
<1>3. Len(todo) > 1
  BY <1>2 DEF SInv, EndsFunction
<1>4. /\ todo' \in Seq(T) /\ Len(todo') = Len(items) + Len(todo) - 1
      /\ \A i \in Len(items) + 1..Len(items) + Len(todo) - 1 :
           todo'[i] = todo[i - Len(items) + 1]
  BY <1>1, FirstReplaced DEF Become
<1>5. todo'[Len(todo')] = todo[Len(todo)]
  BY <1>2, <1>3, <1>4
<1>6. todo' # <<>>
  BY <1>2, <1>3, <1>4
<1> QED
  BY <1>5, <1>6 DEF SInv, EndsFunction

(* A step of the visitor inside a function.                                  *)
LEMMA Inside ==
  ASSUME TypeOK, SInv, NEW op, At(op), op # "end_function",
         NEW S, NEW items \in Seq(S), Become(items),
         NEW T, NEW lines \in Seq(T), Emit(lines), Harmless(lines),
         need_string_functions_ => need_string_functions_',
         strings_to_free_' # {} => need_string_functions_',
         UNCHANGED string_functions_declared_
  PROVE  SInv'
<1>1. todo # <<>> /\ Top.op = op
  BY TopTyped
<1>2. todo' # <<>> /\ EndsFunction'
  BY <1>1, BottomStays
<1>3. NeedMeansDeclared' /\ SlatedNeeds'
  BY <1>2 DEF NeedMeansDeclared, SlatedNeeds
<1> QED
  BY <1>2, <1>3, HarmlessLines DEF SInv

(* ... that only makes calls.                                                *)
LEMMA OnlyCalls ==
  ASSUME TypeOK, SInv, NEW op, At(op), op # "end_function",
         NEW S, NEW items \in Seq(S), Become(items), UNCHANGED <<out, frees>>
  PROVE  SInv'
<1>1. todo # <<>> /\ Top.op = op
  BY TopTyped
<1>2. todo' # <<>> /\ EndsFunction'
  BY <1>1, BottomStays
<1>3. Declarations' = Declarations
  BY DEF Declarations, Lines
<1> QED
  BY <1>2, <1>3 DEF SInv, DeclaredOnce, FlagMeansDeclared, UseNeeds, SlatedNeeds,
     NeedMeansDeclared, Lines, frees

(* ... that only writes lines without string functions.                      *)
LEMMA OnlyWrites ==
  ASSUME TypeOK, SInv, NEW op, At(op), op # "end_function",
         NEW S, NEW items \in Seq(S), Become(items),
         NEW T, NEW lines \in Seq(T), Emit(lines),
         \A i \in DOMAIN lines : lines[i].op \notin StringOps \union {"declare_strings"},
         UNCHANGED frees
  PROVE  SInv'
<1>1. Harmless(lines)
  BY DEF Harmless
<1>2. /\ UNCHANGED <<strings_to_free_, need_string_functions_, string_functions_declared_>>
      /\ strings_to_free_' # {} => need_string_functions_'
  BY DEF frees, SInv, SlatedNeeds
<1> QED
  BY <1>1, <1>2, Inside

LEMMA LineOp ==
  /\ \A op, def, use : Plain(op, def, use).op = op
  /\ \A op, def, use, mem, to : IR(op, def, use, mem, to).op = op
  /\ \A l : Br(l).op = "br" /\ LabelAt(l).op = "label"
  /\ \A r, t, f : CondBr(r, t, f).op = "cbr"
  /\ \A s, r : LoadFrom(s, r).op = "load" /\ StoreTo(s, r).op = "store"
BY DEF Plain, IR, Br, LabelAt, CondBr, LoadFrom, StoreTo
-----------------------------------------------------------------------------
(* Calls only.                                                               *)

LEMMA ExpressionCalls ==
  ASSUME TypeOK, SInv,
         \/ VisitConstInteger \/ VisitUnary \/ VisitBinary
         \/ \E ordering \in BOOLEAN, lhs, rhs \in SourceTypes :
              VisitCondition(ordering, lhs, rhs)
         \/ \E s \in Symbols : VisitAssignment(s)
         \/ \E k \in 0..MaxArgs : \E types \in [1..k -> SourceTypes] :
              VisitFunctionCall(types)
  PROVE  SInv'
<1>1. CASE VisitConstInteger
  <2>1. <<>> \in Seq({}) /\ At("expr") /\ Become(<<>>) /\ UNCHANGED <<out, frees>>
    BY <1>1, EmptySeq DEF VisitConstInteger
  <2> QED
    BY <2>1, OnlyCalls
<1>2. CASE VisitUnary
  <2> DEFINE a == ExprItem(nodes, "int")
             b == UnaryRest(Top.node, nodes)
  <2>1. At("expr") /\ Become(<<a, b>>) /\ UNCHANGED <<out, frees>>
    BY <1>2 DEF VisitUnary
  <2> HIDE DEF a, b
  <2>2. <<a, b>> \in Seq({a, b})
    OBVIOUS
  <2> QED
    BY <2>1, <2>2, OnlyCalls
<1>3. CASE VisitBinary
  <2> DEFINE a == ExprItem(nodes, Top.type)
             b == ExprItem(nodes + 1, Top.type)
             c == BinaryRest(Top.node, Top.type, nodes, nodes + 1)
  <2>1. At("expr") /\ Become(<<a, b, c>>) /\ UNCHANGED <<out, frees>>
    BY <1>3 DEF VisitBinary
  <2> HIDE DEF a, b, c
  <2>2. <<a, b, c>> \in Seq({a, b, c})
    OBVIOUS
  <2> QED
    BY <2>1, <2>2, OnlyCalls
<1>4. ASSUME NEW ordering \in BOOLEAN, NEW lhs \in SourceTypes, NEW rhs \in SourceTypes,
             VisitCondition(ordering, lhs, rhs)
      PROVE  SInv'
  <2> DEFINE a == ExprItem(nodes, lhs)
             b == ExprItem(nodes + 1, rhs)
             c == ConditionRest(Top.node, lhs, ordering, nodes, nodes + 1)
  <2>1. At("cond") /\ Become(<<a, b, c>>) /\ UNCHANGED <<out, frees>>
    BY <1>4 DEF VisitCondition
  <2> HIDE DEF a, b, c
  <2>2. <<a, b, c>> \in Seq({a, b, c})
    OBVIOUS
  <2> QED
    BY <2>1, <2>2, OnlyCalls
<1>5. ASSUME NEW s \in Symbols, VisitAssignment(s)
      PROVE  SInv'
  <2> DEFINE a == ExprItem(nodes, TypeOf[s])
             b == AssignRest(s, nodes)
  <2>1. At("assign") /\ Become(<<a, b>>) /\ UNCHANGED <<out, frees>>
    BY <1>5 DEF VisitAssignment
  <2> HIDE DEF a, b
  <2>2. <<a, b>> \in Seq({a, b})
    OBVIOUS
  <2> QED
    BY <2>1, <2>2, OnlyCalls
<1>6. ASSUME NEW k \in 0..MaxArgs, NEW types \in [1..k -> SourceTypes],
             VisitFunctionCall(types)
      PROVE  SInv'
  <2> DEFINE args == [i \in DOMAIN types |-> ExprItem(nodes + i - 1, types[i])]
             rest == CallRest(Top.node, Top.type, [i \in DOMAIN types |-> nodes + i - 1])
             S == {args[i] : i \in 1..k} \union {rest}
  <2>1. At("expr") /\ Become(args \o <<rest>>) /\ UNCHANGED <<out, frees>>
    BY <1>6 DEF VisitFunctionCall
  <2>2. args \in Seq(S)
    <3>1. DOMAIN types = 1..k /\ k \in Nat
      BY <1>6
    <3>2. args = [i \in 1..k |-> args[i]] /\ \A i \in 1..k : args[i] \in S
      BY <3>1
    <3> HIDE DEF args, S
    <3>3. args \in [1..k -> S]
      BY <3>2
    <3> QED
      BY <3>1, <3>3, SeqDef
  <2>3. rest \in S
    OBVIOUS
  <2> HIDE DEF args, rest, S
  <2>4. <<rest>> \in Seq(S)
    BY <2>3
  <2>5. args \o <<rest>> \in Seq(S)
    BY <2>2, <2>4, ConcatProperties
  <2> QED
    BY <2>1, <2>5, OnlyCalls
<1> QED
  BY <1>1, <1>2, <1>3, <1>4, <1>5, <1>6

LEMMA InstructionCalls ==
  ASSUME TypeOK, SInv,
         \/ \E t \in SourceTypes : VisitExpressionInstruction(t)
         \/ VisitAssignmentInstruction
         \/ \E hasElse \in BOOLEAN : VisitCondInstruction(hasElse)
         \/ VisitForInstruction
         \/ \E t \in SourceTypes : VisitReturnInstruction(t)
         \/ VisitCompoundInstruction \/ NextInstruction \/ EndCompound
  PROVE  SInv'
<1>1. ASSUME NEW t \in SourceTypes, VisitExpressionInstruction(t)
      PROVE  SInv'
  <2> DEFINE a == ExprItem(nodes, t)
  <2>1. At("instr") /\ Become(<<a>>) /\ UNCHANGED <<out, frees>>
    BY <1>1 DEF VisitExpressionInstruction
  <2> HIDE DEF a
  <2>2. <<a>> \in Seq({a})
    OBVIOUS
  <2> QED
    BY <2>1, <2>2, OnlyCalls
<1>2. CASE VisitAssignmentInstruction
  <2> DEFINE a == AssignItem(nodes)
  <2>1. At("instr") /\ Become(<<a>>) /\ UNCHANGED <<out, frees>>
    BY <1>2 DEF VisitAssignmentInstruction
  <2> HIDE DEF a
  <2>2. <<a>> \in Seq({a})
    OBVIOUS
  <2> QED
    BY <2>1, <2>2, OnlyCalls
<1>3. ASSUME NEW hasElse \in BOOLEAN, VisitCondInstruction(hasElse)
      PROVE  SInv'
  <2> DEFINE a == CondItem(nodes)
             b == BranchRest(nodes, Lab(0), Lab(1), Lab(0))
             c == JumpRest(Lab(2), Lab(1))
             d == JumpRest(Lab(2), Lab(2))
             S == {a, b, InstrItem, c, ElseItem, d}
             middle == IF hasElse THEN <<ElseItem>> ELSE <<>>
  <2>1. At("instr") /\ Become(<<a, b, InstrItem, c>> \o middle \o <<d>>)
        /\ UNCHANGED <<out, frees>>
    BY <1>3 DEF VisitCondInstruction
  <2> HIDE DEF a, b, c, d
  <2>2. <<a, b, InstrItem, c>> \in Seq(S) /\ <<d>> \in Seq(S)
    OBVIOUS
  <2>3. <<ElseItem>> \in Seq(S) /\ <<>> \in Seq(S)
    BY EmptySeq
  <2>4. middle \in Seq(S)
    BY <2>3
  <2> HIDE DEF S, middle
  <2>5. <<a, b, InstrItem, c>> \o middle \o <<d>> \in Seq(S)
    BY <2>2, <2>4, ConcatProperties
  <2> QED
    BY <2>1, <2>5, OnlyCalls
<1>4. CASE VisitForInstruction
  <2> DEFINE a == AssignItem(nodes)
             b == JumpRest(Lab(0), Lab(0))
             c == CondItem(nodes + 1)
             d == BranchRest(nodes + 1, Lab(1), Lab(3), Lab(1))
             e == JumpRest(Lab(2), Lab(2))
             f == AssignItem(nodes + 2)
             h == JumpRest(Lab(0), Lab(3))
             S == {a, b, c, d, InstrItem, e, f, h}
  <2>1. At("instr") /\ Become(<<a, b, c, d, InstrItem, e, f, h>>) /\ UNCHANGED <<out, frees>>
    BY <1>4 DEF VisitForInstruction
  <2> HIDE DEF a, b, c, d, e, f, h
  <2>2. <<a, b, c, d, InstrItem, e, f, h>> \in Seq(S)
    OBVIOUS
  <2> QED
    BY <2>1, <2>2, OnlyCalls
<1>5. ASSUME NEW t \in SourceTypes, VisitReturnInstruction(t)
      PROVE  SInv'
  <2> DEFINE a == ExprItem(nodes, t)
             b == ReturnRest(t, nodes)
  <2>1. At("instr") /\ Become(<<a, b>>) /\ UNCHANGED <<out, frees>>
    BY <1>5 DEF VisitReturnInstruction
  <2> HIDE DEF a, b
  <2>2. <<a, b>> \in Seq({a, b})
    OBVIOUS
  <2> QED
    BY <2>1, <2>2, OnlyCalls
<1>6. CASE VisitCompoundInstruction
  <2> DEFINE a == BlockItem(TRUE)
  <2>1. (At("body") \/ At("instr")) /\ Become(<<a>>) /\ UNCHANGED <<out, frees>>
    BY <1>6 DEF VisitCompoundInstruction
  <2> HIDE DEF a
  <2>2. <<a>> \in Seq({a})
    OBVIOUS
  <2> QED
    BY <2>1, <2>2, OnlyCalls
<1>7. CASE NextInstruction
  <2> DEFINE b == BlockItem(FALSE)
  <2>1. At("block") /\ Become(<<InstrItem, b>>) /\ UNCHANGED <<out, frees>>
    BY <1>7 DEF NextInstruction
  <2> HIDE DEF b
  <2>2. <<InstrItem, b>> \in Seq({InstrItem, b})
    OBVIOUS
  <2> QED
    BY <2>1, <2>2, OnlyCalls
<1>8. CASE EndCompound
  <2>1. <<>> \in Seq({}) /\ At("block") /\ Become(<<>>) /\ UNCHANGED <<out, frees>>
    BY <1>8, EmptySeq DEF EndCompound
  <2> QED
    BY <2>1, OnlyCalls
<1> QED
  BY <1>1, <1>2, <1>3, <1>4, <1>5, <1>6, <1>7, <1>8
-----------------------------------------------------------------------------
(* Lines without string functions.                                           *)

LEMMA PlainOp ==
  \A op \in {"gep", "sub", "call i32", "call i8*", "alloca", "global"} : \A def, use :
    Plain(op, def, use).op \notin StringOps \union {"declare_strings"}
BY DEF Plain, IR, StringOps

LEMMA CallOpTyped == \A t : CallOp(t) \in {"call i32", "call i8*"}
BY DEF CallOp

LEMMA OtherOps ==
  /\ \A l : /\ Br(l).op \notin StringOps \union {"declare_strings"}
            /\ LabelAt(l).op \notin StringOps \union {"declare_strings"}
  /\ \A r, t, f : CondBr(r, t, f).op \notin StringOps \union {"declare_strings"}
  /\ \A s, r : /\ LoadFrom(s, r).op \notin StringOps \union {"declare_strings"}
               /\ StoreTo(s, r).op \notin StringOps \union {"declare_strings"}
BY DEF Br, LabelAt, CondBr, LoadFrom, StoreTo, IR, StringOps

(* One line, and no call.                                                    *)
LEMMA WritesOne ==
  ASSUME TypeOK, SInv, NEW op, At(op), op # "end_function", Become(<<>>),
         NEW l, Emit(<<l>>), l.op \notin StringOps \union {"declare_strings"},
         UNCHANGED frees
  PROVE  SInv'
<1>1. <<>> \in Seq({}) /\ <<l>> \in Seq({l})
  BY EmptySeq
<1>2. \A i \in DOMAIN <<l>> : <<l>>[i].op \notin StringOps \union {"declare_strings"}
  OBVIOUS
<1> QED
  BY <1>1, <1>2, OnlyWrites

(* Two lines.                                                                *)
LEMMA WritesTwo ==
  ASSUME TypeOK, SInv, NEW op, At(op), op # "end_function",
         NEW S, NEW items \in Seq(S), Become(items),
         NEW l, NEW m, Emit(<<l, m>>),
         l.op \notin StringOps \union {"declare_strings"},
         m.op \notin StringOps \union {"declare_strings"},
         UNCHANGED frees
  PROVE  SInv'
<1>1. <<l, m>> \in Seq({l, m})
  OBVIOUS
<1>2. \A i \in DOMAIN <<l, m>> : <<l, m>>[i].op \notin StringOps \union {"declare_strings"}
  OBVIOUS
<1> QED
  BY <1>1, <1>2, OnlyWrites

LEMMA Writes ==
  ASSUME TypeOK, SInv,
         \/ \E s \in Symbols : VisitVariable(s)
         \/ VisitConstString \/ UnaryResumed \/ AssignmentResumed \/ FunctionCallResumed
         \/ VisitWhileInstruction \/ VisitDoInstruction \/ BranchResumed \/ JumpResumed
  PROVE  SInv'
<1>1. ASSUME NEW s \in Symbols, VisitVariable(s)
      PROVE  SInv'
  BY <1>1, OtherOps, WritesOne DEF VisitVariable
<1>2. CASE VisitConstString
  BY <1>2, PlainOp, WritesOne DEF VisitConstString
<1>3. CASE UnaryResumed
  BY <1>3, PlainOp, WritesOne DEF UnaryResumed
<1>4. CASE AssignmentResumed
  BY <1>4, OtherOps, WritesOne DEF AssignmentResumed
<1>5. CASE FunctionCallResumed
  BY <1>5, PlainOp, CallOpTyped, WritesOne DEF FunctionCallResumed
<1>6. CASE VisitWhileInstruction
  <2> DEFINE a == CondItem(nodes)
             b == BranchRest(nodes, Lab(1), Lab(2), Lab(1))
             c == JumpRest(Lab(0), Lab(2))
  <2>1. /\ At("instr") /\ Become(<<a, b, InstrItem, c>>)
        /\ Emit(<<Br(Lab(0)), LabelAt(Lab(0))>>) /\ UNCHANGED frees
    BY <1>6 DEF VisitWhileInstruction
  <2> HIDE DEF a, b, c
  <2>2. <<a, b, InstrItem, c>> \in Seq({a, b, InstrItem, c})
    OBVIOUS
  <2> QED
    BY <2>1, <2>2, OtherOps, WritesTwo
<1>7. CASE VisitDoInstruction
  <2> DEFINE a == JumpRest(Lab(1), Lab(1))
             b == CondItem(nodes)
             c == BranchRest(nodes, Lab(0), Lab(2), Lab(2))
  <2>1. /\ At("instr") /\ Become(<<InstrItem, a, b, c>>)
        /\ Emit(<<Br(Lab(0)), LabelAt(Lab(0))>>) /\ UNCHANGED frees
    BY <1>7 DEF VisitDoInstruction
  <2> HIDE DEF a, b, c
  <2>2. <<InstrItem, a, b, c>> \in Seq({InstrItem, a, b, c})
    OBVIOUS
  <2> QED
    BY <2>1, <2>2, OtherOps, WritesTwo
<1>8. CASE BranchResumed
  <2>1. <<>> \in Seq({})
    BY EmptySeq
  <2> QED
    BY <1>8, <2>1, OtherOps, WritesTwo DEF BranchResumed
<1>9. CASE JumpResumed
  <2>1. <<>> \in Seq({})
    BY EmptySeq
  <2> QED
    BY <1>9, <2>1, OtherOps, WritesTwo DEF JumpResumed
<1> QED
  BY <1>1, <1>2, <1>3, <1>4, <1>5, <1>6, <1>7, <1>8, <1>9

(* Declarations leave the stack alone.                                       *)
LEMMA Declares ==
  ASSUME TypeOK, SInv, NEW s \in Symbols, DeclareLocal(s) \/ DeclareGlobal(s)
  PROVE  SInv'
<1>1. PICK op \in {"alloca", "global"} : Emit(<<Plain(op, Pointer(s), {})>>)
  BY DEF DeclareLocal, DeclareGlobal
<1> DEFINE l == Plain(op, Pointer(s), {})
<1>2. l.op \notin StringOps \union {"declare_strings"}
  BY PlainOp
<1>3. Emit(<<l>>)
  BY <1>1
<1> HIDE DEF l
<1>4. <<l>> \in Seq({l}) /\ Harmless(<<l>>)
  BY <1>2 DEF Harmless
<1>5. UNCHANGED <<todo, strings_to_free_, need_string_functions_, string_functions_declared_>>
  BY DEF DeclareLocal, DeclareGlobal, frees
<1>6. DeclaredOnce' /\ FlagMeansDeclared' /\ UseNeeds'
  BY <1>3, <1>4, <1>5, HarmlessLines
<1> QED
  BY <1>5, <1>6 DEF SInv, SlatedNeeds, NeedMeansDeclared, EndsFunction
-----------------------------------------------------------------------------
(* Lines that use the string functions.                                      *)

LEMMA StringOperators ==
  ASSUME TypeOK, SInv, BinaryResumed \/ ConditionResumed
  PROVE  SInv'
<1> DEFINE ref == register_reference_[Top.node]
           operands == {register_reference_[Top.lhs], register_reference_[Top.rhs]}
<1>1. CASE /\ status' = "terminated"
           /\ UNCHANGED <<todo, out, need_string_functions_, strings_to_free_,
                          string_functions_declared_>>
  BY <1>1 DEF SInv, DeclaredOnce, FlagMeansDeclared, UseNeeds, SlatedNeeds,
     NeedMeansDeclared, EndsFunction, Declarations, Lines
<1>2. ASSUME NEW op, op \in {"binary", "condition"}, At(op), Become(<<>>),
             NEW name \in {"arith", "icmp", "concat", "equal"},
             Emit(<<Plain(name, ref, operands)>>),
             name \in {"arith", "icmp"} =>
               UNCHANGED <<need_string_functions_, strings_to_free_>>,
             name \in {"concat", "equal"} => need_string_functions_',
             UNCHANGED string_functions_declared_
      PROVE  SInv'
  <2> DEFINE l == Plain(name, ref, operands)
  <2>1. l.op = name
    BY LineOp
  <2>2. Emit(<<l>>)
    BY <1>2
  <2> HIDE DEF l
  <2>3. <<>> \in Seq({}) /\ <<l>> \in Seq({l})
    BY EmptySeq
  <2>4. l.op # "declare_strings" /\ (l.op \in StringOps => need_string_functions_')
    BY <1>2, <2>1 DEF StringOps
  <2>5. Harmless(<<l>>)
    BY <2>4 DEF Harmless
  <2>6. /\ need_string_functions_ => need_string_functions_'
        /\ strings_to_free_' # {} => need_string_functions_'
    BY <1>2 DEF SInv, SlatedNeeds
  <2>7. op # "end_function"
    BY <1>2
  <2> QED
    BY <1>2, <2>2, <2>3, <2>5, <2>6, <2>7, Inside
<1>3. CASE BinaryResumed
  BY <1>2, <1>3 DEF BinaryResumed
<1>4. CASE ConditionResumed
  BY <1>1, <1>2, <1>4 DEF ConditionResumed
<1> QED
  BY <1>3, <1>4

LEMMA HarmlessConcat ==
  ASSUME NEW T, NEW s \in Seq(T), NEW t \in Seq(T), Harmless(s), Harmless(t)
  PROVE  s \o t \in Seq(T) /\ Harmless(s \o t)
<1>1. /\ s \o t \in Seq(T) /\ Len(s \o t) = Len(s) + Len(t)
      /\ \A i \in 1..Len(s) + Len(t) : (s \o t)[i] =
           IF i <= Len(s) THEN s[i] ELSE t[i - Len(s)]
  BY ConcatProperties, Zenon
<1>2. Len(s) \in Nat /\ Len(t) \in Nat /\ DOMAIN s = 1..Len(s) /\ DOMAIN t = 1..Len(t)
  BY LenProperties
<1>3. DOMAIN (s \o t) = 1..Len(s) + Len(t)
  BY <1>1
<1>4. ASSUME NEW i \in 1..Len(s) + Len(t)
      PROVE  \/ i \in DOMAIN s /\ (s \o t)[i] = s[i]
             \/ i - Len(s) \in DOMAIN t /\ (s \o t)[i] = t[i - Len(s)]
  BY <1>1, <1>2
<1> QED
  BY <1>1, <1>3, <1>4 DEF Harmless

LEMMA HarmlessOne ==
  ASSUME NEW l, l.op # "declare_strings", l.op \in StringOps => need_string_functions_'
  PROVE  Harmless(<<l>>)
BY DEF Harmless

(* A return copies or frees only what is slated: then the functions are needed.*)
LEMMA ReturnWrites ==
  ASSUME TypeOK, SInv, ReturnResumed, NEW reg \in Register, NEW t \in Type
  PROVE  ReturnLines(t, reg) \in Seq(Line) /\ Harmless(ReturnLines(t, reg))
<1> DEFINE c == Plain("copy", ReturnCopy, {reg})
           f == Plain("free", NoReg, Freed(t, reg))
           r == Ret(t, IF NeedsCopy(t, reg) THEN ReturnCopy ELSE reg)
           copy == IF NeedsCopy(t, reg) THEN <<c>> ELSE <<>>
           free == IF Freed(t, reg) # {} THEN <<f>> ELSE <<>>
           T == {c, f, r}
<1>1. need_string_functions_' = need_string_functions_
  BY DEF ReturnResumed
<1>2. c.op = "copy" /\ f.op = "free" /\ r.op \in {"ret i32", "ret i8*"}
  BY DEF Ret, Plain, IR
<1>3. (NeedsCopy(t, reg) \/ Freed(t, reg) # {}) => need_string_functions_
  BY DEF SInv, SlatedNeeds, NeedsCopy, Freed
<1>4. ReturnLines(t, reg) = copy \o free \o <<r>>
  BY DEF ReturnLines
<1>5. ReturnLines(t, reg) \in Seq(Line)
  BY ReturnLinesTyped
<1> HIDE DEF c, f, r
<1>6. Harmless(<<>>) /\ <<>> \in Seq(T)
  BY EmptySeq DEF Harmless
<1>7. copy \in Seq(T) /\ Harmless(copy)
  <2>1. CASE NeedsCopy(t, reg)
    <3>1. copy = <<c>> /\ <<c>> \in Seq(T)
      BY <2>1
    <3> QED
      BY <1>1, <1>2, <1>3, <2>1, <3>1, HarmlessOne
  <2>2. CASE ~NeedsCopy(t, reg)
    BY <1>6, <2>2
  <2> QED
    BY <2>1, <2>2
<1>8. free \in Seq(T) /\ Harmless(free)
  <2>1. CASE Freed(t, reg) # {}
    <3>1. free = <<f>> /\ <<f>> \in Seq(T)
      BY <2>1
    <3> QED
      BY <1>1, <1>2, <1>3, <2>1, <3>1, HarmlessOne
  <2>2. CASE Freed(t, reg) = {}
    BY <1>6, <2>2
  <2> QED
    BY <2>1, <2>2
<1>9. <<r>> \in Seq(T) /\ Harmless(<<r>>)
  <2>1. r.op # "declare_strings" /\ r.op \notin StringOps
    BY <1>2 DEF StringOps
  <2>2. Harmless(<<r>>)
    BY <2>1, HarmlessOne
  <2>3. <<r>> \in Seq(T)
    OBVIOUS
  <2> QED
    BY <2>2, <2>3
<1> HIDE DEF copy, free, T
<1>10. copy \o free \in Seq(T) /\ Harmless(copy \o free)
  BY <1>7, <1>8, HarmlessConcat
<1>11. Harmless(copy \o free \o <<r>>)
  BY <1>9, <1>10, HarmlessConcat
<1> QED
  BY <1>4, <1>5, <1>11

LEMMA Returns ==
  ASSUME IInv, SInv, ReturnResumed
  PROVE  SInv'
<1>1. TypeOK /\ At("return")
  BY DEF IInv, ReturnResumed
<1>2. Top.arg \in Reads(Top) /\ Top.type \in Type
  BY <1>1, TopTyped, ItemFields DEF Reads
<1>3. register_reference_[Top.arg] \in Register
  BY <1>1, <1>2, OperandRead
<1> DEFINE lines == ReturnLines(Top.type, register_reference_[Top.arg])
<1>4. lines \in Seq(Line) /\ Harmless(lines)
  BY <1>1, <1>2, <1>3, ReturnWrites
<1>5. Become(<<>>) /\ <<>> \in Seq({}) /\ Emit(lines)
  BY EmptySeq DEF ReturnResumed
<1>6. /\ UNCHANGED <<need_string_functions_, string_functions_declared_>>
      /\ strings_to_free_' = {}
  BY DEF ReturnResumed
<1> HIDE DEF lines
<1> QED
  BY <1>1, <1>4, <1>5, <1>6, Inside

-----------------------------------------------------------------------------
(* The beginning and the end of a function.                                  *)

LEMMA HeadHarmless ==
  ASSUME NEW params \in Seq(Symbols)
  PROVE  Harmless(FunctionHead(params))
<1> DEFINE quiet(l) == l.op \in {"define", "alloca", "store"}
           incoming == {Incoming(s) : s \in SymbolsOf(params)}
           line(k) == IF k = 0
                      THEN Plain("define", NoReg, incoming)
                      ELSE ParamLines(params[(k + 1) \div 2])[2 - (k % 2)]
           last == 1 + 2 * Len(params)
<1>1. FunctionHead(params) = [k \in 1..last |-> [line(k - 1) EXCEPT !.fn = functions + 1]]
  BY DEF FunctionHead
<1>2. \A s : \A n \in {1, 2} : \A fn :
        [ParamLines(s)[n] EXCEPT !.fn = fn].op \in {"define", "alloca", "store"}
  BY DEF ParamLines, Plain, IR
<1>3. \A fn : [Plain("define", NoReg, incoming) EXCEPT !.fn = fn].op = "define"
  BY DEF Plain, IR
<1>4. ASSUME NEW k \in 1..last
      PROVE  [line(k - 1) EXCEPT !.fn = functions + 1].op \in {"define", "alloca", "store"}
  <2>1. CASE k = 1
    BY <1>3, <2>1
  <2>2. CASE k # 1
    <3>1. k - 1 # 0 /\ 2 - ((k - 1) % 2) \in {1, 2}
      BY <2>2, LenProperties
    <3> QED
      BY <1>2, <3>1
  <2> QED
    BY <2>1, <2>2
<1> HIDE DEF line, last
<1> QED
  BY <1>1, <1>4 DEF Harmless, StringOps

LEMMA FunctionBegins ==
  ASSUME SymbolsAssumption, TypeOK, SInv, NEW params \in ParamLists,
         VisitFunctionDefinition(params)
  PROVE  SInv'
<1>1. params \in Seq(Symbols)
  BY SeqMonotonic DEF SymbolsAssumption, Locals
<1>2. FunctionHead(params) \in Seq(Line) /\ Harmless(FunctionHead(params))
  BY <1>1, FunctionHeadTyped, HeadHarmless DEF TypeOK
<1>3. /\ Emit(FunctionHead(params)) /\ todo' = <<BodyItem, EndFunctionItem>>
      /\ UNCHANGED <<strings_to_free_, need_string_functions_, string_functions_declared_>>
  BY DEF VisitFunctionDefinition, frees
<1>4. DeclaredOnce' /\ FlagMeansDeclared' /\ UseNeeds'
  BY <1>2, <1>3, HarmlessLines
<1>5. EndsFunction' /\ todo' # <<>>
  BY <1>3 DEF EndsFunction, EndFunctionItem
<1> QED
  BY <1>3, <1>4, <1>5 DEF SInv, SlatedNeeds, NeedMeansDeclared
(* The declarations are written when they are due.                           *)
LEMMA DeclarationsWritten ==
  ASSUME TypeOK, SInv, EndFunction, StringDeclarationsDue
  PROVE  DeclaredOnce' /\ FlagMeansDeclared' /\ UseNeeds'
<1> DEFINE e == Plain("end", NoReg, {})
           c == Plain("constants", NoReg, {StrReg(n) : n \in const_strings_})
           d == Plain("declare_strings", NoReg, {})
           constants == IF const_strings_ # {} THEN <<c>> ELSE <<>>
           front == <<e>> \o constants
           lines == front \o <<d>>
           T == {e, c, d}
<1>1. e.op = "end" /\ c.op = "constants" /\ d.op = "declare_strings"
  BY LineOp
<1>2. Emit(lines)
  BY DEF EndFunction, FunctionTail
<1> HIDE DEF e, c, d
<1>3. constants \in Seq(T) /\ Harmless(constants)
  <2>1. Harmless(<<>>) /\ <<>> \in Seq(T)
    BY EmptySeq DEF Harmless
  <2>2. <<c>> \in Seq(T)
    OBVIOUS
  <2>3. c.op # "declare_strings" /\ c.op \notin StringOps
    BY <1>1 DEF StringOps
  <2>4. Harmless(<<c>>)
    BY <2>3, HarmlessOne
  <2> QED
    BY <2>1, <2>2, <2>4
<1>4. <<e>> \in Seq(T) /\ Harmless(<<e>>)
  <2>1. e.op # "declare_strings" /\ e.op \notin StringOps
    BY <1>1 DEF StringOps
  <2>2. Harmless(<<e>>)
    BY <2>1, HarmlessOne
  <2>3. <<e>> \in Seq(T)
    OBVIOUS
  <2> QED
    BY <2>2, <2>3
<1>5. <<d>> \in Seq(T)
  OBVIOUS
<1> HIDE DEF constants, T
<1>6. front \in Seq(T) /\ Harmless(front)
  BY <1>3, <1>4, HarmlessConcat
<1> HIDE DEF front
<1>7. /\ lines \in Seq(T) /\ Len(lines) = Len(front) + 1 /\ Len(front) \in Nat
      /\ \A i \in 1..Len(front) : i \in DOMAIN front /\ lines[i] = front[i]
      /\ lines[Len(front) + 1] = d
  BY <1>5, <1>6, ConcatProperties, LenProperties
<1> HIDE DEF lines
<1>8. /\ Len(out) \in Nat /\ Len(out') = Len(out) + Len(lines)
      /\ \A i \in 1..Len(out) : out'[i] = out[i]
      /\ \A i \in Len(out) + 1..Len(out') :
           i - Len(out) \in DOMAIN lines /\ out'[i] = lines[i - Len(out)]
  BY <1>2, <1>7, Appended
<1>9. Declarations = {} /\ string_functions_declared_' = TRUE /\ need_string_functions_'
  BY DEF EndFunction, StringDeclarationsDue, SInv, FlagMeansDeclared
<1>10. ASSUME NEW i \in 1..Len(out')
       PROVE  \/ i \in 1..Len(out) /\ out'[i] = out[i]
              \/ i # Len(out') /\ out'[i].op # "declare_strings"
              \/ i = Len(out') /\ out'[i] = d
  <2>1. CASE i \in 1..Len(out)
    BY <1>8, <2>1
  <2>2. CASE i \in Len(out) + 1..Len(out) + Len(front)
    <3>1. i - Len(out) \in 1..Len(front) /\ out'[i] = lines[i - Len(out)] /\ i # Len(out')
      BY <1>7, <1>8, <2>2
    <3> QED
      BY <1>6, <1>7, <3>1 DEF Harmless
  <2>3. CASE i = Len(out) + Len(front) + 1
    BY <1>7, <1>8, <2>3
  <2>4. \/ i \in 1..Len(out)
        \/ i \in Len(out) + 1..Len(out) + Len(front)
        \/ i = Len(out) + Len(front) + 1
    BY <1>7, <1>8
  <2> QED
    BY <2>1, <2>2, <2>3, <2>4, Zenon
<1>11. Declarations' = {Len(out')}
  <2>1. ASSUME NEW i \in Declarations'
        PROVE  i = Len(out')
    <3>1. i \in 1..Len(out') /\ out'[i].op = "declare_strings"
      BY DEF Declarations, Lines
    <3>2. ~(i \in 1..Len(out) /\ out'[i] = out[i])
      BY <1>9, <3>1 DEF Declarations, Lines
    <3> QED
      BY <1>10, <3>1, <3>2
  <2>2. Len(out') \in Declarations'
    <3>1. Len(out') \in 1..Len(out') /\ Len(out') \notin 1..Len(out)
      BY <1>7, <1>8
    <3>2. out'[Len(out')] = d
      BY <1>10, <3>1
    <3> QED
      BY <1>1, <3>1, <3>2 DEF Declarations, Lines
  <2> QED
    BY <2>1, <2>2
<1>12. DeclaredOnce' /\ FlagMeansDeclared'
  BY <1>9, <1>11 DEF DeclaredOnce, FlagMeansDeclared
<1> QED
  BY <1>9, <1>12 DEF UseNeeds

LEMMA TailHarmless ==
  ASSUME TypeOK, ~StringDeclarationsDue
  PROVE  FunctionTail \in Seq(Line) /\ Harmless(FunctionTail)
<1> DEFINE e == Plain("end", NoReg, {})
           c == Plain("constants", NoReg, {StrReg(n) : n \in const_strings_})
           constants == IF const_strings_ # {} THEN <<c>> ELSE <<>>
           T == {e, c}
<1>1. e.op = "end" /\ c.op = "constants"
  BY LineOp
<1>2. FunctionTail = <<e>> \o constants \o <<>>
  BY DEF FunctionTail
<1> HIDE DEF e, c
<1>3. Harmless(<<>>) /\ <<>> \in Seq(T)
  BY EmptySeq DEF Harmless
<1>4. <<e>> \in Seq(T) /\ <<c>> \in Seq(T)
  OBVIOUS
<1>5. Harmless(<<e>>) /\ Harmless(<<c>>)
  <2>1. /\ e.op # "declare_strings" /\ e.op \notin StringOps
        /\ c.op # "declare_strings" /\ c.op \notin StringOps
    BY <1>1 DEF StringOps
  <2> QED
    BY <2>1, HarmlessOne
<1>6. constants \in Seq(T) /\ Harmless(constants)
  BY <1>3, <1>4, <1>5
<1> HIDE DEF constants, T
<1>7. <<e>> \o constants \in Seq(T) /\ Harmless(<<e>> \o constants)
  BY <1>4, <1>5, <1>6, HarmlessConcat
<1>8. Harmless(<<e>> \o constants \o <<>>)
  BY <1>3, <1>7, HarmlessConcat
<1> QED
  BY <1>2, <1>8, FunctionTailTyped

LEMMA FunctionEnds ==
  ASSUME TypeOK, SInv, EndFunction
  PROVE  SInv'
<1>1. /\ Emit(FunctionTail) /\ Become(<<>>) /\ At("end_function")
      /\ UNCHANGED <<strings_to_free_, need_string_functions_>>
      /\ string_functions_declared_' = (string_functions_declared_ \/ need_string_functions_)
  BY DEF EndFunction
<1>2. DeclaredOnce' /\ FlagMeansDeclared' /\ UseNeeds'
  <2>1. CASE StringDeclarationsDue
    BY <2>1, DeclarationsWritten
  <2>2. CASE ~StringDeclarationsDue
    <3>1. FunctionTail \in Seq(Line) /\ Harmless(FunctionTail)
      BY <2>2, TailHarmless
    <3>2. UNCHANGED string_functions_declared_
      BY <1>1, <2>2, Zenon DEF StringDeclarationsDue, TypeOK
    <3> QED
      BY <1>1, <3>1, <3>2, HarmlessLines
  <2> QED
    BY <2>1, <2>2
<1>3. SlatedNeeds' /\ NeedMeansDeclared'
  BY <1>1 DEF SInv, SlatedNeeds, NeedMeansDeclared
<1>4. EndsFunction'
  <2>1. todo # <<>> /\ todo \in Seq(StackItem)
    BY <1>1, TopTyped
  <2>2. Len(todo) \in Nat /\ Len(todo) > 0 /\ <<>> \in Seq(StackItem) /\ Len(<<>>) = 0
    BY <2>1, EmptySeq, LenProperties
  <2>3. /\ todo' \in Seq(StackItem) /\ Len(todo') = Len(todo) - 1
        /\ \A i \in 1..Len(todo) - 1 : todo'[i] = todo[i + 1]
    BY <1>1, <2>1, <2>2, FirstReplaced DEF Become
  <2>4. CASE Len(todo) = 1
    <3>1. todo' = <<>>
      BY <2>3, <2>4, EmptySeq
    <3> QED
      BY <3>1 DEF EndsFunction
  <2>5. CASE Len(todo) # 1
    <3>1. todo'[Len(todo')] = todo[Len(todo)]
      BY <2>2, <2>3, <2>5
    <3> QED
      BY <2>1, <3>1 DEF SInv, EndsFunction
  <2> QED
    BY <2>4, <2>5, Zenon
<1> QED
  BY <1>2, <1>3, <1>4 DEF SInv

-----------------------------------------------------------------------------
LEMMA InitSInv ==
  ASSUME Init
  PROVE  SInv
<1>1. Lines = {} /\ Declarations = {}
  BY DEF Init, Lines, Declarations
<1> QED
  BY <1>1 DEF Init, SInv, DeclaredOnce, FlagMeansDeclared, UseNeeds, SlatedNeeds,
     NeedMeansDeclared, EndsFunction

LEMMA NothingWritten ==
  ASSUME SInv, UNCHANGED <<todo, out, frees>>
  PROVE  SInv'
BY DEF SInv, DeclaredOnce, FlagMeansDeclared, UseNeeds, SlatedNeeds, NeedMeansDeclared,
   EndsFunction, Declarations, Lines, frees

LEMMA NextSInv ==
  ASSUME SymbolsAssumption, IInv, SInv, [Next]_vars
  PROVE  SInv'
<1>1. TypeOK
  BY DEF IInv
<1>2. CASE ExpressionStep
  BY <1>1, <1>2, ExpressionCalls, Writes, StringOperators DEF ExpressionStep
<1>3. CASE VisitNull \/ Finish \/ UNCHANGED vars
  BY <1>3, NothingWritten DEF VisitNull, Finish, vars, frees
<1>4. CASE InstructionStep
  BY <1>1, <1>3, <1>4, InstructionCalls, Writes, Returns, Declares DEF InstructionStep
<1>5. CASE ExternalStep
  BY <1>1, <1>3, <1>5, Declares, FunctionBegins, FunctionEnds DEF ExternalStep
<1> QED
  BY <1>2, <1>3, <1>4, <1>5 DEF Next, Stopped

LEMMA SInvImplies ==
  ASSUME SInv
  PROVE  StringFunctionsDeclared
<1>1. Declarations = {} \/ \E i : Declarations = {i}
  BY DEF SInv, DeclaredOnce
<1>2. Cardinality(Declarations) \in {0, 1}
  BY <1>1, FS_EmptySet, FS_Singleton
<1>3. Idle /\ (\E i \in Lines : out[i].op \in StringOps) => Declarations # {}
  BY DEF SInv, UseNeeds, NeedMeansDeclared, FlagMeansDeclared, Idle
<1> QED
  BY <1>2, <1>3 DEF StringFunctionsDeclared, Declarations

LEMMA StringFunctions == Spec => []SInv
<1>1. Init => SInv
  BY InitSInv
<1>2. IInv /\ SInv /\ [Next]_vars => SInv'
  BY NextSInv, SymbolsAssumption
<1> QED
  BY <1>1, <1>2, Invariance, PTL DEF Spec

(* Whatever is compiled, when a function has been closed the output declares  *)
(* the string functions it calls, and it never declares them twice            *)
(* (need_string_functions_ and string_functions_declared_ in the visit method *)
(* of Function_Definition).                                                  *)
THEOREM StringFunctionsAlwaysDeclared == Spec => []StringFunctionsDeclared
<1>1. SInv => StringFunctionsDeclared
  BY SInvImplies
<1> QED
  BY <1>1, StringFunctions, PTL

-----------------------------------------------------------------------------
(***************************************************************************)
(* The order in which the code generator writes its lines.                   *)
(*                                                                          *)
(* First the steps of the visitor are put in a common form: a step takes     *)
(* the first entry off the call stack, puts others in its place and appends  *)
(* lines to the output.  Then the labels: those that a function branches to  *)
(* are those it places, and control falls into none.                         *)
(***************************************************************************)

(* The visitor's call stack and the output after such a step.                *)
LEMMA Stacked ==
  ASSUME TypeOK, todo # <<>>, NEW items, IsTuple(items), Become(items)
  PROVE  IsReplaced(todo, items, todo') /\ Top = todo[1]
<1>1. IsTuple(todo)
  BY Tuples DEF TypeOK
<1>2. IsReplaced(todo, items, todo')
  BY <1>1, Replaced, Zenon DEF Become
<1>3. Head(todo) = todo[1]
  BY <1>2 DEF IsReplaced
<1> QED
  BY <1>2, <1>3 DEF Top

LEMMA Written ==
  ASSUME TypeOK, NEW lines, IsTuple(lines), Emit(lines)
  PROVE  IsJoined(out, lines, out')
<1>1. IsTuple(out)
  BY Tuples DEF TypeOK
<1> QED
  BY <1>1, Joined, Zenon DEF Emit

LEMMA WrittenTyped ==
  ASSUME TypeOK
  PROVE  Lines = DOMAIN out /\ \A i \in Lines : out[i] \in Line /\ out[i].fn \in Nat
<1>1. Lines = DOMAIN out /\ \A i \in Lines : out[i] \in Line
  BY LenProperties, ElementOfSeq DEF TypeOK, Lines
<1> QED
  BY <1>1 DEF Line

LEMMA NoLines ==
  ASSUME TypeOK, UNCHANGED out
  PROVE  Emit(<<>>) /\ IsTuple(<<>>)
<1>1. out \o <<>> = out
  BY ConcatEmptySeq DEF TypeOK
<1>2. IsTuple(<<>>)
  BY ShortTuples
<1> QED
  BY <1>1, <1>2 DEF Emit

LEMMA StackKept ==
  ASSUME TypeOK, todo # <<>>, UNCHANGED todo
  PROVE  Become(<<Top>>) /\ IsTuple(<<Top>>)
<1>1. todo = <<Head(todo)>> \o Tail(todo)
  BY HeadTailProperties DEF TypeOK
<1> QED
  BY <1>1, ShortTuples DEF Become, Top

-----------------------------------------------------------------------------
(* The steps of expressions: what they put on the stack, and what lines they  *)
(* write.                                                                    *)

ExpressionOps ==
  {"expr", "cond", "assign", "unary", "binary", "condition", "store", "call"}

(* An entry an expression puts on the stack; a line that computes a value or  *)
(* stores one.                                                               *)
IsPart(it) ==
  /\ it.op \in {"expr", "unary", "binary", "condition", "store", "call"}
  /\ it.op = "store" => Visible(it.sym)

Computes(line) ==
  /\ line.op \in {"load", "gep", "sub", "arith", "concat", "icmp", "equal", "call i32", "call i8*", "store"}
  /\ line.fn = functions
  /\ line.op \notin {"load", "store"} => line.mem = NoReg

(* The variable a line reads is visible, that it writes was when the          *)
(* assignment was visited.                                                   *)
Addresses(line) ==
  /\ line.op = "load" => \E s \in Symbols : Visible(s) /\ line.mem = Pointer(s)
  /\ line.op = "store" => Top.op = "store" /\ line.mem = Pointer(Top.sym)

Evaluates(items, lines) ==
  /\ todo # <<>> /\ Top.op \in ExpressionOps
  /\ IsTuple(items) /\ Become(items) /\ \A i \in DOMAIN items : IsPart(items[i])
  /\ IsTuple(lines) /\ Emit(lines)
  /\ \A i \in DOMAIN lines : Computes(lines[i]) /\ Addresses(lines[i])
  /\ UNCHANGED <<program, next_label>>
  /\ VisitConstString \/ (UNCHANGED strings /\ \A i \in DOMAIN lines : lines[i].op # "gep")

LEMMA PartsEvaluate ==
  ASSUME TypeOK, NEW op \in {"expr", "cond", "assign"}, At(op),
         NEW items, IsTuple(items), Become(items), \A i \in DOMAIN items : IsPart(items[i]),
         UNCHANGED <<out, program, next_label, strings>>
  PROVE  \E its, lines : Evaluates(its, lines)
<1>1. Emit(<<>>) /\ IsTuple(<<>>) /\ DOMAIN <<>> = {}
  BY NoLines
<1>2. todo # <<>> /\ Top.op \in ExpressionOps
  BY TopTyped DEF ExpressionOps
<1>3. Evaluates(items, <<>>)
  BY <1>1, <1>2, Zenon DEF Evaluates
<1> QED
  BY <1>3

LEMMA LineEvaluates ==
  ASSUME TypeOK, NEW op \in ExpressionOps, At(op), Become(<<>>),
         NEW l, Emit(<<l>>), Computes(l), Addresses(l),
         VisitConstString \/ (UNCHANGED strings /\ l.op # "gep"),
         UNCHANGED <<program, next_label>>
  PROVE  \E items, lines : Evaluates(items, lines)
<1>1. IsTuple(<<>>) /\ IsTuple(<<l>>) /\ DOMAIN <<>> = {}
  BY ShortTuples
<1>2. todo # <<>> /\ Top.op \in ExpressionOps
  BY TopTyped
<1>3. \A i \in DOMAIN <<l>> : <<l>>[i] = l
  OBVIOUS
<1>4. Evaluates(<<>>, <<l>>)
  BY <1>1, <1>2, <1>3 DEF Evaluates
<1> QED
  BY <1>4

LEMMA PartItems ==
  /\ \A n, t : IsPart(ExprItem(n, t))
  /\ \A n, a : IsPart(UnaryRest(n, a))
  /\ \A n, t, a, c : IsPart(BinaryRest(n, t, a, c))
  /\ \A n, t, o, a, c : IsPart(ConditionRest(n, t, o, a, c))
  /\ \A n, t, as : IsPart(CallRest(n, t, as))
  /\ \A s, a : Visible(s) => IsPart(AssignRest(s, a))
BY DEF IsPart, ExprItem, UnaryRest, BinaryRest, ConditionRest, CallRest, AssignRest

LEMMA ComputingLines ==
  /\ \A op, def, use : op # "gep" => Plain(op, def, use).op # "gep"
  /\ \A s, r : LoadFrom(s, r).op # "gep" /\ StoreTo(s, r).op # "gep"
  /\ \A op \in {"gep", "sub", "arith", "concat", "icmp", "equal", "call i32", "call i8*"} :
       \A def, use :
         Computes(Plain(op, def, use)) /\ Addresses(Plain(op, def, use))
  /\ \A s, r : Computes(LoadFrom(s, r)) /\ Computes(StoreTo(s, r))
BY DEF Computes, Addresses, Plain, LoadFrom, StoreTo, IR

LEMMA ExpressionVisits ==
  ASSUME TypeOK,
         \/ VisitConstInteger \/ VisitUnary \/ VisitBinary
         \/ \E ordering \in BOOLEAN, lhs, rhs \in SourceTypes :
              VisitCondition(ordering, lhs, rhs)
         \/ \E s \in Symbols : VisitAssignment(s)
         \/ \E k \in 0..MaxArgs : \E types \in [1..k -> SourceTypes] :
              VisitFunctionCall(types)
  PROVE  \E items, lines : Evaluates(items, lines)
<1>1. CASE VisitConstInteger
  <2>1. IsTuple(<<>>) /\ DOMAIN <<>> = {}
    BY ShortTuples
  <2> QED
    BY <1>1, <2>1, PartsEvaluate DEF VisitConstInteger
<1>2. CASE VisitUnary
  <2> DEFINE a == ExprItem(nodes, "int")
             c == UnaryRest(Top.node, nodes)
  <2>1. IsPart(a) /\ IsPart(c)
    BY PartItems
  <2>2. At("expr") /\ Become(<<a, c>>) /\ UNCHANGED <<out, program, next_label, strings>>
    BY <1>2 DEF VisitUnary
  <2> HIDE DEF a, c
  <2>3. IsTuple(<<a, c>>) /\ \A i \in DOMAIN <<a, c>> : IsPart(<<a, c>>[i])
    BY <2>1, ShortTuples
  <2> QED
    BY <2>2, <2>3, PartsEvaluate
<1>3. CASE VisitBinary
  <2> DEFINE a == ExprItem(nodes, Top.type)
             c == ExprItem(nodes + 1, Top.type)
             d == BinaryRest(Top.node, Top.type, nodes, nodes + 1)
  <2>1. IsPart(a) /\ IsPart(c) /\ IsPart(d)
    BY PartItems
  <2>2. At("expr") /\ Become(<<a, c, d>>) /\ UNCHANGED <<out, program, next_label, strings>>
    BY <1>3 DEF VisitBinary
  <2> HIDE DEF a, c, d
  <2>3. IsTuple(<<a, c, d>>) /\ \A i \in DOMAIN <<a, c, d>> : IsPart(<<a, c, d>>[i])
    BY <2>1, ShortTuples
  <2> QED
    BY <2>2, <2>3, PartsEvaluate
<1>4. ASSUME NEW ordering \in BOOLEAN, NEW lhs \in SourceTypes, NEW rhs \in SourceTypes,
             VisitCondition(ordering, lhs, rhs)
      PROVE  \E items, lines : Evaluates(items, lines)
  <2> DEFINE a == ExprItem(nodes, lhs)
             c == ExprItem(nodes + 1, rhs)
             d == ConditionRest(Top.node, lhs, ordering, nodes, nodes + 1)
  <2>1. IsPart(a) /\ IsPart(c) /\ IsPart(d)
    BY PartItems
  <2>2. At("cond") /\ Become(<<a, c, d>>) /\ UNCHANGED <<out, program, next_label, strings>>
    BY <1>4 DEF VisitCondition
  <2> HIDE DEF a, c, d
  <2>3. IsTuple(<<a, c, d>>) /\ \A i \in DOMAIN <<a, c, d>> : IsPart(<<a, c, d>>[i])
    BY <2>1, ShortTuples
  <2> QED
    BY <2>2, <2>3, PartsEvaluate
<1>5. ASSUME NEW s \in Symbols, VisitAssignment(s)
      PROVE  \E items, lines : Evaluates(items, lines)
  <2> DEFINE a == ExprItem(nodes, TypeOf[s])
             c == AssignRest(s, nodes)
  <2>1. IsPart(a) /\ IsPart(c)
    BY <1>5, PartItems DEF VisitAssignment
  <2>2. At("assign") /\ Become(<<a, c>>) /\ UNCHANGED <<out, program, next_label, strings>>
    BY <1>5 DEF VisitAssignment
  <2> HIDE DEF a, c
  <2>3. IsTuple(<<a, c>>) /\ \A i \in DOMAIN <<a, c>> : IsPart(<<a, c>>[i])
    BY <2>1, ShortTuples
  <2> QED
    BY <2>2, <2>3, PartsEvaluate
<1>6. ASSUME NEW k \in 0..MaxArgs, NEW types \in [1..k -> SourceTypes],
             VisitFunctionCall(types)
      PROVE  \E items, lines : Evaluates(items, lines)
  <2> DEFINE args == [i \in DOMAIN types |-> ExprItem(nodes + i - 1, types[i])]
             rest == CallRest(Top.node, Top.type, [i \in DOMAIN types |-> nodes + i - 1])
             S == {args[i] : i \in 1..k}
  <2>1. At("expr") /\ Become(args \o <<rest>>) /\ UNCHANGED <<out, program, next_label, strings>>
    BY <1>6 DEF VisitFunctionCall
  <2>2. DOMAIN types = 1..k /\ k \in Nat
    BY <1>6
  <2>3. IsPart(rest) /\ \A i \in DOMAIN args : IsPart(args[i])
    BY PartItems
  <2>4. DOMAIN args = 1..k /\ args = [i \in 1..k |-> args[i]]
    BY <2>2
  <2> HIDE DEF args, rest
  <2>5. args \in [1..k -> S]
    BY <2>4
  <2> HIDE DEF S
  <2>6. args \in Seq(S)
    BY <2>2, <2>5, SeqDef
  <2>7. IsTuple(args) /\ IsTuple(<<rest>>)
    BY <2>6, Tuples, ShortTuples
  <2>8. IsJoined(args, <<rest>>, args \o <<rest>>)
    BY <2>7, Joined
  <2>9. \A i \in DOMAIN (args \o <<rest>>) : IsPart((args \o <<rest>>)[i])
    BY <2>3, <2>8 DEF IsJoined
  <2>10. IsTuple(args \o <<rest>>)
    BY <2>8 DEF IsJoined
  <2> QED
    BY <2>1, <2>9, <2>10, PartsEvaluate
<1> QED
  BY <1>1, <1>2, <1>3, <1>4, <1>5, <1>6

LEMMA ExpressionResumes ==
  ASSUME TypeOK,
         \/ \E s \in Symbols : VisitVariable(s)
         \/ VisitConstString \/ UnaryResumed \/ BinaryResumed \/ AssignmentResumed
         \/ FunctionCallResumed
  PROVE  \E items, lines : Evaluates(items, lines)
<1>1. ASSUME NEW s \in Symbols, VisitVariable(s)
      PROVE  \E items, lines : Evaluates(items, lines)
  <2> DEFINE l == LoadFrom(s, Load(s, VarCount(s)))
  <2>1. Computes(l) /\ l.op # "gep"
    BY ComputingLines
  <2>2. Addresses(l)
    BY <1>1 DEF VisitVariable, Addresses, LoadFrom, IR
  <2>3. At("expr") /\ Become(<<>>) /\ Emit(<<l>>) /\ UNCHANGED <<program, next_label, strings>>
    BY <1>1 DEF VisitVariable
  <2> HIDE DEF l
  <2> QED
    BY <2>1, <2>2, <2>3, LineEvaluates DEF ExpressionOps
<1>2. CASE VisitConstString
  BY <1>2, ComputingLines, LineEvaluates DEF VisitConstString, ExpressionOps
<1>3. CASE UnaryResumed
  BY <1>3, ComputingLines, LineEvaluates DEF UnaryResumed, ExpressionOps
<1>4. CASE BinaryResumed
  <2> DEFINE ref == register_reference_[Top.node]
             operands == {register_reference_[Top.lhs], register_reference_[Top.rhs]}
  <2>1. At("binary") /\ Become(<<>>) /\ UNCHANGED <<program, next_label, strings>>
    BY <1>4 DEF BinaryResumed
  <2>2. Emit(<<Plain("arith", ref, operands)>>) \/ Emit(<<Plain("concat", ref, operands)>>)
    BY <1>4 DEF BinaryResumed
  <2> HIDE DEF ref, operands
  <2> QED
    BY <2>1, <2>2, ComputingLines, LineEvaluates DEF ExpressionOps
<1>5. CASE AssignmentResumed
  <2> DEFINE l == StoreTo(Top.sym, register_reference_[Top.arg])
  <2>1. At("store") /\ Become(<<>>) /\ Emit(<<l>>) /\ UNCHANGED <<program, next_label, strings>>
    BY <1>5 DEF AssignmentResumed
  <2>2. Computes(l) /\ l.op # "gep"
    BY ComputingLines
  <2>3. Addresses(l)
    BY <2>1, TopTyped DEF Addresses, StoreTo, IR
  <2> HIDE DEF l
  <2> QED
    BY <2>1, <2>2, <2>3, LineEvaluates DEF ExpressionOps
<1>6. CASE FunctionCallResumed
  <2> DEFINE operands == {register_reference_[Top.args[i]] : i \in DOMAIN Top.args}
  <2>1. /\ At("call") /\ Become(<<>>) /\ UNCHANGED <<program, next_label, strings>>
        /\ Emit(<<Plain(CallOp(Top.type), register_reference_[Top.node], operands)>>)
    BY <1>6 DEF FunctionCallResumed
  <2> HIDE DEF operands
  <2>2. CallOp(Top.type) \in {"call i32", "call i8*"}
    BY CallOpTyped
  <2> QED
    BY <2>1, <2>2, ComputingLines, LineEvaluates DEF ExpressionOps
<1> QED
  BY <1>1, <1>2, <1>3, <1>4, <1>5, <1>6

(* Every step of an expression is of this form, unless the process ends.      *)
LEMMA ExpressionEvaluates ==
  ASSUME TypeOK, ExpressionStep
  PROVE  \/ \E items, lines : Evaluates(items, lines)
         \/ UNCHANGED <<todo, out, program, next_label, strings>>
<1>1. CASE ConditionResumed
  <2> DEFINE ref == register_reference_[Top.node]
             operands == {register_reference_[Top.lhs], register_reference_[Top.rhs]}
  <2>1. At("condition") /\ UNCHANGED <<program, next_label, strings>>
    BY <1>1 DEF ConditionResumed
  <2>2. \/ Become(<<>>) /\ Emit(<<Plain("icmp", ref, operands)>>)
        \/ Become(<<>>) /\ Emit(<<Plain("equal", ref, operands)>>)
        \/ UNCHANGED <<todo, out>>
    BY <1>1 DEF ConditionResumed
  <2> HIDE DEF ref, operands
  <2> QED
    BY <2>1, <2>2, ComputingLines, LineEvaluates DEF ExpressionOps
<1> QED
  BY <1>1, ExpressionVisits, ExpressionResumes, Zenon DEF ExpressionStep
-----------------------------------------------------------------------------
(* Labels.  A pending branch or jump goes to labels and places one; the       *)
(* numbers it uses were taken when its instruction was visited.              *)

Goes(it) == IF it.op = "branch" THEN {it.yes, it.no}
            ELSE IF it.op = "jump" THEN {it.target} ELSE {}
Places(it) == IF it.op \in {"branch", "jump"} THEN {it.at} ELSE {}

BranchOps == {"br", "cbr"}

(* The labels in the lines of function f whose operation is in ops.          *)
LabelsOf(f, ops) ==
  UNION {out[i].to : i \in {k \in Lines : out[k].fn = f /\ out[k].op \in ops}}

LabelTaken ==
  /\ \A i \in Lines : out[i].op = "label" =>
       \E l \in 0..next_label - 1 : out[i].to = {l}
  /\ \A i \in DOMAIN todo : Places(todo[i]) \subseteq 0..next_label - 1

(* No label is placed twice, not even by what is still on the stack.         *)
PlacedApart ==
  /\ \A i, j \in Lines : (i # j /\ out[i].op = "label" /\ out[j].op = "label") =>
       out[i].to \intersect out[j].to = {}
  /\ \A i, j \in DOMAIN todo : i # j => Places(todo[i]) \intersect Places(todo[j]) = {}
  /\ \A i \in DOMAIN todo, j \in Lines :
       out[j].op = "label" => Places(todo[i]) \intersect out[j].to = {}

(* The current function branches, or will branch, to the labels it places, or *)
(* will place.                                                               *)
Balanced ==
  LabelsOf(functions, BranchOps) \union UNION {Goes(todo[i]) : i \in DOMAIN todo}
    = LabelsOf(functions, {"label"}) \union UNION {Places(todo[i]) : i \in DOMAIN todo}

(* A function that is closed is finished with, and its labels are resolved.   *)
Closed ==
  /\ \A i \in Lines : out[i].fn <= functions
  /\ \A f \in 0..functions : (\E i \in Lines : out[i].fn = f /\ out[i].op = "end") =>
       /\ LabelsOf(f, BranchOps) = LabelsOf(f, {"label"})
       /\ f = functions => todo = <<>>
  /\ \A i \in DOMAIN todo : todo[i].op = "end_function" => i = Len(todo)

CInv == LabelTaken /\ PlacedApart /\ Balanced /\ Closed /\ NoFallThrough
(* The labels in the lines appended, and on the stack.                       *)
LineLabels(lines, f, ops) ==
  UNION {lines[i].to : i \in {k \in DOMAIN lines : lines[k].fn = f /\ lines[k].op \in ops}}

AllGoes(items) == UNION {Goes(items[i]) : i \in DOMAIN items}
AllPlaces(items) == UNION {Places(items[i]) : i \in DOMAIN items}

LEMMA LabelsAdded ==
  ASSUME TypeOK, NEW lines, IsTuple(lines), Emit(lines), NEW f, NEW ops
  PROVE  LabelsOf(f, ops)' = LabelsOf(f, ops) \union LineLabels(lines, f, ops)
<1>1. IsJoined(out, lines, out')
  BY Written
<1>2. Lines' = DOMAIN out' /\ Lines = DOMAIN out
  BY <1>1 DEF Lines, IsJoined
<1>3. \A l : l \in LabelsOf(f, ops)' <=>
              \E i \in DOMAIN out' : out'[i].fn = f /\ out'[i].op \in ops /\ l \in out'[i].to
  BY <1>2 DEF LabelsOf
<1>4. \A l : l \in LabelsOf(f, ops) <=>
              \E i \in DOMAIN out : out[i].fn = f /\ out[i].op \in ops /\ l \in out[i].to
  BY <1>2 DEF LabelsOf
<1>5. \A l : l \in LineLabels(lines, f, ops) <=>
              \E i \in DOMAIN lines : lines[i].fn = f /\ lines[i].op \in ops /\ l \in lines[i].to
  BY DEF LineLabels
<1>6. ASSUME NEW l, l \in LabelsOf(f, ops)'
      PROVE  l \in LabelsOf(f, ops) \union LineLabels(lines, f, ops)
  BY <1>1, <1>3, <1>4, <1>5, <1>6 DEF IsJoined
<1>7. ASSUME NEW l, l \in LabelsOf(f, ops)
      PROVE  l \in LabelsOf(f, ops)'
  <2>1. PICK i \in DOMAIN out : out[i].fn = f /\ out[i].op \in ops /\ l \in out[i].to
    BY <1>4, <1>7
  <2>2. i \in DOMAIN out' /\ out'[i] = out[i]
    BY <1>1 DEF IsJoined
  <2> QED
    BY <1>3, <2>1, <2>2
<1>8. ASSUME NEW l, l \in LineLabels(lines, f, ops)
      PROVE  l \in LabelsOf(f, ops)'
  <2>1. PICK i \in DOMAIN lines : lines[i].fn = f /\ lines[i].op \in ops /\ l \in lines[i].to
    BY <1>5, <1>8
  <2>2. Len(out) + i \in DOMAIN out' /\ out'[Len(out) + i] = lines[i]
    BY <1>1 DEF IsJoined
  <2> QED
    BY <1>3, <2>1, <2>2
<1> QED
  BY <1>6, <1>7, <1>8

LEMMA LabelsPending ==
  ASSUME TypeOK, todo # <<>>, NEW items, IsTuple(items), Become(items)
  PROVE  LET rest == 2..Len(todo)
         IN  /\ AllGoes(todo') = AllGoes(items) \union UNION {Goes(todo[i]) : i \in rest}
             /\ AllGoes(todo) = Goes(Top) \union UNION {Goes(todo[i]) : i \in rest}
             /\ AllPlaces(todo') = AllPlaces(items) \union UNION {Places(todo[i]) : i \in rest}
             /\ AllPlaces(todo) = Places(Top) \union UNION {Places(todo[i]) : i \in rest}
<1>1. IsReplaced(todo, items, todo') /\ Top = todo[1]
  BY Stacked
<1>2. DOMAIN todo = {1} \union 2..Len(todo)
  BY <1>1 DEF IsReplaced
<1>3. AllGoes(todo) = Goes(Top) \union UNION {Goes(todo[i]) : i \in 2..Len(todo)}
  BY <1>1, <1>2 DEF AllGoes
<1>4. AllPlaces(todo) = Places(Top) \union UNION {Places(todo[i]) : i \in 2..Len(todo)}
  BY <1>1, <1>2 DEF AllPlaces
<1>5. \A i \in DOMAIN todo' : \/ \E k \in DOMAIN items : todo'[i] = items[k]
                             \/ \E k \in 2..Len(todo) : todo'[i] = todo[k]
  BY <1>1 DEF IsReplaced
<1>6. /\ \A k \in DOMAIN items : \E i \in DOMAIN todo' : todo'[i] = items[k]
      /\ \A k \in 2..Len(todo) : \E i \in DOMAIN todo' : todo'[i] = todo[k]
  BY <1>1 DEF IsReplaced
<1>7. AllGoes(todo') = AllGoes(items) \union UNION {Goes(todo[i]) : i \in 2..Len(todo)}
  <2>1. \A l : l \in AllGoes(todo') <=> \E i \in DOMAIN todo' : l \in Goes(todo'[i])
    BY DEF AllGoes
  <2>2. \A l : l \in AllGoes(items) <=> \E i \in DOMAIN items : l \in Goes(items[i])
    BY DEF AllGoes
  <2>3. \A l : l \in AllGoes(todo') <=>
                \/ l \in AllGoes(items)
                \/ \E i \in 2..Len(todo) : l \in Goes(todo[i])
    BY <1>5, <1>6, <2>1, <2>2
  <2> QED
    BY <2>3
<1>8. AllPlaces(todo') = AllPlaces(items) \union UNION {Places(todo[i]) : i \in 2..Len(todo)}
  <2>1. \A l : l \in AllPlaces(todo') <=> \E i \in DOMAIN todo' : l \in Places(todo'[i])
    BY DEF AllPlaces
  <2>2. \A l : l \in AllPlaces(items) <=> \E i \in DOMAIN items : l \in Places(items[i])
    BY DEF AllPlaces
  <2>3. \A l : l \in AllPlaces(todo') <=>
                \/ l \in AllPlaces(items)
                \/ \E i \in 2..Len(todo) : l \in Places(todo[i])
    BY <1>5, <1>6, <2>1, <2>2
  <2> QED
    BY <2>3
<1> QED
  BY <1>3, <1>4, <1>7, <1>8

(* What a step of the visitor inside a function does with labels: it takes   *)
(* new numbers, of which every one is branched to and placed, by a line       *)
(* written now or by an entry put on the stack; and it writes, or keeps, the  *)
(* branches and the label of the entry it takes off.                         *)
KeepsLabels(items, lines) ==
  LET new == next_label..next_label' - 1
  IN  /\ next_label' \in Nat /\ next_label' >= next_label
      /\ LineLabels(lines, functions, BranchOps) \union AllGoes(items) = Goes(Top) \union new
      /\ LineLabels(lines, functions, {"label"}) \union AllPlaces(items)
           = Places(Top) \union new
      /\ \A i, j \in DOMAIN items :
           i # j => Places(items[i]) \intersect Places(items[j]) = {}
      /\ \A i \in DOMAIN lines : lines[i].op = "label" =>
           /\ i > 1 /\ lines[i - 1].op \in BranchOps
           /\ \E l : lines[i].to = {l}
           /\ \A j \in DOMAIN items : Places(items[j]) \intersect lines[i].to = {}
           /\ \A j \in DOMAIN lines : lines[j].op = "label" => j = i

(* It does not end the function.                                             *)
StaysInside(items, lines) ==
  /\ todo # <<>> /\ Top.op # "end_function"
  /\ IsTuple(items) /\ Become(items) /\ \A i \in DOMAIN items : items[i].op # "end_function"
  /\ IsTuple(lines) /\ Emit(lines)
  /\ \A i \in DOMAIN lines : lines[i].fn = functions /\ lines[i].op # "end"
  /\ UNCHANGED functions

LEMMA Narrower ==
  ASSUME NEW m \in Int, NEW n \in Int, m <= n
  PROVE  \A l \in 0..m - 1 : l \in 0..n - 1
OBVIOUS

LEMMA LabelsKept ==
  ASSUME TypeOK, CInv, NEW items, NEW lines, StaysInside(items, lines), KeepsLabels(items, lines)
  PROVE  CInv'
<1> DEFINE new == next_label..next_label' - 1
           rest == 2..Len(todo)
<1>1. /\ IsReplaced(todo, items, todo') /\ Top = todo[1]
      /\ IsJoined(out, lines, out')
  BY Stacked, Written DEF StaysInside
<1>2. Lines' = DOMAIN out' /\ Lines = DOMAIN out
  BY <1>1 DEF Lines, IsJoined
<1>3. /\ next_label \in Nat /\ next_label' \in Nat /\ next_label' >= next_label
      /\ DOMAIN todo = 1..Len(todo) /\ Len(todo) \in Nat /\ Len(todo) > 0
  BY <1>1 DEF KeepsLabels, TypeOK, IsReplaced
<1>0. \A l \in 0..next_label - 1 : l \in 0..next_label' - 1
  <2>1. next_label \in Int /\ next_label' \in Int /\ next_label <= next_label'
    BY <1>3
  <2> QED
    BY <2>1, Narrower
<1>4. \A i \in DOMAIN out' :
        \/ i \in DOMAIN out /\ out'[i] = out[i]
        \/ i > Len(out) /\ i - Len(out) \in DOMAIN lines /\ out'[i] = lines[i - Len(out)]
  BY <1>1 DEF IsJoined
<1>5. \A i \in DOMAIN todo' :
        \/ i \in DOMAIN items /\ todo'[i] = items[i]
        \/ /\ i > Len(items) /\ i - Len(items) + 1 \in rest
           /\ todo'[i] = todo[i - Len(items) + 1]
  BY <1>1 DEF IsReplaced
<1>6. /\ DOMAIN lines = 1..Len(lines) /\ Len(lines) \in Nat
      /\ DOMAIN out = 1..Len(out) /\ Len(out) \in Nat
      /\ Len(out') = Len(out) + Len(lines)
  BY <1>1 DEF IsJoined
(* The labels a new line or a new entry places are fresh, or the one that was *)
(* pending.                                                                  *)
<1>7. /\ \A i \in DOMAIN lines : lines[i].op = "label" =>
           lines[i].to \subseteq Places(Top) \union new
      /\ \A i \in DOMAIN items : Places(items[i]) \subseteq Places(Top) \union new
  <2>1. \A i \in DOMAIN lines : lines[i].op = "label" =>
           lines[i].to \subseteq LineLabels(lines, functions, {"label"})
    BY DEF LineLabels, StaysInside
  <2>2. \A i \in DOMAIN items : Places(items[i]) \subseteq AllPlaces(items)
    BY DEF AllPlaces
  <2> QED
    BY <2>1, <2>2 DEF KeepsLabels
<1>8. /\ Places(Top) \subseteq 0..next_label - 1
      /\ \A i \in rest : /\ Places(todo[i]) \subseteq 0..next_label - 1
                         /\ Places(todo[i]) \intersect Places(Top) = {}
      /\ \A j \in DOMAIN out : out[j].op = "label" =>
           /\ out[j].to \subseteq 0..next_label - 1
           /\ Places(Top) \intersect out[j].to = {}
           /\ \A i \in rest : Places(todo[i]) \intersect out[j].to = {}
  <2>1. 1 \in DOMAIN todo /\ \A i \in rest : i \in DOMAIN todo /\ i # 1
    BY <1>3
  <2>2. LabelTaken /\ PlacedApart
    BY DEF CInv
  <2> QED
    BY <1>1, <1>2, <1>3, <2>1, <2>2 DEF LabelTaken, PlacedApart
<1>9. LabelTaken'
  <2>1. ASSUME NEW i \in DOMAIN out', out'[i].op = "label"
        PROVE  \E l \in 0..next_label' - 1 : out'[i].to = {l}
    <3>1. CASE i \in DOMAIN out /\ out'[i] = out[i]
      <4>1. PICK l \in 0..next_label - 1 : out[i].to = {l}
        BY <1>2, <2>1, <3>1 DEF CInv, LabelTaken
      <4>2. l \in 0..next_label' - 1
        BY <1>0, <4>1
      <4> QED
        BY <3>1, <4>1, <4>2
    <3>2. CASE i - Len(out) \in DOMAIN lines /\ out'[i] = lines[i - Len(out)]
      <4>1. PICK l : lines[i - Len(out)].to = {l}
        BY <2>1, <3>2 DEF KeepsLabels
      <4>2. l \in Places(Top) \union new
        BY <1>7, <2>1, <3>2, <4>1
      <4>3. l \in 0..next_label' - 1
        BY <1>3, <1>8, <4>2
      <4> QED
        BY <3>2, <4>1, <4>3
    <3> QED
      BY <1>4, <3>1, <3>2
  <2>2. ASSUME NEW i \in DOMAIN todo'
        PROVE  Places(todo'[i]) \subseteq 0..next_label' - 1
    BY <1>3, <1>5, <1>7, <1>8
  <2> QED
    BY <1>2, <2>1, <2>2 DEF LabelTaken, Places
<1>10. PlacedApart'
  <2>1. ASSUME NEW i \in DOMAIN out', NEW j \in DOMAIN out', i # j,
               out'[i].op = "label", out'[j].op = "label"
        PROVE  out'[i].to \intersect out'[j].to = {}
    <3>1. CASE i \in DOMAIN out /\ out'[i] = out[i] /\ j \in DOMAIN out /\ out'[j] = out[j]
      BY <1>2, <2>1, <3>1 DEF CInv, PlacedApart
    <3>2. ASSUME NEW k \in DOMAIN out, out[k].op = "label",
                 NEW l \in DOMAIN lines, lines[l].op = "label"
          PROVE  out[k].to \intersect lines[l].to = {}
      BY <1>3, <1>7, <1>8, <3>2
    <3>3. CASE /\ i - Len(out) \in DOMAIN lines /\ out'[i] = lines[i - Len(out)]
               /\ j - Len(out) \in DOMAIN lines /\ out'[j] = lines[j - Len(out)]
      <4>1. i - Len(out) = j - Len(out)
        BY <2>1, <3>3 DEF KeepsLabels
      <4> QED
        BY <1>1, <1>6, <2>1, <4>1 DEF IsJoined
    <3>4. CASE /\ i \in DOMAIN out /\ out'[i] = out[i]
               /\ j - Len(out) \in DOMAIN lines /\ out'[j] = lines[j - Len(out)]
      BY <2>1, <3>2, <3>4
    <3>5. CASE /\ j \in DOMAIN out /\ out'[j] = out[j]
               /\ i - Len(out) \in DOMAIN lines /\ out'[i] = lines[i - Len(out)]
      BY <2>1, <3>2, <3>5
    <3> QED
      BY <1>4, <3>1, <3>3, <3>4, <3>5
  <2>2. ASSUME NEW i \in DOMAIN todo', NEW j \in DOMAIN todo', i # j
        PROVE  Places(todo'[i]) \intersect Places(todo'[j]) = {}
    <3>1. CASE i \in DOMAIN items /\ todo'[i] = items[i] /\ j \in DOMAIN items /\ todo'[j] = items[j]
      BY <2>2, <3>1 DEF KeepsLabels
    <3>2. ASSUME NEW k \in DOMAIN items, NEW l \in rest
          PROVE  Places(items[k]) \intersect Places(todo[l]) = {}
      BY <1>3, <1>7, <1>8
    <3>3. CASE /\ i > Len(items) /\ i - Len(items) + 1 \in rest
               /\ todo'[i] = todo[i - Len(items) + 1]
               /\ j > Len(items) /\ j - Len(items) + 1 \in rest
               /\ todo'[j] = todo[j - Len(items) + 1]
      <4>1. i - Len(items) + 1 \in DOMAIN todo /\ j - Len(items) + 1 \in DOMAIN todo
        BY <1>3, <3>3
      <4>2. i \in Int /\ j \in Int /\ Len(items) \in Int
        BY <1>1, <2>2 DEF IsReplaced
      <4>3. i - Len(items) + 1 # j - Len(items) + 1
        BY <2>2, <4>2
      <4> QED
        BY <3>3, <4>1, <4>3 DEF CInv, PlacedApart
    <3>4. CASE /\ i \in DOMAIN items /\ todo'[i] = items[i]
               /\ j - Len(items) + 1 \in rest /\ todo'[j] = todo[j - Len(items) + 1]
      BY <3>2, <3>4
    <3>5. CASE /\ j \in DOMAIN items /\ todo'[j] = items[j]
               /\ i - Len(items) + 1 \in rest /\ todo'[i] = todo[i - Len(items) + 1]
      BY <3>2, <3>5
    <3> QED
      BY <1>5, <3>1, <3>3, <3>4, <3>5
  <2>3. ASSUME NEW i \in DOMAIN todo', NEW j \in DOMAIN out', out'[j].op = "label"
        PROVE  Places(todo'[i]) \intersect out'[j].to = {}
    <3>1. ASSUME NEW k \in DOMAIN items, NEW l \in DOMAIN out, out[l].op = "label"
          PROVE  Places(items[k]) \intersect out[l].to = {}
      BY <1>3, <1>7, <1>8, <3>1
    <3>2. ASSUME NEW k \in rest, NEW l \in DOMAIN lines, lines[l].op = "label"
          PROVE  Places(todo[k]) \intersect lines[l].to = {}
      BY <1>3, <1>7, <1>8, <3>2
    <3>3. ASSUME NEW k \in DOMAIN items, NEW l \in DOMAIN lines, lines[l].op = "label"
          PROVE  Places(items[k]) \intersect lines[l].to = {}
      BY <3>3 DEF KeepsLabels
    <3>4. ASSUME NEW k \in rest, NEW l \in DOMAIN out, out[l].op = "label"
          PROVE  Places(todo[k]) \intersect out[l].to = {}
      BY <1>8, <3>4
    <3> QED
      BY <1>4, <1>5, <2>3, <3>1, <3>2, <3>3, <3>4
  <2> QED
    BY <1>2, <2>1, <2>2, <2>3 DEF PlacedApart, Places
<1>11. LabelsOf(functions, BranchOps)'
         = LabelsOf(functions, BranchOps) \union LineLabels(lines, functions, BranchOps)
       /\ LabelsOf(functions, {"label"})'
         = LabelsOf(functions, {"label"}) \union LineLabels(lines, functions, {"label"})
  <2>1. \A f, ops : LabelsOf(f, ops)' = LabelsOf(f, ops) \union LineLabels(lines, f, ops)
    BY LabelsAdded DEF StaysInside
  <2> QED
    BY <2>1 DEF StaysInside, LabelsOf
<1>12. Balanced'
  <2>1. /\ AllGoes(todo') = AllGoes(items) \union UNION {Goes(todo[i]) : i \in rest}
        /\ AllGoes(todo) = Goes(Top) \union UNION {Goes(todo[i]) : i \in rest}
        /\ AllPlaces(todo') = AllPlaces(items) \union UNION {Places(todo[i]) : i \in rest}
        /\ AllPlaces(todo) = Places(Top) \union UNION {Places(todo[i]) : i \in rest}
    BY LabelsPending DEF StaysInside
  <2>2. LabelsOf(functions, BranchOps) \union AllGoes(todo)
          = LabelsOf(functions, {"label"}) \union AllPlaces(todo)
    BY DEF CInv, Balanced, AllGoes, AllPlaces
  <2>3. /\ LineLabels(lines, functions, BranchOps) \union AllGoes(items) = Goes(Top) \union new
        /\ LineLabels(lines, functions, {"label"}) \union AllPlaces(items)
             = Places(Top) \union new
    BY DEF KeepsLabels
  <2>4. LabelsOf(functions, BranchOps)' \union AllGoes(todo')
          = LabelsOf(functions, {"label"})' \union AllPlaces(todo')
    <3> DEFINE R == UNION {Goes(todo[i]) : i \in rest}
               Q == UNION {Places(todo[i]) : i \in rest}
    <3> HIDE DEF R, Q, new
    <3> QED
      BY <1>11, <2>1, <2>2, <2>3 DEF R, Q
  <2> QED
    BY <2>4 DEF Balanced, AllGoes, AllPlaces, Goes, Places
<1>13. Closed'
  <2>1. \A i \in DOMAIN out' :
          \/ i \in DOMAIN out /\ out'[i] = out[i]
          \/ out'[i].fn = functions /\ out'[i].op # "end"
    BY <1>4 DEF StaysInside
  <2>2. functions' = functions /\ functions \in Nat
    BY DEF StaysInside, TypeOK
  <2>3. ASSUME NEW f \in 0..functions, \E i \in DOMAIN out' : out'[i].fn = f /\ out'[i].op = "end"
        PROVE  /\ LabelsOf(f, BranchOps)' = LabelsOf(f, {"label"})'
               /\ f # functions
    <3>1. \E i \in DOMAIN out : out[i].fn = f /\ out[i].op = "end"
      BY <2>1, <2>3
    <3>2. f # functions /\ LabelsOf(f, BranchOps) = LabelsOf(f, {"label"})
      BY <1>2, <3>1 DEF CInv, Closed, StaysInside
    <3>3. \A ops : LineLabels(lines, f, ops) = {}
      BY <3>2 DEF LineLabels, StaysInside
    <3>4. \A ops : LabelsOf(f, ops)' = LabelsOf(f, ops) \union LineLabels(lines, f, ops)
      BY LabelsAdded DEF StaysInside
    <3> QED
      BY <3>2, <3>3, <3>4
  <2>4. ASSUME NEW i \in DOMAIN todo', todo'[i].op = "end_function"
        PROVE  i = Len(todo')
    <3>1. i - Len(items) + 1 \in rest /\ todo[i - Len(items) + 1].op = "end_function"
      BY <1>5, <2>4 DEF StaysInside
    <3>2. i - Len(items) + 1 \in DOMAIN todo
      BY <1>3, <3>1
    <3>3. i - Len(items) + 1 = Len(todo)
      BY <3>1, <3>2 DEF CInv, Closed
    <3>4. /\ i \in Int /\ Len(items) \in Nat /\ Len(todo) \in Nat
          /\ Len(todo') = Len(items) + Len(todo) - 1
      BY <1>1, <2>4 DEF IsReplaced
    <3> QED
      BY <3>3, <3>4
  <2>5. \A i \in DOMAIN out' : out'[i].fn <= functions
    BY <1>2, <2>1, <2>2 DEF CInv, Closed
  <2>6. \A i \in Lines' : out'[i].fn <= functions'
    BY <1>2, <2>2, <2>5
  <2>7. \A f \in 0..functions' : (\E i \in Lines' : out'[i].fn = f /\ out'[i].op = "end") =>
          /\ LabelsOf(f, BranchOps)' = LabelsOf(f, {"label"})'
          /\ f = functions' => todo' = <<>>
    BY <1>2, <2>2, <2>3
  <2> QED
    BY <2>4, <2>6, <2>7 DEF Closed
<1>14. NoFallThrough'
  <2> SUFFICES ASSUME NEW i \in DOMAIN out', out'[i].op = "label"
               PROVE  i > 1 /\ out'[i - 1].op \in BranchOps
    BY <1>2 DEF NoFallThrough, BranchOps
  <2>1. CASE i \in DOMAIN out /\ out'[i] = out[i]
    <3>1. i > 1 /\ out[i - 1].op \in BranchOps
      BY <1>2, <2>1 DEF CInv, NoFallThrough, BranchOps
    <3>2. i - 1 \in DOMAIN out
      BY <1>6, <2>1, <3>1
    <3> QED
      BY <1>1, <3>1, <3>2 DEF IsJoined
  <2>2. CASE i - Len(out) \in DOMAIN lines /\ out'[i] = lines[i - Len(out)]
    <3> DEFINE k == i - Len(out)
    <3>1. k > 1 /\ lines[k - 1].op \in BranchOps
      BY <2>2 DEF KeepsLabels
    <3>4. i \in Int /\ Len(out) \in Int /\ Len(lines) \in Int /\ k \in 1..Len(lines)
      BY <1>1, <1>6, <2>2 DEF IsJoined
    <3>2. k - 1 \in DOMAIN lines /\ Len(out) + (k - 1) = i - 1
      BY <1>6, <3>1, <3>4
    <3>3. out'[Len(out) + (k - 1)] = lines[k - 1]
      BY <1>1, <3>2 DEF IsJoined
    <3> QED
      BY <1>6, <3>1, <3>2, <3>3
  <2> QED
    BY <1>4, <2>1, <2>2
<1> QED
  BY <1>9, <1>10, <1>12, <1>13, <1>14 DEF CInv
-----------------------------------------------------------------------------
(* The steps that neither take nor place a label.                            *)

(* The labels of a single entry.                                             *)
LEMMA EntryLabels ==
  /\ \A it : it.op \notin {"branch", "jump"} => Goes(it) = {} /\ Places(it) = {}
  /\ \A n, t, f, at : /\ Goes(BranchRest(n, t, f, at)) = {t, f}
                      /\ Places(BranchRest(n, t, f, at)) = {at}
                      /\ BranchRest(n, t, f, at).op = "branch"
  /\ \A l, at : /\ Goes(JumpRest(l, at)) = {l} /\ Places(JumpRest(l, at)) = {at}
                /\ JumpRest(l, at).op = "jump"
BY DEF Goes, Places, BranchRest, JumpRest

LEMMA EntryOps ==
  /\ \A n, t : ExprItem(n, t).op = "expr"
  /\ \A n : CondItem(n).op = "cond" /\ AssignItem(n).op = "assign"
  /\ InstrItem.op = "instr" /\ ElseItem.op = "instr" /\ BodyItem.op = "body"
  /\ EndFunctionItem.op = "end_function"
  /\ \A d : BlockItem(d).op = "block"
  /\ \A t, a : ReturnRest(t, a).op = "return"
BY DEF ExprItem, CondItem, AssignItem, InstrItem, ElseItem, BodyItem, EndFunctionItem,
   BlockItem, ReturnRest

IsUnlabelled(line) ==
  line.fn = functions /\ line.op \notin {"br", "cbr", "label", "end"}

LEMMA UnlabelledKept ==
  ASSUME TypeOK, CInv, todo # <<>>,
         Top.op \notin {"branch", "jump", "end_function"},
         NEW items, IsTuple(items), Become(items),
         \A i \in DOMAIN items : items[i].op \notin {"branch", "jump", "end_function"},
         NEW lines, IsTuple(lines), Emit(lines), \A i \in DOMAIN lines : IsUnlabelled(lines[i]),
         UNCHANGED <<functions, next_label>>
  PROVE  CInv'
<1>1. StaysInside(items, lines)
  BY DEF StaysInside, IsUnlabelled
<1>2. /\ Goes(Top) = {} /\ Places(Top) = {}
      /\ \A i \in DOMAIN items : Goes(items[i]) = {} /\ Places(items[i]) = {}
  BY EntryLabels
<1>3. /\ LineLabels(lines, functions, BranchOps) = {}
      /\ LineLabels(lines, functions, {"label"}) = {}
  BY DEF LineLabels, IsUnlabelled, BranchOps
<1>4. AllGoes(items) = {} /\ AllPlaces(items) = {}
  BY <1>2 DEF AllGoes, AllPlaces
<1>5. next_label' = next_label /\ next_label \in Nat
  BY DEF TypeOK
<1>6. next_label..next_label' - 1 = {}
  BY <1>5
<1>7. next_label' \in Nat /\ next_label' >= next_label
  BY <1>5
<1>8. \A i \in DOMAIN lines : lines[i].op # "label"
  BY DEF IsUnlabelled
<1>9. KeepsLabels(items, lines)
  BY <1>2, <1>3, <1>4, <1>6, <1>7, <1>8, Zenon DEF KeepsLabels
<1> QED
  BY <1>1, <1>9, LabelsKept

LEMMA NothingLabelled ==
  ASSUME CInv, UNCHANGED <<todo, out, functions, next_label>>
  PROVE  CInv'
<1>1. LabelTaken' /\ PlacedApart' /\ NoFallThrough'
  BY DEF CInv, LabelTaken, PlacedApart, NoFallThrough, Lines, Places
<1>2. \A f, ops : LabelsOf(f, ops)' = LabelsOf(f, ops)
  BY DEF LabelsOf, Lines
<1>3. Balanced'
  <2>1. /\ LabelsOf(functions, BranchOps)' = LabelsOf(functions, BranchOps)
        /\ LabelsOf(functions, {"label"})' = LabelsOf(functions, {"label"})
    BY DEF LabelsOf, Lines
  <2>2. /\ (UNION {Goes(todo[i]) : i \in DOMAIN todo})' = UNION {Goes(todo[i]) : i \in DOMAIN todo}
        /\ (UNION {Places(todo[i]) : i \in DOMAIN todo})' = UNION {Places(todo[i]) : i \in DOMAIN todo}
    BY DEF Goes, Places
  <2> QED
    BY <2>1, <2>2, Zenon DEF CInv, Balanced
<1>4. Closed'
  BY <1>2 DEF CInv, Closed, Lines
<1> QED
  BY <1>1, <1>3, <1>4 DEF CInv

LEMMA ExpressionLabels ==
  ASSUME TypeOK, CInv, ExpressionStep
  PROVE  CInv'
<1>1. ASSUME NEW items, NEW lines, Evaluates(items, lines)
      PROVE  CInv'
  <2>1. \A i \in DOMAIN items : items[i].op \notin {"branch", "jump", "end_function"}
    BY <1>1 DEF Evaluates, IsPart
  <2>2. \A i \in DOMAIN lines : IsUnlabelled(lines[i])
    BY <1>1 DEF Evaluates, Computes, IsUnlabelled
  <2>3. Top.op \notin {"branch", "jump", "end_function"}
    BY <1>1 DEF Evaluates, ExpressionOps
  <2>4. UNCHANGED <<functions, next_label>>
    BY <1>1 DEF Evaluates, program
  <2> QED
    BY <1>1, <2>1, <2>2, <2>3, <2>4, UnlabelledKept DEF Evaluates
<1>2. CASE UNCHANGED <<todo, out, program, next_label>>
  BY <1>2, NothingLabelled DEF program
<1> QED
  BY <1>1, <1>2, ExpressionEvaluates

(* A step that only puts such entries on the stack, or only writes such lines. *)
LEMMA UnlabelledItems ==
  ASSUME TypeOK, CInv, NEW op \in {"instr", "body", "block"}, At(op),
         NEW items, IsTuple(items), Become(items),
         \A i \in DOMAIN items : items[i].op \notin {"branch", "jump", "end_function"},
         UNCHANGED <<out, functions, next_label>>
  PROVE  CInv'
<1>1. Emit(<<>>) /\ IsTuple(<<>>) /\ DOMAIN <<>> = {}
  BY NoLines
<1>2. todo # <<>> /\ Top.op \notin {"branch", "jump", "end_function"}
  BY TopTyped
<1> QED
  BY <1>1, <1>2, UnlabelledKept

LEMMA InstructionUnlabelled ==
  ASSUME TypeOK, CInv,
         \/ \E t \in SourceTypes : VisitExpressionInstruction(t)
         \/ VisitAssignmentInstruction
         \/ \E t \in SourceTypes : VisitReturnInstruction(t)
         \/ VisitCompoundInstruction \/ NextInstruction \/ EndCompound
  PROVE  CInv'
<1> DEFINE ok(items) ==
             /\ IsTuple(items)
             /\ \A i \in DOMAIN items : items[i].op \notin {"branch", "jump", "end_function"}
<1>0. /\ ok(<<>>)
      /\ \A a : a.op \notin {"branch", "jump", "end_function"} => ok(<<a>>)
      /\ \A a, b : (/\ a.op \notin {"branch", "jump", "end_function"}
                    /\ b.op \notin {"branch", "jump", "end_function"}) => ok(<<a, b>>)
  <2>1. ok(<<>>)
    BY ShortTuples
  <2>2. ASSUME NEW a, a.op \notin {"branch", "jump", "end_function"}
        PROVE  ok(<<a>>)
    BY <2>2, ShortTuples
  <2>3. ASSUME NEW a, NEW b, a.op \notin {"branch", "jump", "end_function"},
               b.op \notin {"branch", "jump", "end_function"}
        PROVE  ok(<<a, b>>)
    BY <2>3, ShortTuples
  <2> HIDE DEF ok
  <2> QED
    BY <2>1, <2>2, <2>3, Zenon
<1>1. ASSUME NEW t \in SourceTypes, VisitExpressionInstruction(t)
      PROVE  CInv'
  <2> DEFINE a == ExprItem(nodes, t)
  <2>1. At("instr") /\ Become(<<a>>) /\ UNCHANGED <<out, functions, next_label>>
    BY <1>1 DEF VisitExpressionInstruction, program
  <2>2. ok(<<a>>)
    BY <1>0, EntryOps
  <2> QED
    BY <2>1, <2>2, UnlabelledItems
<1>2. CASE VisitAssignmentInstruction
  <2> DEFINE a == AssignItem(nodes)
  <2>1. At("instr") /\ Become(<<a>>) /\ UNCHANGED <<out, functions, next_label>>
    BY <1>2 DEF VisitAssignmentInstruction, program
  <2>2. ok(<<a>>)
    BY <1>0, EntryOps
  <2> QED
    BY <2>1, <2>2, UnlabelledItems
<1>3. ASSUME NEW t \in SourceTypes, VisitReturnInstruction(t)
      PROVE  CInv'
  <2> DEFINE a == ExprItem(nodes, t)
             b == ReturnRest(t, nodes)
  <2>1. At("instr") /\ Become(<<a, b>>) /\ UNCHANGED <<out, functions, next_label>>
    BY <1>3 DEF VisitReturnInstruction, program
  <2>2. ok(<<a, b>>)
    BY <1>0, EntryOps
  <2> QED
    BY <2>1, <2>2, UnlabelledItems
<1>4. CASE VisitCompoundInstruction
  <2> DEFINE a == BlockItem(TRUE)
  <2>1. (At("body") \/ At("instr")) /\ Become(<<a>>) /\ UNCHANGED <<out, functions, next_label>>
    BY <1>4 DEF VisitCompoundInstruction
  <2>2. ok(<<a>>)
    BY <1>0, EntryOps
  <2> QED
    BY <2>1, <2>2, UnlabelledItems
<1>5. CASE NextInstruction
  <2> DEFINE a == InstrItem
             b == BlockItem(FALSE)
  <2>1. At("block") /\ Become(<<a, b>>) /\ UNCHANGED <<out, functions, next_label>>
    BY <1>5 DEF NextInstruction, program
  <2>2. ok(<<a, b>>)
    BY <1>0, EntryOps
  <2> QED
    BY <2>1, <2>2, UnlabelledItems
<1>6. CASE EndCompound
  <2>1. At("block") /\ Become(<<>>) /\ UNCHANGED <<out, functions, next_label>>
    BY <1>6 DEF EndCompound
  <2> QED
    BY <1>0, <2>1, UnlabelledItems
<1> QED
  BY <1>1, <1>2, <1>3, <1>4, <1>5, <1>6

LEMMA DeclareLocalLabels ==
  ASSUME TypeOK, CInv, NEW s \in Symbols, DeclareLocal(s)
  PROVE  CInv'
<1> DEFINE l == Plain("alloca", Pointer(s), {})
<1>1. At("block") /\ Emit(<<l>>) /\ UNCHANGED <<todo, functions, next_label>>
  BY DEF DeclareLocal
<1>2. todo # <<>> /\ Top.op = "block"
  BY <1>1, TopTyped
<1>3. Become(<<Top>>) /\ IsTuple(<<Top>>)
  BY <1>1, <1>2, StackKept
<1>4. IsUnlabelled(l)
  BY DEF IsUnlabelled, Plain, IR
<1> HIDE DEF l
<1>5. IsTuple(<<l>>) /\ \A i \in DOMAIN <<l>> : IsUnlabelled(<<l>>[i])
  BY <1>4, ShortTuples
<1>6. \A i \in DOMAIN <<Top>> : <<Top>>[i].op \notin {"branch", "jump", "end_function"}
  BY <1>2
<1> QED
  BY <1>1, <1>2, <1>3, <1>5, <1>6, UnlabelledKept

(* The lines of a return.                                                    *)
ReturnOps == {"copy", "free", "ret i32", "ret i8*"}

LEMMA ReturnLineOps ==
  ASSUME NEW t, NEW reg
  PROVE  /\ IsTuple(ReturnLines(t, reg))
         /\ \A i \in DOMAIN ReturnLines(t, reg) :
              /\ ReturnLines(t, reg)[i].fn = functions
              /\ ReturnLines(t, reg)[i].op \in ReturnOps
              /\ ReturnLines(t, reg)[i].mem = NoReg
<1> DEFINE c == Plain("copy", ReturnCopy, {reg})
           f == Plain("free", NoReg, Freed(t, reg))
           r == Ret(t, IF NeedsCopy(t, reg) THEN ReturnCopy ELSE reg)
           copy == IF NeedsCopy(t, reg) THEN <<c>> ELSE <<>>
           free == IF Freed(t, reg) # {} THEN <<f>> ELSE <<>>
           ok(lines) == /\ IsTuple(lines)
                        /\ \A i \in DOMAIN lines :
                             /\ lines[i].fn = functions
                             /\ lines[i].op \in ReturnOps
                             /\ lines[i].mem = NoReg
<1>1. /\ c.op \in ReturnOps /\ f.op \in ReturnOps /\ r.op \in ReturnOps
      /\ c.fn = functions /\ f.fn = functions /\ r.fn = functions
      /\ c.mem = NoReg /\ f.mem = NoReg /\ r.mem = NoReg
  BY DEF Ret, Plain, IR, ReturnOps
<1>2. ReturnLines(t, reg) = (copy \o free) \o <<r>>
  BY DEF ReturnLines
<1> HIDE DEF c, f, r
<1>3. ok(<<>>) /\ ok(<<c>>) /\ ok(<<f>>) /\ ok(<<r>>)
  BY <1>1, ShortTuples, ShortItems
<1>4. ok(copy) /\ ok(free)
  <2> HIDE DEF ok
  <2> QED
    BY <1>3
<1>5. ASSUME NEW u, NEW v, ok(u), ok(v)
      PROVE  ok(u \o v)
  <2>1. IsJoined(u, v, u \o v)
    BY <1>5, Joined
  <2> QED
    BY <1>5, <2>1 DEF IsJoined
<1> HIDE DEF copy, free, ok
<1>6. ok((copy \o free) \o <<r>>)
  BY <1>3, <1>4, <1>5
<1> QED
  BY <1>2, <1>6 DEF ok

LEMMA ReturnLabels ==
  ASSUME TypeOK, CInv, ReturnResumed
  PROVE  CInv'
<1> DEFINE lines == ReturnLines(Top.type, register_reference_[Top.arg])
<1>1. At("return") /\ Become(<<>>) /\ Emit(lines) /\ UNCHANGED <<functions, next_label>>
  BY DEF ReturnResumed, program
<1>2. IsTuple(lines) /\ \A i \in DOMAIN lines : IsUnlabelled(lines[i])
  <2>1. \A op \in ReturnOps : op \notin {"br", "cbr", "label", "end"}
    BY DEF ReturnOps
  <2> QED
    BY <2>1, ReturnLineOps DEF IsUnlabelled
<1>3. todo # <<>> /\ Top.op = "return"
  BY <1>1, TopTyped
<1>4. IsTuple(<<>>) /\ DOMAIN <<>> = {}
  BY ShortTuples
<1> HIDE DEF lines
<1> QED
  BY <1>1, <1>2, <1>3, <1>4, UnlabelledKept
-----------------------------------------------------------------------------
(* The steps that take labels, go to them and place them.                    *)

LEMMA LabelsTaken ==
  ASSUME TypeOK
  PROVE  /\ next_label \in Nat
         /\ TakeLabels(3) => next_label..next_label' - 1 = {Lab(0), Lab(1), Lab(2)}
         /\ TakeLabels(4) => next_label..next_label' - 1 = {Lab(0), Lab(1), Lab(2), Lab(3)}
         /\ \A k \in {3, 4} : TakeLabels(k) => next_label' \in Nat /\ next_label' >= next_label
         /\ \A i, j \in 0..3 : i # j => Lab(i) # Lab(j)
<1>1. next_label \in Nat
  BY DEF TypeOK
<1>2. ASSUME TakeLabels(3)
      PROVE  /\ next_label..next_label' - 1 = {Lab(0), Lab(1), Lab(2)}
             /\ next_label' \in Nat /\ next_label' >= next_label
  <2>1. next_label' = next_label + 3 /\ Lab(0) = next_label /\ Lab(1) = next_label + 1
        /\ Lab(2) = next_label + 2
    BY <1>1, <1>2 DEF TakeLabels, Lab
  <2> QED
    BY <1>1, <2>1
<1>3. ASSUME TakeLabels(4)
      PROVE  /\ next_label..next_label' - 1 = {Lab(0), Lab(1), Lab(2), Lab(3)}
             /\ next_label' \in Nat /\ next_label' >= next_label
  <2>1. next_label' = next_label + 4 /\ Lab(0) = next_label /\ Lab(1) = next_label + 1
        /\ Lab(2) = next_label + 2 /\ Lab(3) = next_label + 3
    BY <1>1, <1>3 DEF TakeLabels, Lab
  <2> QED
    BY <1>1, <2>1
<1>4. \A i, j \in 0..3 : i # j => Lab(i) # Lab(j)
  BY <1>1 DEF Lab
<1> QED
  BY <1>1, <1>2, <1>3, <1>4

LEMMA FourEntries ==
  ASSUME NEW a, NEW b, NEW c, NEW d
  PROVE  /\ IsTuple(<<a, b, c, d>>) /\ DOMAIN <<a, b, c, d>> = 1..4
         /\ AllGoes(<<a, b, c, d>>) = Goes(a) \union Goes(b) \union Goes(c) \union Goes(d)
         /\ AllPlaces(<<a, b, c, d>>)
              = Places(a) \union Places(b) \union Places(c) \union Places(d)
<1> DEFINE s == <<a, b, c, d>>
<1>1. s \in Seq({a, b, c, d}) /\ DOMAIN s = 1..4
  OBVIOUS
<1>2. s[1] = a /\ s[2] = b /\ s[3] = c /\ s[4] = d
  OBVIOUS
<1> HIDE DEF s
<1>3. \A i : i \in DOMAIN s <=> i \in {1, 2, 3, 4}
  BY <1>1
<1>4. \A l : l \in AllGoes(s) <=> \E i \in DOMAIN s : l \in Goes(s[i])
  BY DEF AllGoes
<1>5. \A l : l \in AllPlaces(s) <=> \E i \in DOMAIN s : l \in Places(s[i])
  BY DEF AllPlaces
<1>6. AllGoes(s) = Goes(a) \union Goes(b) \union Goes(c) \union Goes(d)
  BY <1>2, <1>3, <1>4
<1>7. AllPlaces(s) = Places(a) \union Places(b) \union Places(c) \union Places(d)
  BY <1>2, <1>3, <1>5
<1> QED
  BY <1>1, <1>6, <1>7, Tuples DEF s

LEMMA EightEntries ==
  ASSUME NEW a, NEW b, NEW c, NEW d, NEW e, NEW f, NEW g, NEW h
  PROVE  LET s == <<a, b, c, d, e, f, g, h>>
         IN  /\ IsTuple(s) /\ DOMAIN s = 1..8
             /\ AllGoes(s) = Goes(a) \union Goes(b) \union Goes(c) \union Goes(d)
                      \union Goes(e) \union Goes(f) \union Goes(g) \union Goes(h)
             /\ AllPlaces(s) = Places(a) \union Places(b) \union Places(c) \union Places(d)
                      \union Places(e) \union Places(f) \union Places(g) \union Places(h)
<1> DEFINE s == <<a, b, c, d, e, f, g, h>>
<1>1. s \in Seq({a, b, c, d, e, f, g, h}) /\ DOMAIN s = 1..8
  OBVIOUS
<1>2. /\ s[1] = a /\ s[2] = b /\ s[3] = c /\ s[4] = d
      /\ s[5] = e /\ s[6] = f /\ s[7] = g /\ s[8] = h
  OBVIOUS
<1> HIDE DEF s
<1>3. \A i : i \in DOMAIN s <=> i \in {1, 2, 3, 4, 5, 6, 7, 8}
  BY <1>1
<1>4. \A l : l \in AllGoes(s) <=> \E i \in DOMAIN s : l \in Goes(s[i])
  BY DEF AllGoes
<1>5. \A l : l \in AllPlaces(s) <=> \E i \in DOMAIN s : l \in Places(s[i])
  BY DEF AllPlaces
<1>6. AllGoes(s) = Goes(a) \union Goes(b) \union Goes(c) \union Goes(d)
             \union Goes(e) \union Goes(f) \union Goes(g) \union Goes(h)
  BY <1>2, <1>3, <1>4
<1>7. AllPlaces(s) = Places(a) \union Places(b) \union Places(c) \union Places(d)
             \union Places(e) \union Places(f) \union Places(g) \union Places(h)
  BY <1>2, <1>3, <1>5
<1> QED
  BY <1>1, <1>6, <1>7, Tuples DEF s

(* A branch and the label behind it.                                         *)
LEMMA BranchAndLabel ==
  ASSUME NEW b, NEW l, b.op \in BranchOps, b.fn = functions
  PROVE  LET lines == <<b, LabelAt(l)>>
         IN  /\ IsTuple(lines)
             /\ LineLabels(lines, functions, BranchOps) = b.to
             /\ LineLabels(lines, functions, {"label"}) = {l}
             /\ \A i \in DOMAIN lines : lines[i].fn = functions /\ lines[i].op # "end"
             /\ \A i \in DOMAIN lines : lines[i].op = "label" =>
                  /\ i = 2 /\ lines[i].to = {l} /\ lines[i - 1].op \in BranchOps
<1> DEFINE c == LabelAt(l)
           lines == <<b, c>>
<1>1. c.op = "label" /\ c.to = {l} /\ c.fn = functions
  BY DEF LabelAt, IR
<1> HIDE DEF c
<1>2. DOMAIN lines = {1, 2} /\ lines[1] = b /\ lines[2] = c /\ IsTuple(lines)
  BY ShortTuples
<1> HIDE DEF lines
<1>3. LineLabels(lines, functions, BranchOps) = b.to
  BY <1>1, <1>2 DEF LineLabels, BranchOps
<1>4. LineLabels(lines, functions, {"label"}) = {l}
  BY <1>1, <1>2 DEF LineLabels, BranchOps
<1>5. \A i \in DOMAIN lines : /\ lines[i].fn = functions /\ lines[i].op # "end"
                              /\ lines[i].op = "label" =>
                                   i = 2 /\ lines[i].to = {l} /\ lines[i - 1].op \in BranchOps
  BY <1>1, <1>2 DEF BranchOps
<1> QED
  BY <1>2, <1>3, <1>4, <1>5 DEF lines, c

LEMMA BranchLines ==
  /\ \A l : Br(l).op \in BranchOps /\ Br(l).fn = functions /\ Br(l).to = {l}
  /\ \A r, t, f : /\ CondBr(r, t, f).op \in BranchOps /\ CondBr(r, t, f).fn = functions
                  /\ CondBr(r, t, f).to = {t, f}
BY DEF Br, CondBr, IR, BranchOps

(* Resuming at a pending branch or jump writes it and places its label.       *)
LEMMA ResumedLabels ==
  ASSUME TypeOK, CInv, BranchResumed \/ JumpResumed
  PROVE  CInv'
<1>1. PICK b : /\ Emit(<<b, LabelAt(Top.at)>>) /\ b.op \in BranchOps /\ b.fn = functions
               /\ b.to = Goes(Top)
  <2>1. CASE BranchResumed
    <3>1. At("branch") /\ Top.op = "branch"
      BY <2>1, TopTyped DEF BranchResumed
    <3> QED
      BY <2>1, <3>1, BranchLines DEF BranchResumed, Goes
  <2>2. CASE JumpResumed
    <3>1. At("jump") /\ Top.op = "jump"
      BY <2>2, TopTyped DEF JumpResumed
    <3> QED
      BY <2>2, <3>1, BranchLines DEF JumpResumed, Goes
  <2> QED
    BY <2>1, <2>2
<1>2. /\ At("branch") \/ At("jump")
      /\ Become(<<>>) /\ UNCHANGED <<functions, next_label>>
  BY DEF BranchResumed, JumpResumed, program
<1>3. todo # <<>> /\ Top.op \in {"branch", "jump"}
  BY <1>2, TopTyped
<1>4. Places(Top) = {Top.at}
  BY <1>3 DEF Places
<1> DEFINE lines == <<b, LabelAt(Top.at)>>
<1>5. /\ IsTuple(lines)
      /\ LineLabels(lines, functions, BranchOps) = b.to
      /\ LineLabels(lines, functions, {"label"}) = {Top.at}
      /\ \A i \in DOMAIN lines : lines[i].fn = functions /\ lines[i].op # "end"
      /\ \A i \in DOMAIN lines : lines[i].op = "label" =>
           i = 2 /\ lines[i].to = {Top.at} /\ lines[i - 1].op \in BranchOps
  BY <1>1, BranchAndLabel
<1>6. Emit(lines)
  BY <1>1
<1> HIDE DEF lines
<1>7. IsTuple(<<>>) /\ AllGoes(<<>>) = {} /\ AllPlaces(<<>>) = {} /\ DOMAIN <<>> = {}
  BY ShortTuples DEF AllGoes, AllPlaces
<1>8. StaysInside(<<>>, lines)
  BY <1>2, <1>3, <1>5, <1>6, <1>7 DEF StaysInside
<1>9. next_label' = next_label /\ next_label \in Nat
  BY <1>2 DEF TypeOK
<1>10. next_label..next_label' - 1 = {} /\ next_label' \in Nat /\ next_label' >= next_label
  BY <1>9
<1>11. \A i \in DOMAIN lines : lines[i].op = "label" =>
         /\ i > 1 /\ lines[i - 1].op \in BranchOps /\ \E l : lines[i].to = {l}
         /\ \A j \in DOMAIN lines : lines[j].op = "label" => j = i
  <2> SUFFICES ASSUME NEW i \in DOMAIN lines, lines[i].op = "label"
               PROVE  /\ i > 1 /\ lines[i - 1].op \in BranchOps /\ \E l : lines[i].to = {l}
                      /\ \A j \in DOMAIN lines : lines[j].op = "label" => j = i
    BY Zenon
  <2>1. i = 2 /\ lines[i].to = {Top.at} /\ lines[i - 1].op \in BranchOps
    BY <1>5
  <2>2. \A j \in DOMAIN lines : lines[j].op = "label" => j = 2
    BY <1>5
  <2> QED
    BY <2>1, <2>2
<1>12. KeepsLabels(<<>>, lines)
  BY <1>1, <1>4, <1>5, <1>7, <1>10, <1>11, Zenon DEF KeepsLabels
<1> QED
  BY <1>8, <1>12, LabelsKept

(* The loops that begin with their label.                                    *)
LEMMA LoopLabels ==
  ASSUME TypeOK, CInv, At("instr"), TakeLabels(3), UNCHANGED functions,
         Emit(<<Br(Lab(0)), LabelAt(Lab(0))>>),
         NEW a, NEW b, NEW c, NEW d, Become(<<a, b, c, d>>),
         {a.op, b.op, c.op, d.op} \subseteq {"instr", "cond", "branch", "jump"},
         {Lab(0)} \union Goes(a) \union Goes(b) \union Goes(c) \union Goes(d)
           = {Lab(0), Lab(1), Lab(2)},
         Places(a) = {}, Places(c) = {},
         \/ Places(b) = {Lab(1)} /\ Places(d) = {Lab(2)}
         \/ Places(b) = {Lab(2)} /\ Places(d) = {Lab(1)}
  PROVE  CInv'
<1> DEFINE items == <<a, b, c, d>>
           lines == <<Br(Lab(0)), LabelAt(Lab(0))>>
<1>1. /\ IsTuple(items) /\ DOMAIN items = 1..4
      /\ AllGoes(items) = Goes(a) \union Goes(b) \union Goes(c) \union Goes(d)
      /\ AllPlaces(items) = Places(a) \union Places(b) \union Places(c) \union Places(d)
      /\ items[1] = a /\ items[2] = b /\ items[3] = c /\ items[4] = d
  BY FourEntries
<1>2. /\ IsTuple(lines)
      /\ LineLabels(lines, functions, BranchOps) = {Lab(0)}
      /\ LineLabels(lines, functions, {"label"}) = {Lab(0)}
      /\ \A i \in DOMAIN lines : lines[i].fn = functions /\ lines[i].op # "end"
      /\ \A i \in DOMAIN lines : lines[i].op = "label" =>
           i = 2 /\ lines[i].to = {Lab(0)} /\ lines[i - 1].op \in BranchOps
  BY BranchLines, BranchAndLabel
<1>3. /\ next_label..next_label' - 1 = {Lab(0), Lab(1), Lab(2)}
      /\ next_label' \in Nat /\ next_label' >= next_label
      /\ Lab(0) # Lab(1) /\ Lab(0) # Lab(2) /\ Lab(1) # Lab(2)
  BY LabelsTaken
<1>4. todo # <<>> /\ Top.op = "instr"
  BY TopTyped
<1>5. Goes(Top) = {} /\ Places(Top) = {}
  BY <1>4, EntryLabels
<1>6. Become(items) /\ Emit(lines)
  OBVIOUS
<1> HIDE DEF items, lines
<1>7. \A i \in DOMAIN items : items[i].op # "end_function"
  BY <1>1
<1>8. StaysInside(items, lines)
  BY <1>1, <1>2, <1>4, <1>6, <1>7 DEF StaysInside
<1>9. \A i, j \in DOMAIN items :
        i # j => Places(items[i]) \intersect Places(items[j]) = {}
  BY <1>1, <1>3
<1>10. \A j \in DOMAIN items : Places(items[j]) \intersect {Lab(0)} = {}
  BY <1>1, <1>3
<1>11. \A i \in DOMAIN lines : lines[i].op = "label" =>
         /\ i > 1 /\ lines[i - 1].op \in BranchOps /\ \E l : lines[i].to = {l}
         /\ \A j \in DOMAIN items : Places(items[j]) \intersect lines[i].to = {}
         /\ \A j \in DOMAIN lines : lines[j].op = "label" => j = i
  BY <1>2, <1>10
<1>12. /\ LineLabels(lines, functions, BranchOps) \union AllGoes(items)
            = Goes(Top) \union {Lab(0), Lab(1), Lab(2)}
       /\ LineLabels(lines, functions, {"label"}) \union AllPlaces(items)
            = Places(Top) \union {Lab(0), Lab(1), Lab(2)}
  BY <1>1, <1>2, <1>5
<1>13. KeepsLabels(items, lines)
  BY <1>3, <1>9, <1>11, <1>12, Zenon DEF KeepsLabels
<1> QED
  BY <1>8, <1>13, LabelsKept

LEMMA WhileDoLabels ==
  ASSUME TypeOK, CInv, VisitWhileInstruction \/ VisitDoInstruction
  PROVE  CInv'
<1>1. CASE VisitWhileInstruction
  <2> DEFINE a == CondItem(nodes)
             b == BranchRest(nodes, Lab(1), Lab(2), Lab(1))
             c == InstrItem
             d == JumpRest(Lab(0), Lab(2))
  <2>1. /\ At("instr") /\ TakeLabels(3) /\ UNCHANGED functions
        /\ Emit(<<Br(Lab(0)), LabelAt(Lab(0))>>) /\ Become(<<a, b, c, d>>)
    BY <1>1 DEF VisitWhileInstruction, program
  <2>2. a.op = "cond" /\ b.op = "branch" /\ c.op = "instr" /\ d.op = "jump"
    BY EntryOps, EntryLabels
  <2>3. /\ Goes(a) = {} /\ Goes(b) = {Lab(1), Lab(2)} /\ Goes(c) = {} /\ Goes(d) = {Lab(0)}
        /\ Places(a) = {} /\ Places(b) = {Lab(1)} /\ Places(c) = {} /\ Places(d) = {Lab(2)}
    BY <2>2, EntryLabels
  <2> HIDE DEF a, b, c, d
  <2>4. /\ {a.op, b.op, c.op, d.op} \subseteq {"instr", "cond", "branch", "jump"}
        /\ {Lab(0)} \union Goes(a) \union Goes(b) \union Goes(c) \union Goes(d)
             = {Lab(0), Lab(1), Lab(2)}
    BY <2>2, <2>3
  <2> QED
    BY <2>1, <2>3, <2>4, LoopLabels
<1>2. CASE VisitDoInstruction
  <2> DEFINE a == InstrItem
             b == JumpRest(Lab(1), Lab(1))
             c == CondItem(nodes)
             d == BranchRest(nodes, Lab(0), Lab(2), Lab(2))
  <2>1. /\ At("instr") /\ TakeLabels(3) /\ UNCHANGED functions
        /\ Emit(<<Br(Lab(0)), LabelAt(Lab(0))>>) /\ Become(<<a, b, c, d>>)
    BY <1>2 DEF VisitDoInstruction, program
  <2>2. a.op = "instr" /\ b.op = "jump" /\ c.op = "cond" /\ d.op = "branch"
    BY EntryOps, EntryLabels
  <2>3. /\ Goes(a) = {} /\ Goes(b) = {Lab(1)} /\ Goes(c) = {} /\ Goes(d) = {Lab(0), Lab(2)}
        /\ Places(a) = {} /\ Places(b) = {Lab(1)} /\ Places(c) = {} /\ Places(d) = {Lab(2)}
    BY <2>2, EntryLabels
  <2> HIDE DEF a, b, c, d
  <2>4. /\ {a.op, b.op, c.op, d.op} \subseteq {"instr", "cond", "branch", "jump"}
        /\ {Lab(0)} \union Goes(a) \union Goes(b) \union Goes(c) \union Goes(d)
             = {Lab(0), Lab(1), Lab(2)}
    BY <2>2, <2>3
  <2> QED
    BY <2>1, <2>3, <2>4, LoopLabels
<1> QED
  BY <1>1, <1>2

(* The instructions that put off all their labels.                           *)
LEMMA LabelsPutOff ==
  ASSUME TypeOK, CInv, At("instr"), NEW k \in {3, 4}, TakeLabels(k), UNCHANGED <<functions, out>>,
         NEW items, IsTuple(items), Become(items),
         \A i \in DOMAIN items : items[i].op # "end_function",
         AllGoes(items) = next_label..next_label' - 1,
         AllPlaces(items) = next_label..next_label' - 1,
         \A i, j \in DOMAIN items :
           i # j => Places(items[i]) \intersect Places(items[j]) = {}
  PROVE  CInv'
<1>1. Emit(<<>>) /\ IsTuple(<<>>) /\ DOMAIN <<>> = {}
  BY NoLines
<1>2. \A ops : LineLabels(<<>>, functions, ops) = {}
  BY <1>1 DEF LineLabels
<1>3. todo # <<>> /\ Top.op = "instr"
  BY TopTyped
<1>4. Goes(Top) = {} /\ Places(Top) = {}
  BY <1>3, EntryLabels
<1>5. next_label' \in Nat /\ next_label' >= next_label
  BY LabelsTaken
<1>6. StaysInside(items, <<>>)
  BY <1>1, <1>3, Zenon DEF StaysInside
<1>7. KeepsLabels(items, <<>>)
  BY <1>1, <1>2, <1>4, <1>5, Zenon DEF KeepsLabels
<1> QED
  BY <1>6, <1>7, LabelsKept

(* The entries of a conditional: the else branch may be missing.             *)
IsConditional(s, a, b, c, d, e, z) ==
  /\ IsTuple(s) /\ Len(s) \in Nat /\ Len(s) >= 5 /\ DOMAIN s = 1..Len(s)
  /\ s[1] = a /\ s[2] = b /\ s[3] = c /\ s[4] = d /\ s[Len(s)] = z
  /\ \A i \in DOMAIN s : i \in {1, 2, 3, 4, Len(s)} \/ s[i] = e

LEMMA CondEntries ==
  ASSUME NEW a, NEW b, NEW c, NEW d, NEW e, NEW z, NEW else, else = <<>> \/ else = <<e>>
  PROVE  IsConditional(<<a, b, c, d>> \o else \o <<z>>, a, b, c, d, e, z)
<1> DEFINE head == <<a, b, c, d>>
           front == head \o else
           items == front \o <<z>>
<1>1. /\ IsTuple(head) /\ DOMAIN head = 1..4
      /\ head[1] = a /\ head[2] = b /\ head[3] = c /\ head[4] = d
  BY FourEntries
<1>2. IsTuple(else) /\ \A i \in DOMAIN else : else[i] = e
  BY ShortTuples
<1>3. IsTuple(<<z>>) /\ DOMAIN <<z>> = {1} /\ <<z>>[1] = z /\ Len(<<z>>) = 1
  BY ShortTuples
<1> HIDE DEF head
<1>4. IsJoined(head, else, front)
  BY <1>1, <1>2, Joined
<1>5. IsJoined(front, <<z>>, items)
  BY <1>3, <1>4, Joined DEF IsJoined
<1> HIDE DEF front, items
<1>6. /\ IsTuple(items) /\ Len(front) \in Nat /\ Len(front) >= 4 /\ Len(head) = 4
      /\ DOMAIN front = 1..Len(front) /\ DOMAIN items = 1..Len(front) + 1
      /\ Len(items) = Len(front) + 1
  BY <1>1, <1>3, <1>4, <1>5 DEF IsJoined
<1>7. /\ items[1] = a /\ items[2] = b /\ items[3] = c /\ items[4] = d
      /\ items[Len(front) + 1] = z
  <2>1. front[1] = a /\ front[2] = b /\ front[3] = c /\ front[4] = d
    BY <1>1, <1>4 DEF IsJoined
  <2>2. 1 \in DOMAIN front /\ 2 \in DOMAIN front /\ 3 \in DOMAIN front /\ 4 \in DOMAIN front
    BY <1>6
  <2>3. \A i \in DOMAIN front : items[i] = front[i]
    BY <1>5 DEF IsJoined
  <2>4. items[Len(front) + 1] = <<z>>[1]
    BY <1>3, <1>5 DEF IsJoined
  <2> QED
    BY <1>3, <2>1, <2>2, <2>3, <2>4
<1>8. \A i \in 5..Len(front) : items[i] = e
  <2> SUFFICES ASSUME NEW i \in 5..Len(front)
               PROVE  items[i] = e
    OBVIOUS
  <2>1. i \in DOMAIN front /\ i \notin DOMAIN head
    BY <1>1, <1>6
  <2>2. items[i] = front[i]
    BY <1>5, <2>1 DEF IsJoined
  <2>3. i - Len(head) \in DOMAIN else /\ front[i] = else[i - Len(head)]
    BY <1>4, <2>1 DEF IsJoined
  <2> QED
    BY <1>2, <2>2, <2>3
<1>9. \A i \in DOMAIN items : i \in {1, 2, 3, 4, Len(items)} \/ items[i] = e
  <2> SUFFICES ASSUME NEW i \in 1..Len(front) + 1
               PROVE  i \in {1, 2, 3, 4} \/ i \in 5..Len(front) \/ i = Len(front) + 1
    BY <1>6, <1>8
  <2> QED
    BY <1>6
<1>10. items[Len(items)] = z /\ Len(items) \in Nat /\ Len(items) >= 5 /\ DOMAIN items = 1..Len(items)
  BY <1>6, <1>7
<1> QED
  <2>1. IsConditional(items, a, b, c, d, e, z)
    BY <1>6, <1>7, <1>9, <1>10 DEF IsConditional
  <2> QED
    BY <2>1 DEF head, front, items

LEMMA CondLabels ==
  ASSUME TypeOK, CInv, NEW hasElse \in BOOLEAN, VisitCondInstruction(hasElse)
  PROVE  CInv'
<1> DEFINE a == CondItem(nodes)
           b == BranchRest(nodes, Lab(0), Lab(1), Lab(0))
           c == JumpRest(Lab(2), Lab(1))
           d == JumpRest(Lab(2), Lab(2))
           else == IF hasElse THEN <<ElseItem>> ELSE <<>>
           items == <<a, b, InstrItem, c>> \o else \o <<d>>
<1>1. At("instr") /\ TakeLabels(3) /\ UNCHANGED <<functions, out>> /\ Become(items)
  BY DEF VisitCondInstruction, program
<1>2. a.op = "cond" /\ b.op = "branch" /\ c.op = "jump" /\ d.op = "jump"
  BY EntryOps, EntryLabels
<1>3. /\ Goes(a) = {} /\ Goes(b) = {Lab(0), Lab(1)} /\ Goes(InstrItem) = {}
      /\ Goes(ElseItem) = {} /\ Goes(c) = {Lab(2)} /\ Goes(d) = {Lab(2)}
      /\ Places(a) = {} /\ Places(b) = {Lab(0)} /\ Places(InstrItem) = {}
      /\ Places(ElseItem) = {} /\ Places(c) = {Lab(1)} /\ Places(d) = {Lab(2)}
  BY <1>2, EntryOps, EntryLabels
<1>4. /\ next_label..next_label' - 1 = {Lab(0), Lab(1), Lab(2)}
      /\ Lab(0) # Lab(1) /\ Lab(0) # Lab(2) /\ Lab(1) # Lab(2)
  BY <1>1, LabelsTaken
<1> HIDE DEF a, b, c, d
<1>5. else = <<>> \/ else = <<ElseItem>>
  OBVIOUS
<1> HIDE DEF else
<1>13. IsConditional(items, a, b, InstrItem, c, ElseItem, d)
  BY <1>5, CondEntries
<1> HIDE DEF items
<1>6. /\ IsTuple(items) /\ Len(items) \in Nat /\ Len(items) >= 5 /\ DOMAIN items = 1..Len(items)
      /\ items[1] = a /\ items[2] = b /\ items[3] = InstrItem /\ items[4] = c
      /\ items[Len(items)] = d
      /\ \A i \in DOMAIN items : i \in {1, 2, 3, 4, Len(items)} \/ items[i] = ElseItem
  BY <1>13 DEF IsConditional
<1>7. \A i \in DOMAIN items :
        \/ i = 1 /\ items[i] = a
        \/ i = 2 /\ items[i] = b
        \/ i = 3 /\ items[i] = InstrItem
        \/ i = 4 /\ items[i] = c
        \/ items[i] = ElseItem
        \/ i = Len(items) /\ items[i] = d
  BY <1>6
<1>8. /\ 1 \in DOMAIN items /\ 2 \in DOMAIN items /\ 4 \in DOMAIN items
      /\ Len(items) \in DOMAIN items
  BY <1>6
<1>9. \A i \in DOMAIN items : items[i].op # "end_function"
  BY <1>2, <1>7, EntryOps
<1>10. AllGoes(items) = {Lab(0), Lab(1), Lab(2)}
  <2>1. \A l : l \in AllGoes(items) <=> \E i \in DOMAIN items : l \in Goes(items[i])
    BY DEF AllGoes
  <2>2. \A i \in DOMAIN items : Goes(items[i]) \subseteq {Lab(0), Lab(1), Lab(2)}
    BY <1>3, <1>7
  <2>3. \A l \in {Lab(0), Lab(1), Lab(2)} : \E i \in DOMAIN items : l \in Goes(items[i])
    BY <1>3, <1>6, <1>8
  <2> QED
    BY <2>1, <2>2, <2>3
<1>11. AllPlaces(items) = {Lab(0), Lab(1), Lab(2)}
  <2>1. \A l : l \in AllPlaces(items) <=> \E i \in DOMAIN items : l \in Places(items[i])
    BY DEF AllPlaces
  <2>2. \A i \in DOMAIN items : Places(items[i]) \subseteq {Lab(0), Lab(1), Lab(2)}
    BY <1>3, <1>7
  <2>3. \A l \in {Lab(0), Lab(1), Lab(2)} : \E i \in DOMAIN items : l \in Places(items[i])
    BY <1>3, <1>6, <1>8
  <2> QED
    BY <2>1, <2>2, <2>3
<1>12. \A i, j \in DOMAIN items :
         i # j => Places(items[i]) \intersect Places(items[j]) = {}
  BY <1>3, <1>4, <1>7
<1> QED
  BY <1>1, <1>4, <1>6, <1>9, <1>10, <1>11, <1>12, LabelsPutOff

LEMMA ForLabels ==
  ASSUME TypeOK, CInv, VisitForInstruction
  PROVE  CInv'
<1> DEFINE a == AssignItem(nodes)
           b == JumpRest(Lab(0), Lab(0))
           c == CondItem(nodes + 1)
           d == BranchRest(nodes + 1, Lab(1), Lab(3), Lab(1))
           e == InstrItem
           f == JumpRest(Lab(2), Lab(2))
           g == AssignItem(nodes + 2)
           h == JumpRest(Lab(0), Lab(3))
           items == <<a, b, c, d, e, f, g, h>>
<1>1. At("instr") /\ TakeLabels(4) /\ UNCHANGED <<functions, out>> /\ Become(items)
  BY DEF VisitForInstruction, program
<1>2. /\ a.op = "assign" /\ b.op = "jump" /\ c.op = "cond" /\ d.op = "branch"
      /\ e.op = "instr" /\ f.op = "jump" /\ g.op = "assign" /\ h.op = "jump"
  BY EntryOps, EntryLabels
<1>3. /\ Goes(a) = {} /\ Goes(b) = {Lab(0)} /\ Goes(c) = {} /\ Goes(d) = {Lab(1), Lab(3)}
      /\ Goes(e) = {} /\ Goes(f) = {Lab(2)} /\ Goes(g) = {} /\ Goes(h) = {Lab(0)}
      /\ Places(a) = {} /\ Places(b) = {Lab(0)} /\ Places(c) = {} /\ Places(d) = {Lab(1)}
      /\ Places(e) = {} /\ Places(f) = {Lab(2)} /\ Places(g) = {} /\ Places(h) = {Lab(3)}
  BY <1>2, EntryLabels
<1>4. /\ next_label..next_label' - 1 = {Lab(0), Lab(1), Lab(2), Lab(3)}
      /\ Lab(0) # Lab(1) /\ Lab(0) # Lab(2) /\ Lab(0) # Lab(3)
      /\ Lab(1) # Lab(2) /\ Lab(1) # Lab(3) /\ Lab(2) # Lab(3)
  BY <1>1, LabelsTaken
<1> HIDE DEF a, b, c, d, e, f, g, h
<1>5. /\ IsTuple(items) /\ DOMAIN items = 1..8
      /\ AllGoes(items) = Goes(a) \union Goes(b) \union Goes(c) \union Goes(d)
                    \union Goes(e) \union Goes(f) \union Goes(g) \union Goes(h)
      /\ AllPlaces(items) = Places(a) \union Places(b) \union Places(c) \union Places(d)
                    \union Places(e) \union Places(f) \union Places(g) \union Places(h)
  BY EightEntries
<1>6. /\ items[1] = a /\ items[2] = b /\ items[3] = c /\ items[4] = d
      /\ items[5] = e /\ items[6] = f /\ items[7] = g /\ items[8] = h
  OBVIOUS
<1> HIDE DEF items
<1>7. \A i : i \in DOMAIN items <=> i \in {1, 2, 3, 4, 5, 6, 7, 8}
  BY <1>5
<1>8. \A i \in DOMAIN items : items[i].op # "end_function"
  BY <1>2, <1>6, <1>7
<1>9. AllGoes(items) = {Lab(0), Lab(1), Lab(2), Lab(3)}
  BY <1>3, <1>5
<1>10. AllPlaces(items) = {Lab(0), Lab(1), Lab(2), Lab(3)}
  BY <1>3, <1>5
<1>11. \A i, j \in DOMAIN items :
         i # j => Places(items[i]) \intersect Places(items[j]) = {}
  BY <1>3, <1>4, <1>6, <1>7
<1> QED
  BY <1>1, <1>4, <1>5, <1>8, <1>9, <1>10, <1>11, LabelsPutOff

-----------------------------------------------------------------------------
(* External declarations.                                                    *)

(* Lines without branches and labels.                                        *)
LEMMA OutputUnlabelled ==
  ASSUME TypeOK, CInv, NEW lines, IsTuple(lines), Emit(lines),
         \A i \in DOMAIN lines : lines[i].op \notin {"br", "cbr", "label"}
  PROVE  /\ \A f : /\ LabelsOf(f, BranchOps)' = LabelsOf(f, BranchOps)
                   /\ LabelsOf(f, {"label"})' = LabelsOf(f, {"label"})
         /\ \A i \in Lines' : out'[i].op = "label" => i \in Lines /\ out'[i] = out[i]
         /\ \A i \in Lines' : \/ i \in Lines /\ out'[i] = out[i]
                              \/ \E k \in DOMAIN lines : out'[i] = lines[k]
         /\ NoFallThrough'
<1>1. IsJoined(out, lines, out')
  BY Written
<1>2. Lines' = DOMAIN out' /\ Lines = DOMAIN out
  BY <1>1 DEF Lines, IsJoined
<1>3. \A f : /\ LineLabels(lines, f, BranchOps) = {}
             /\ LineLabels(lines, f, {"label"}) = {}
  BY DEF LineLabels, BranchOps
<1>4. \A f, ops : LabelsOf(f, ops)' = LabelsOf(f, ops) \union LineLabels(lines, f, ops)
  BY LabelsAdded
<1>5. \A i \in Lines' : out'[i].op = "label" => i \in Lines /\ out'[i] = out[i]
  BY <1>1, <1>2 DEF IsJoined
<1>6. NoFallThrough'
  <2> SUFFICES ASSUME NEW i \in DOMAIN out', out'[i].op = "label"
               PROVE  i > 1 /\ out'[i - 1].op \in BranchOps
    BY <1>2 DEF NoFallThrough, BranchOps
  <2>1. i \in DOMAIN out /\ out[i].op = "label"
    BY <1>2, <1>5
  <2>2. i > 1 /\ out[i - 1].op \in BranchOps
    BY <1>2, <2>1 DEF CInv, NoFallThrough, BranchOps
  <2>3. i - 1 \in DOMAIN out
    BY <1>1, <2>1, <2>2 DEF IsJoined
  <2> QED
    BY <1>1, <2>2, <2>3 DEF IsJoined
<1>7. \A i \in Lines' : \/ i \in Lines /\ out'[i] = out[i]
                        \/ \E k \in DOMAIN lines : out'[i] = lines[k]
  BY <1>1, <1>2 DEF IsJoined
<1> QED
  BY <1>3, <1>4, <1>5, <1>6, <1>7

(* What CInv says of labels, for a step that writes none and leaves no entry  *)
(* with one.                                                                 *)
LEMMA LabelsStay ==
  ASSUME TypeOK, CInv, NEW lines, IsTuple(lines), Emit(lines), UNCHANGED next_label,
         \A i \in DOMAIN lines : lines[i].op \notin {"br", "cbr", "label"},
         \A i \in DOMAIN todo' : todo'[i].op \notin {"branch", "jump"}
  PROVE  LabelTaken' /\ PlacedApart' /\ NoFallThrough'
<1>1. /\ \A i \in Lines' : out'[i].op = "label" => i \in Lines /\ out'[i] = out[i]
      /\ NoFallThrough'
  BY OutputUnlabelled
<1>2. \A i \in DOMAIN todo' : Places(todo'[i]) = {}
  BY EntryLabels
<1>3. \A i \in DOMAIN todo' : Places(todo[i])' = {}
  BY <1>2 DEF Places
<1>4. LabelTaken'
  BY <1>1, <1>3 DEF CInv, LabelTaken
<1>5. PlacedApart'
  BY <1>1, <1>3 DEF CInv, PlacedApart
<1> QED
  BY <1>1, <1>4, <1>5

LEMMA DeclareGlobalLabels ==
  ASSUME TypeOK, CInv, NEW s \in Symbols, DeclareGlobal(s)
  PROVE  CInv'
<1> DEFINE l == Plain("global", Pointer(s), {})
<1>1. todo = <<>> /\ Emit(<<l>>) /\ UNCHANGED <<todo, functions, next_label>>
  BY DEF DeclareGlobal, Idle
<1>2. l.op = "global" /\ l.fn = functions
  BY DEF Plain, IR
<1> HIDE DEF l
<1>3. IsTuple(<<l>>) /\ \A i \in DOMAIN <<l>> : <<l>>[i].op = "global" /\ <<l>>[i].fn = functions
  BY <1>2, ShortTuples
<1>4. DOMAIN todo' = {}
  BY <1>1
<1>5. LabelTaken' /\ PlacedApart' /\ NoFallThrough'
  BY <1>1, <1>3, <1>4, LabelsStay
<1>6. /\ \A f : /\ LabelsOf(f, BranchOps)' = LabelsOf(f, BranchOps)
                /\ LabelsOf(f, {"label"})' = LabelsOf(f, {"label"})
      /\ \A i \in Lines' : \/ i \in Lines /\ out'[i] = out[i]
                           \/ \E k \in DOMAIN <<l>> : out'[i] = <<l>>[k]
  BY <1>1, <1>3, OutputUnlabelled
<1>7. Balanced'
  <2>1. /\ LabelsOf(functions, BranchOps)' = LabelsOf(functions, BranchOps)
        /\ LabelsOf(functions, {"label"})' = LabelsOf(functions, {"label"})
    <3>1. functions' = functions
      BY <1>1
    <3> QED
      BY <1>6, <3>1 DEF LabelsOf
  <2>2. /\ UNION {Goes(todo[i]) : i \in DOMAIN todo} = {}
        /\ UNION {Places(todo[i]) : i \in DOMAIN todo} = {}
    BY <1>1
  <2>3. /\ (UNION {Goes(todo[i]) : i \in DOMAIN todo})' = {}
        /\ (UNION {Places(todo[i]) : i \in DOMAIN todo})' = {}
    BY <1>4
  <2> QED
    BY <2>1, <2>2, <2>3, Zenon DEF CInv, Balanced
<1>8. Closed'
  <2>1. functions' = functions /\ functions \in Nat
    BY <1>1 DEF TypeOK
  <2>2. \A i \in Lines' : out'[i].fn <= functions'
    BY <1>3, <1>6, <2>1 DEF CInv, Closed
  <2>3. \A i \in Lines' : out'[i].op = "end" => i \in Lines /\ out'[i] = out[i]
    BY <1>3, <1>6
  <2> QED
    BY <1>1, <1>4, <1>6, <2>1, <2>2, <2>3 DEF CInv, Closed
<1> QED
  BY <1>5, <1>7, <1>8 DEF CInv

(* The lines of the head of a function: the define, then for each parameter   *)
(* its alloca and the store into it.                                         *)
LEMMA HeadLines ==
  ASSUME functions \in Nat, NEW params \in Seq(Symbols)
  PROVE  LET head == FunctionHead(params)
             numbered(l) == [l EXCEPT !.fn = functions + 1]
         IN  /\ IsTuple(head) /\ DOMAIN head = 1..1 + 2 * Len(params)
             /\ head[1] = numbered(Plain("define", NoReg, {Incoming(s) : s \in SymbolsOf(params)}))
             /\ \A k \in 1..Len(params) :
                  /\ head[2 * k] = numbered(ParamLines(params[k])[1])
                  /\ head[2 * k + 1] = numbered(ParamLines(params[k])[2])
             /\ \A i \in DOMAIN head :
                  i = 1 \/ \E k \in 1..Len(params) : i = 2 * k \/ i = 2 * k + 1
<1> DEFINE numbered(l) == [l EXCEPT !.fn = functions + 1]
           define == Plain("define", NoReg, {Incoming(s) : s \in SymbolsOf(params)})
           line(k) == IF k = 0 THEN define ELSE ParamLines(params[(k + 1) \div 2])[2 - (k % 2)]
           n == Len(params)
           head == [k \in 1..1 + 2 * n |-> numbered(line(k - 1))]
<1>1. FunctionHead(params) = head
  BY DEF FunctionHead
<1>2. n \in Nat
  BY LenProperties
<1>3. head[1] = numbered(define)
  <2>1. 1 \in 1..1 + 2 * n /\ 1 - 1 = 0
    BY <1>2
  <2> QED
    BY <2>1
<1>4. ASSUME NEW k \in 1..n
      PROVE  /\ head[2 * k] = numbered(ParamLines(params[k])[1])
             /\ head[2 * k + 1] = numbered(ParamLines(params[k])[2])
  <2>1. /\ 2 * k \in 1..1 + 2 * n /\ 2 * k - 1 # 0
        /\ ((2 * k - 1) + 1) \div 2 = k /\ 2 - ((2 * k - 1) % 2) = 1
    BY <1>2
  <2>2. /\ 2 * k + 1 \in 1..1 + 2 * n /\ (2 * k + 1) - 1 # 0
        /\ (((2 * k + 1) - 1) + 1) \div 2 = k /\ 2 - (((2 * k + 1) - 1) % 2) = 2
    BY <1>2
  <2>3. head[2 * k] = numbered(line(2 * k - 1)) /\ head[2 * k + 1] = numbered(line((2 * k + 1) - 1))
    BY <2>1, <2>2, Zenon
  <2>4. line(2 * k - 1) = ParamLines(params[k])[1]
    BY <2>1, Zenon
  <2>5. line((2 * k + 1) - 1) = ParamLines(params[k])[2]
    BY <2>2, Zenon
  <2> QED
    BY <2>3, <2>4, <2>5, Zenon
<1>5. ASSUME NEW i \in 1..1 + 2 * n
      PROVE  i = 1 \/ \E k \in 1..n : i = 2 * k \/ i = 2 * k + 1
  <2>1. CASE i # 1
    <3>1. i \div 2 \in 1..n /\ (i = 2 * (i \div 2) \/ i = 2 * (i \div 2) + 1)
      BY <1>2, <2>1
    <3> QED
      BY <3>1, Zenon
  <2> QED
    BY <2>1
<1> HIDE DEF line, define
<1>6. IsTuple(head)
  <2> DEFINE S == {numbered(line(k - 1)) : k \in 1..1 + 2 * n}
  <2>1. head \in [1..1 + 2 * n -> S] /\ 1 + 2 * n \in Nat
    BY <1>2
  <2> HIDE DEF S, head
  <2>2. head \in Seq(S)
    BY <2>1, SeqDef
  <2> QED
    BY <2>2, Tuples
<1>7. DOMAIN head = 1..1 + 2 * n
  OBVIOUS
<1> HIDE DEF head
<1> QED
  BY <1>1, <1>3, <1>4, <1>5, <1>6, <1>7, Zenon DEF define

LEMMA HeadOps ==
  ASSUME functions \in Nat, NEW params \in Seq(Symbols)
  PROVE  /\ IsTuple(FunctionHead(params))
         /\ \A i \in DOMAIN FunctionHead(params) :
              /\ FunctionHead(params)[i].op \in {"define", "alloca", "store"}
              /\ FunctionHead(params)[i].fn = functions + 1
<1> DEFINE head == FunctionHead(params)
           numbered(l) == [l EXCEPT !.fn = functions + 1]
           define == Plain("define", NoReg, {Incoming(s) : s \in SymbolsOf(params)})
<1>1. /\ IsTuple(head)
      /\ head[1] = numbered(define)
      /\ \A k \in 1..Len(params) :
           /\ head[2 * k] = numbered(ParamLines(params[k])[1])
           /\ head[2 * k + 1] = numbered(ParamLines(params[k])[2])
      /\ \A i \in DOMAIN head :
           i = 1 \/ \E k \in 1..Len(params) : i = 2 * k \/ i = 2 * k + 1
  BY HeadLines, Zenon
<1>2. numbered(define).op = "define" /\ numbered(define).fn = functions + 1
  BY DEF Plain, IR
<1>3. \A s : /\ numbered(ParamLines(s)[1]).op = "alloca"
             /\ numbered(ParamLines(s)[1]).fn = functions + 1
             /\ numbered(ParamLines(s)[2]).op = "store"
             /\ numbered(ParamLines(s)[2]).fn = functions + 1
  BY DEF ParamLines, Plain, IR
<1> HIDE DEF head, numbered, define
<1>4. \A i \in DOMAIN head : /\ head[i].op \in {"define", "alloca", "store"}
                             /\ head[i].fn = functions + 1
  BY <1>1, <1>2, <1>3
<1> QED
  BY <1>1, <1>4 DEF head

LEMMA FunctionBeginLabels ==
  ASSUME SymbolsAssumption, TypeOK, CInv, NEW params \in ParamLists,
         VisitFunctionDefinition(params)
  PROVE  CInv'
<1> DEFINE head == FunctionHead(params)
<1>1. /\ todo = <<>> /\ Emit(head) /\ functions' = functions + 1 /\ functions \in Nat
      /\ todo' = <<BodyItem, EndFunctionItem>> /\ UNCHANGED next_label
  BY DEF VisitFunctionDefinition, Idle, TypeOK
<1>2. params \in Seq(Symbols)
  BY SeqMonotonic DEF SymbolsAssumption, Locals
<1>3. /\ IsTuple(head)
      /\ \A i \in DOMAIN head : /\ head[i].op \in {"define", "alloca", "store"}
                                /\ head[i].fn = functions + 1
  BY <1>1, <1>2, HeadOps
<1> HIDE DEF head
<1>4. /\ DOMAIN todo' = {1, 2} /\ Len(todo') = 2
      /\ todo'[1].op = "body" /\ todo'[2].op = "end_function"
  BY <1>1, EntryOps
<1>5. \A i \in DOMAIN todo' : todo'[i].op \notin {"branch", "jump"}
  BY <1>4
<1>6. \A i \in DOMAIN head : head[i].op \notin {"br", "cbr", "label"}
  BY <1>3
<1>7. LabelTaken' /\ PlacedApart' /\ NoFallThrough'
  BY <1>1, <1>3, <1>5, <1>6, LabelsStay
<1>8. /\ \A f : /\ LabelsOf(f, BranchOps)' = LabelsOf(f, BranchOps)
                /\ LabelsOf(f, {"label"})' = LabelsOf(f, {"label"})
      /\ \A i \in Lines' : \/ i \in Lines /\ out'[i] = out[i]
                           \/ \E k \in DOMAIN head : out'[i] = head[k]
  BY <1>1, <1>3, <1>6, OutputUnlabelled
<1>9. PICK f \in Nat : f = functions + 1
  BY <1>1
<1>10. \A i \in Lines : out[i].fn <= functions /\ out[i].fn # f
  <2>1. \A i \in Lines : out[i].fn <= functions /\ out[i].fn \in Nat
    BY WrittenTyped DEF CInv, Closed
  <2> QED
    BY <1>1, <1>9, <2>1
<1>11. Balanced'
  <2>1. \A ops : LabelsOf(f, ops) = {}
    BY <1>10 DEF LabelsOf
  <2>2. /\ LabelsOf(functions, BranchOps)' = LabelsOf(f, BranchOps)'
        /\ LabelsOf(functions, {"label"})' = LabelsOf(f, {"label"})'
    BY <1>1, <1>9 DEF LabelsOf
  <2>3. \A i \in DOMAIN todo' : Goes(todo'[i]) = {} /\ Places(todo'[i]) = {}
    BY <1>5, EntryLabels
  <2>4. /\ (UNION {Goes(todo[i]) : i \in DOMAIN todo})' = {}
        /\ (UNION {Places(todo[i]) : i \in DOMAIN todo})' = {}
    BY <2>3 DEF Goes, Places
  <2>5. /\ LabelsOf(functions, BranchOps)' = {}
        /\ LabelsOf(functions, {"label"})' = {}
    BY <1>8, <2>1, <2>2
  <2> QED
    BY <2>4, <2>5, Zenon DEF Balanced
<1>12. Closed'
  <2>1. \A i \in Lines' : out'[i].fn <= functions'
    <3> SUFFICES ASSUME NEW i \in Lines'
                 PROVE  out'[i].fn <= functions + 1
      BY <1>1
    <3>1. CASE i \in Lines /\ out'[i] = out[i]
      <4>1. out[i].fn <= functions /\ out[i].fn \in Nat
        BY <1>10, <3>1, WrittenTyped
      <4> QED
        BY <1>1, <3>1, <4>1
    <3> QED
      BY <1>1, <1>3, <1>8, <3>1
  <2>2. ASSUME NEW g \in 0..functions', \E i \in Lines' : out'[i].fn = g /\ out'[i].op = "end"
        PROVE  /\ LabelsOf(g, BranchOps)' = LabelsOf(g, {"label"})'
               /\ g # functions'
    <3>1. \E i \in Lines : out[i].fn = g /\ out[i].op = "end"
      BY <1>3, <1>8, <2>2
    <3>2. g # f /\ g \in 0..functions
      BY <1>1, <1>9, <1>10, <3>1
    <3>3. LabelsOf(g, BranchOps) = LabelsOf(g, {"label"})
      BY <3>1, <3>2 DEF CInv, Closed
    <3> QED
      BY <1>1, <1>8, <1>9, <3>2, <3>3
  <2>3. \A i \in DOMAIN todo' : todo'[i].op = "end_function" => i = Len(todo')
    BY <1>4
  <2> QED
    BY <2>1, <2>2, <2>3 DEF Closed
<1> QED
  BY <1>7, <1>11, <1>12 DEF CInv

LEMMA TailOps ==
  /\ IsTuple(FunctionTail)
  /\ \A i \in DOMAIN FunctionTail :
       /\ FunctionTail[i].op \in {"end", "constants", "declare_strings"}
       /\ FunctionTail[i].fn = functions
       /\ FunctionTail[i].def = NoReg /\ FunctionTail[i].mem = NoReg
       /\ FunctionTail[i].op # "constants" => FunctionTail[i].use = {}
<1> DEFINE e == Plain("end", NoReg, {})
           c == Plain("constants", NoReg, {StrReg(n) : n \in const_strings_})
           d == Plain("declare_strings", NoReg, {})
           constants == IF const_strings_ # {} THEN <<c>> ELSE <<>>
           declarations == IF StringDeclarationsDue THEN <<d>> ELSE <<>>
           ok(lines) == /\ IsTuple(lines)
                        /\ \A i \in DOMAIN lines :
                             /\ lines[i].op \in {"end", "constants", "declare_strings"}
                             /\ lines[i].fn = functions
                             /\ lines[i].def = NoReg /\ lines[i].mem = NoReg
                             /\ lines[i].op # "constants" => lines[i].use = {}
<1>1. /\ e.op = "end" /\ c.op = "constants" /\ d.op = "declare_strings"
      /\ e.fn = functions /\ c.fn = functions /\ d.fn = functions
      /\ e.def = NoReg /\ c.def = NoReg /\ d.def = NoReg
      /\ e.mem = NoReg /\ c.mem = NoReg /\ d.mem = NoReg
      /\ e.use = {} /\ d.use = {}
  BY DEF Plain, IR
<1>2. FunctionTail = (<<e>> \o constants) \o declarations
  BY DEF FunctionTail
<1> HIDE DEF e, c, d
<1>3. ok(<<>>) /\ ok(<<e>>) /\ ok(<<c>>) /\ ok(<<d>>)
  BY <1>1, ShortTuples
<1>4. ok(constants) /\ ok(declarations)
  <2> HIDE DEF ok
  <2> QED
    BY <1>3
<1>5. ASSUME NEW u, NEW v, ok(u), ok(v)
      PROVE  ok(u \o v)
  <2>1. IsJoined(u, v, u \o v)
    BY <1>5, Joined
  <2> QED
    BY <1>5, <2>1 DEF IsJoined
<1> HIDE DEF constants, declarations, ok
<1>6. ok((<<e>> \o constants) \o declarations)
  BY <1>3, <1>4, <1>5
<1> QED
  BY <1>2, <1>6 DEF ok

(* EndFunction is the last entry: the labels it leaves are resolved.         *)
LEMMA FunctionEndLabels ==
  ASSUME TypeOK, CInv, EndFunction
  PROVE  CInv'
<1>1. At("end_function") /\ Become(<<>>) /\ Emit(FunctionTail) /\ UNCHANGED <<functions, next_label>>
  BY DEF EndFunction, program
<1>2. todo # <<>> /\ Top.op = "end_function"
  BY <1>1, TopTyped
<1>3. IsReplaced(todo, <<>>, todo') /\ Top = todo[1]
  BY <1>1, <1>2, Stacked, ShortTuples
<1>4. DOMAIN todo = {1} /\ Len(todo) = 1
  <2>1. 1 \in DOMAIN todo /\ DOMAIN todo = 1..Len(todo)
    BY <1>3 DEF IsReplaced
  <2>2. Len(todo) = 1
    BY <1>2, <1>3, <2>1 DEF CInv, Closed
  <2> QED
    BY <2>1, <2>2
<1>5. todo' = <<>> /\ DOMAIN todo' = {}
  <2>1. todo \in Seq(StackItem) /\ <<>> \in Seq(StackItem) /\ Len(<<>>) = 0
    BY EmptySeq DEF TypeOK
  <2>2. todo' \in Seq(StackItem) /\ Len(todo') = Len(<<>>) + Len(todo) - 1
    BY <1>1, <1>2, <2>1, FirstReplaced DEF Become
  <2>3. todo' = <<>>
    BY <1>4, <2>1, <2>2, EmptySeq
  <2> QED
    BY <2>3
<1>6. /\ IsTuple(FunctionTail)
      /\ \A i \in DOMAIN FunctionTail :
           /\ FunctionTail[i].op \notin {"br", "cbr", "label"}
           /\ FunctionTail[i].fn = functions
  BY TailOps
<1>7. LabelTaken' /\ PlacedApart' /\ NoFallThrough'
  BY <1>1, <1>5, <1>6, LabelsStay
<1>8. /\ \A f : /\ LabelsOf(f, BranchOps)' = LabelsOf(f, BranchOps)
                /\ LabelsOf(f, {"label"})' = LabelsOf(f, {"label"})
      /\ \A i \in Lines' : \/ i \in Lines /\ out'[i] = out[i]
                           \/ \E k \in DOMAIN FunctionTail : out'[i] = FunctionTail[k]
  BY <1>1, <1>6, OutputUnlabelled
<1>9. PICK f \in Nat : f = functions
  BY DEF TypeOK
<1>10. LabelsOf(f, BranchOps) = LabelsOf(f, {"label"})
  <2>1. \A i \in DOMAIN todo : Goes(todo[i]) = {} /\ Places(todo[i]) = {}
    BY <1>2, <1>3, <1>4, EntryLabels
  <2>2. /\ UNION {Goes(todo[i]) : i \in DOMAIN todo} = {}
        /\ UNION {Places(todo[i]) : i \in DOMAIN todo} = {}
    BY <2>1
  <2> QED
    BY <1>9, <2>2 DEF CInv, Balanced
<1>11. Balanced'
  <2>1. /\ LabelsOf(functions, BranchOps)' = LabelsOf(f, BranchOps)'
        /\ LabelsOf(functions, {"label"})' = LabelsOf(f, {"label"})'
    BY <1>1, <1>9 DEF LabelsOf
  <2>2. /\ (UNION {Goes(todo[i]) : i \in DOMAIN todo})' = {}
        /\ (UNION {Places(todo[i]) : i \in DOMAIN todo})' = {}
    BY <1>5
  <2>3. LabelsOf(functions, BranchOps)' = LabelsOf(functions, {"label"})'
    BY <1>8, <1>10, <2>1
  <2> QED
    BY <2>2, <2>3, Zenon DEF Balanced
<1>12. Closed'
  <2>1. \A i \in Lines' : out'[i].fn <= functions'
    <3>1. functions' = functions /\ functions \in Nat
      BY <1>1 DEF TypeOK
    <3> QED
      BY <1>6, <1>8, <3>1 DEF CInv, Closed
  <2>2. ASSUME NEW g \in 0..functions', \E i \in Lines' : out'[i].fn = g /\ out'[i].op = "end"
        PROVE  LabelsOf(g, BranchOps)' = LabelsOf(g, {"label"})'
    <3>1. g = f \/ \E i \in Lines : out[i].fn = g /\ out[i].op = "end"
      BY <1>6, <1>8, <1>9, <2>2
    <3>2. g \in 0..functions
      BY <1>1, <2>2
    <3>3. LabelsOf(g, BranchOps) = LabelsOf(g, {"label"})
      BY <1>10, <3>1, <3>2 DEF CInv, Closed
    <3> QED
      BY <1>8, <3>3
  <2> QED
    BY <1>5, <2>1, <2>2 DEF Closed
<1> QED
  BY <1>7, <1>11, <1>12 DEF CInv

-----------------------------------------------------------------------------
LEMMA InitCInv ==
  ASSUME Init
  PROVE  CInv
<1>1. /\ Lines = {} /\ DOMAIN todo = {} /\ next_label = 0 /\ functions = 0
  BY DEF Init, Lines
<1>2. \A f, ops : LabelsOf(f, ops) = {}
  BY <1>1 DEF LabelsOf
<1> QED
  BY <1>1, <1>2 DEF CInv, LabelTaken, PlacedApart, Balanced, Closed, NoFallThrough

LEMMA NextCInv ==
  ASSUME SymbolsAssumption, TypeOK, CInv, [Next]_vars
  PROVE  CInv'
<1>1. CASE VisitNull \/ Finish \/ UNCHANGED vars
  BY <1>1, NothingLabelled DEF VisitNull, Finish, vars, program
<1>2. CASE ExpressionStep
  BY <1>2, ExpressionLabels
<1>3. CASE InstructionStep
  BY <1>1, <1>3, InstructionUnlabelled, CondLabels, WhileDoLabels, ForLabels, ResumedLabels,
     ReturnLabels, DeclareLocalLabels DEF InstructionStep
<1>4. CASE ExternalStep
  BY <1>1, <1>4, DeclareGlobalLabels, FunctionBeginLabels, FunctionEndLabels DEF ExternalStep
<1> QED
  BY <1>1, <1>2, <1>3, <1>4 DEF Next, Stopped

LEMMA CInvImplies ==
  ASSUME CInv, TypeOK
  PROVE  BranchesResolved
<1>1. ASSUME NEW i \in Lines, NEW j \in Lines, i # j, out[i].op = "label", out[j].op = "label"
      PROVE  out[i].to # out[j].to
  BY <1>1 DEF CInv, LabelTaken, PlacedApart
<1>2. ASSUME NEW i \in Lines, out[i].op = "end"
      PROVE  LabelsOf(out[i].fn, BranchOps) = LabelsOf(out[i].fn, {"label"})
  <2>1. out[i].fn \in Nat /\ out[i].fn <= functions /\ functions \in Nat
    BY <1>2, WrittenTyped DEF CInv, Closed, TypeOK
  <2> QED
    BY <1>2, <2>1 DEF CInv, Closed
<1> QED
  BY <1>1, <1>2 DEF BranchesResolved, LabelsOf, BranchOps

LEMMA ControlFlow == Spec => []CInv
<1>1. Init => CInv
  BY InitCInv
<1>2. TypeOK /\ CInv /\ [Next]_vars => CInv'
  BY NextCInv, SymbolsAssumption
<1> QED
  BY <1>1, <1>2, TypeCorrect, PTL DEF Spec

(* However instructions are nested, no label is placed twice, and a function  *)
(* that has been closed places exactly the labels it branches to (the label   *)
(* objects that the visit methods of Cond_Instruction, While_Instruction,     *)
(* Do_Instruction and For_Instruction take before they visit their parts).    *)
THEOREM BranchesAlwaysResolved == Spec => []BranchesResolved
<1>1. TypeOK /\ CInv => BranchesResolved
  BY CInvImplies
<1> QED
  BY <1>1, TypeCorrect, ControlFlow, PTL

(* The line before a label is always a branch: a basic block never runs into  *)
(* the next (every visit method that places a label writes a br before it).   *)
THEOREM NeverFallsThrough == Spec => []NoFallThrough
<1>1. CInv => NoFallThrough
  BY DEF CInv
<1> QED
  BY <1>1, ControlFlow, PTL
=============================================================================
