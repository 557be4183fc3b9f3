--------------------------- MODULE Registers_proofs ---------------------------
(***************************************************************************)
(* Theorems about the registers of the output: none is defined twice, and    *)
(* none that is freed is used after it.                                      *)
(*                                                                          *)
(* Every step of the generator is put in one of a few forms, by what it does *)
(* to the stack and to the names of nodes: a visit method begins, ends, or    *)
(* does what needs no name; a declaration introduces a variable; a return    *)
(* resumes.  RInv says of nodes whose names are temporaries that their names  *)
(* are apart and which visit methods are under way; FInv says of the strings  *)
(* to be freed, and DInv of the registers defined so far, what they are.      *)
(***************************************************************************)
EXTENDS Values_proofs

(* A temporary, "%tmp.k".                                                    *)
IsTmp(r) == \E k \in Nat : r = Tmp(k)

(* Temporaries are numbered by the size that register_reference_ had, so all  *)
(* numbers given are below its size, and no two nodes share one.              *)
Numbered ==
  \A n \in DOMAIN register_reference_ : \A k \in Nat :
    register_reference_[n] = Tmp(k) => k < Cardinality(DOMAIN register_reference_)

Apart ==
  \A m, n \in DOMAIN register_reference_ :
    IsTmp(register_reference_[m]) /\ register_reference_[m] = register_reference_[n] => m = n

(* The visit method of a node is under way at most once, and has named it.    *)
OwnersTmp ==
  \A i \in DOMAIN todo : \A n \in Owns(todo[i]) :
    n \in DOMAIN register_reference_ /\ IsTmp(register_reference_[n])

OwnedOnce ==
  \A i, j \in DOMAIN todo : i # j => Owns(todo[i]) \intersect Owns(todo[j]) = {}

RInv == Numbered /\ Apart /\ OwnersTmp /\ OwnedOnce

(* The nodes whose visit methods are under way, and the temporaries of others: *)
(* those that a line may have defined.                                        *)
Unfinished == UNION {Owns(todo[i]) : i \in DOMAIN todo}

Finished(r) ==
  IsTmp(r) /\ \E n \in DOMAIN register_reference_ : n \notin Unfinished /\ r = register_reference_[n]

(* No variable is called tmp: %tmp.1 would be a load of it.                   *)
NoTmpSymbol == \A s \in Symbols : NameOf[s] # "tmp"

-----------------------------------------------------------------------------
LEMMA RegisterFields ==
  /\ \A k : /\ Tmp(k).name = "tmp" /\ Tmp(k).id = k
            /\ StrReg(k).name = "str" /\ StrReg(k).id = k
  /\ ReturnCopy.name = "tmp" /\ ReturnCopy.id = NoId
  /\ NoReg.id = NoId /\ Literal.id = NoId
  /\ \A s, n : Load(s, n).name = NameOf[s] /\ Load(s, n).id = n
  /\ \A s : /\ Pointer(s).name = NameOf[s] /\ Pointer(s).id = NoId
            /\ Incoming(s).name = NameOf[s] /\ Incoming(s).id = NoId
            /\ Reg(NameOf[s], "pointer", NoId).name = NameOf[s]
            /\ Reg(NameOf[s], "pointer", NoId).id = NoId
<1>1. \A name, sub, id : Reg(name, sub, id).name = name /\ Reg(name, sub, id).id = id
  BY Zenon DEF Reg
<1>2. \A k : /\ Tmp(k).name = "tmp" /\ Tmp(k).id = k
           /\ StrReg(k).name = "str" /\ StrReg(k).id = k
  BY <1>1, ZenonT(30) DEF Tmp, StrReg
<1>3. /\ ReturnCopy.name = "tmp" /\ ReturnCopy.id = NoId
      /\ NoReg.id = NoId /\ Literal.id = NoId
  BY <1>1, ZenonT(30) DEF ReturnCopy, NoReg, Literal
<1>4. \A s, n : Load(s, n).name = NameOf[s] /\ Load(s, n).id = n
  BY <1>1 DEF Load
<1>5. \A s : /\ Pointer(s).name = NameOf[s] /\ Pointer(s).id = NoId
           /\ Incoming(s).name = NameOf[s] /\ Incoming(s).id = NoId
           /\ Reg(NameOf[s], "pointer", NoId).name = NameOf[s]
           /\ Reg(NameOf[s], "pointer", NoId).id = NoId
  <2> SUFFICES ASSUME NEW s
               PROVE  /\ Pointer(s).name = NameOf[s] /\ Pointer(s).id = NoId
                      /\ Incoming(s).name = NameOf[s] /\ Incoming(s).id = NoId
                      /\ Reg(NameOf[s], "pointer", NoId).name = NameOf[s]
                      /\ Reg(NameOf[s], "pointer", NoId).id = NoId
    OBVIOUS
  <2>1. \A sub : Reg(NameOf[s], sub, NoId).name = NameOf[s] /\ Reg(NameOf[s], sub, NoId).id = NoId
    BY <1>1
  <2>2. (\E sub : Pointer(s) = Reg(NameOf[s], sub, NoId)) /\ \E sub : Incoming(s) = Reg(NameOf[s], sub, NoId)
    BY Zenon DEF Pointer, Incoming
  <2> QED
    BY <2>1, <2>2
<1> QED
  BY <1>2, <1>3, <1>4, <1>5

LEMMA NotTmps ==
  /\ \A r : IsTmp(r) => r.name = "tmp" /\ r.id \in Nat
  /\ ~IsTmp(NoReg) /\ ~IsTmp(Literal) /\ ~IsTmp(ReturnCopy)
  /\ \A k : ~IsTmp(StrReg(k))
  /\ \A s : ~IsTmp(Pointer(s)) /\ ~IsTmp(Incoming(s))
  /\ \A s \in Symbols : NoTmpSymbol => \A n : ~IsTmp(Load(s, n))
<1>1. \A r : IsTmp(r) => r.name = "tmp" /\ r.id \in Nat
  BY RegisterFields DEF IsTmp
<1>2. NoId \notin Nat /\ "str" # "tmp"
  BY DEF NoId
<1>3. ~IsTmp(NoReg) /\ ~IsTmp(Literal) /\ ~IsTmp(ReturnCopy)
  BY <1>1, <1>2, RegisterFields, Zenon
<1>4. \A k : ~IsTmp(StrReg(k))
  BY <1>1, <1>2, RegisterFields, Zenon
<1>5. \A s : ~IsTmp(Pointer(s)) /\ ~IsTmp(Incoming(s))
  BY <1>1, <1>2, RegisterFields
<1>6. \A s \in Symbols : NoTmpSymbol => \A n : ~IsTmp(Load(s, n))
  BY <1>1, RegisterFields DEF NoTmpSymbol
<1> QED
  BY <1>1, <1>3, <1>4, <1>5, <1>6

-----------------------------------------------------------------------------
(* What a step does to the call stack and to register_reference_: a new node  *)
(* is named, with a temporary if the rest of its visit method will define it. *)
Names(items) ==
  /\ todo # <<>> /\ IsTuple(items) /\ Become(items)
  /\ \/ UNCHANGED register_reference_ /\ \A i \in DOMAIN items : Owns(items[i]) = {}
     \/ /\ Visits(Top) = {Top.node}
        /\ \E r : /\ Refer(Top.node, r)
                  /\ \/ r = FreshTmp
                     \/ ~IsTmp(r) /\ \A i \in DOMAIN items : Owns(items[i]) = {}
        /\ \A i \in DOMAIN items : Owns(items[i]) \subseteq {Top.node}
        /\ \A i, j \in DOMAIN items : i # j => Owns(items[i]) \intersect Owns(items[j]) = {}

LEMMA TopEntry ==
  ASSUME TypeOK, todo # <<>>
  PROVE  1 \in DOMAIN todo /\ Top = todo[1] /\ Top \in StackItem
BY EmptySeq, LenProperties, HeadTailProperties DEF TypeOK, Top

LEMMA NewName ==
  ASSUME IInv, VInv, RInv, NEW items, Names(items)
  PROVE  /\ \A n \in DOMAIN register_reference_ :
              n \in DOMAIN register_reference_' /\ register_reference_'[n] = register_reference_[n]
         /\ \A n \in DOMAIN register_reference_' :
              \/ n \in DOMAIN register_reference_
              \/ /\ n \in Visits(Top)
                 /\ \/ ~IsTmp(register_reference_'[n])
                    \/ register_reference_'[n] = FreshTmp
         /\ Numbered' /\ Apart'
<1> DEFINE D == DOMAIN register_reference_
           c == Cardinality(D)
<1>1. TypeOK /\ Numbered /\ Apart /\ Unvisited /\ IsFiniteSet(D) /\ c \in Nat
  BY FS_CardinalityType DEF IInv, TypeOK, RInv, VInv
<1>2. CASE UNCHANGED register_reference_
  BY <1>1, <1>2 DEF Numbered, Apart
<1>3. ASSUME Visits(Top) = {Top.node}, NEW r, Refer(Top.node, r), r = FreshTmp \/ ~IsTmp(r)
      PROVE  /\ \A n \in D : n \in D' /\ register_reference_'[n] = register_reference_[n]
             /\ \A n \in D' : \/ n \in D
                              \/ /\ n \in Visits(Top)
                                 /\ \/ ~IsTmp(register_reference_'[n])
                                    \/ register_reference_'[n] = FreshTmp
             /\ Numbered' /\ Apart'
  <2> DEFINE t == Top.node
  <2>1. 1 \in DOMAIN todo /\ Top = todo[1]
    BY <1>1, TopEntry DEF Names
  <2>2. t \notin D
    BY <1>1, <1>3, <2>1 DEF Unvisited
  <2>3. /\ D' = D \union {t} /\ register_reference_'[t] = r
        /\ \A n \in D : register_reference_'[n] = register_reference_[n]
    BY <1>3, <2>2 DEF Refer, With
  <2>4. Cardinality(D') = c + 1
    BY <1>1, <2>2, <2>3, FS_AddElement
  <2>5. r = Tmp(c) \/ ~IsTmp(r)
    BY <1>3 DEF FreshTmp
  <2>6. \A k \in Nat : r = Tmp(k) => k = c
    BY <2>5, RegisterFields DEF IsTmp
  <2>7. \A n \in D : register_reference_[n] # Tmp(c)
    BY <1>1 DEF Numbered
  <2> HIDE DEF D, c, t
  <2>8. Numbered'
    <3> SUFFICES ASSUME NEW n \in D', NEW k \in Nat, register_reference_'[n] = Tmp(k)
                 PROVE  k < c + 1
      BY <2>4 DEF Numbered, D
    <3>1. CASE n \in D
      BY <1>1, <2>3, <3>1 DEF Numbered, D, c
    <3>2. CASE n = t
      BY <1>1, <2>3, <2>6, <3>2
    <3> QED
      BY <2>3, <3>1, <3>2
  <2>9. Apart'
    <3> SUFFICES ASSUME NEW m \in D', NEW n \in D', IsTmp(register_reference_'[m]),
                        register_reference_'[m] = register_reference_'[n]
                 PROVE  m = n
      BY DEF Apart, D
    <3>1. CASE m \in D /\ n \in D
      BY <1>1, <2>3, <3>1 DEF Apart, D
    <3>2. CASE m = t /\ n \in D
      BY <2>3, <2>5, <2>7, <3>2
    <3>3. CASE n = t /\ m \in D
      BY <2>3, <2>5, <2>7, <3>3
    <3> QED
      BY <2>3, <3>1, <3>2, <3>3
  <2> QED
    BY <1>3, <2>3, <2>8, <2>9 DEF D, t
<1> QED
  BY <1>2, <1>3 DEF Names
(* The entries of the new call stack.                                        *)
LEMMA Entries ==
  ASSUME TypeOK, todo # <<>>, NEW items, IsTuple(items), Become(items)
  PROVE  \A i \in DOMAIN todo' :
           \/ i \in DOMAIN items /\ todo'[i] = items[i]
           \/ \E m \in DOMAIN todo : m > 1 /\ i = m + Len(items) - 1 /\ todo'[i] = todo[m]
<1>1. IsReplaced(todo, items, todo')
  BY Stacked
<1>2. /\ DOMAIN todo = 1..Len(todo) /\ Len(todo) \in Nat /\ Len(todo) > 0
      /\ DOMAIN items = 1..Len(items) /\ Len(items) \in Nat
      /\ DOMAIN todo' = 1..Len(items) + Len(todo) - 1
      /\ \A i \in DOMAIN items : todo'[i] = items[i]
      /\ \A k \in 2..Len(todo) : todo'[k + Len(items) - 1] = todo[k]
  BY <1>1 DEF IsReplaced
<1> SUFFICES ASSUME NEW i \in DOMAIN todo', i \notin DOMAIN items
             PROVE  \E m \in DOMAIN todo : m > 1 /\ i = m + Len(items) - 1 /\ todo'[i] = todo[m]
  BY <1>2
<1>3. i - Len(items) + 1 \in 2..Len(todo) /\ i = (i - Len(items) + 1) + Len(items) - 1
  BY <1>2
<1>4. i - Len(items) + 1 \in DOMAIN todo /\ i - Len(items) + 1 > 1
  BY <1>2, <1>3, SMTT(30)
<1> QED
  BY <1>2, <1>3, <1>4

LEMMA NamesKept ==
  ASSUME IInv, VInv, RInv, NEW items, Names(items)
  PROVE  /\ RInv'
         /\ \A r : Finished(r) => Finished(r)'
         /\ \A n \in DOMAIN register_reference_' :
              n \in DOMAIN register_reference_ \/ ~Finished(register_reference_'[n])
         /\ UNCHANGED register_reference_ =>
              \A n \in Owns(Top) : Finished(register_reference_[n])'
<1> DEFINE D == DOMAIN register_reference_
           c == Cardinality(D)
<1>1. /\ TypeOK /\ NotVisitedAgain /\ Unvisited /\ Numbered /\ OwnersTmp /\ OwnedOnce
      /\ IsFiniteSet(D) /\ c \in Nat
  BY FS_CardinalityType DEF IInv, TypeOK, Nodes, RInv, VInv
<1>2. 1 \in DOMAIN todo /\ Top = todo[1] /\ DOMAIN todo \subseteq Int
  BY <1>1, TopEntry, LenProperties DEF Names, TypeOK
<1>3. \A i \in DOMAIN todo' :
        \/ i \in DOMAIN items /\ todo'[i] = items[i]
        \/ \E m \in DOMAIN todo : m > 1 /\ i = m + Len(items) - 1 /\ todo'[i] = todo[m]
  BY <1>1, Entries DEF Names
<1>4. /\ \A n \in D : n \in D' /\ register_reference_'[n] = register_reference_[n]
      /\ \A n \in D' : \/ n \in D
                       \/ /\ n \in Visits(Top)
                          /\ \/ ~IsTmp(register_reference_'[n])
                             \/ register_reference_'[n] = FreshTmp
      /\ Numbered' /\ Apart'
  BY NewName
<1>5. FreshTmp = Tmp(c) /\ IsTmp(FreshTmp)
  BY <1>1 DEF FreshTmp, IsTmp
<1>6. \A i \in DOMAIN items : \A n \in Owns(items[i]) :
        /\ n \in Visits(Top) /\ n \in D' /\ register_reference_'[n] = FreshTmp
        /\ ~UNCHANGED register_reference_
  <2> SUFFICES ASSUME NEW i \in DOMAIN items, NEW n \in Owns(items[i])
               PROVE  /\ n \in Visits(Top) /\ n \in D' /\ register_reference_'[n] = FreshTmp
                      /\ ~UNCHANGED register_reference_
    OBVIOUS
  <2>1. n = Top.node /\ Visits(Top) = {n} /\ Refer(n, FreshTmp)
    BY DEF Names
  <2>2. n \in D' /\ register_reference_'[n] = FreshTmp
    BY <2>1 DEF Refer, With
  <2>3. n \notin D
    BY <1>1, <1>2, <2>1 DEF Unvisited
  <2> QED
    BY <2>1, <2>2, <2>3
<1> HIDE DEF D, c
<1>7. OwnersTmp'
  <2>1. \A i \in DOMAIN items : \A n \in Owns(items[i]) : n \in D' /\ IsTmp(register_reference_'[n])
    BY <1>5, <1>6
  <2>2. \A i \in DOMAIN todo : \A n \in Owns(todo[i]) : n \in D' /\ IsTmp(register_reference_'[n])
    BY <1>1, <1>4 DEF OwnersTmp, D
  <2>3. \A i \in DOMAIN todo' : \A n \in Owns(todo'[i]) : n \in D' /\ IsTmp(register_reference_'[n])
    BY <1>3, <2>1, <2>2
  <2>4. \A i : Owns(todo[i])' = Owns(todo'[i])
    BY DEF Owns
  <2> QED
    BY <2>3, <2>4 DEF OwnersTmp, D
<1>8. OwnedOnce'
  <2>1. \A i, j \in DOMAIN items : i # j => Owns(items[i]) \intersect Owns(items[j]) = {}
    BY DEF Names
  <2>2. \A i \in DOMAIN items, m \in DOMAIN todo : Owns(items[i]) \intersect Owns(todo[m]) = {}
    BY <1>1, <1>2, <1>6 DEF NotVisitedAgain
  <2>3. ASSUME NEW i \in DOMAIN todo', NEW j \in DOMAIN todo', i # j
        PROVE  Owns(todo'[i]) \intersect Owns(todo'[j]) = {}
    <3>1. CASE i \in DOMAIN items /\ todo'[i] = items[i] /\ j \in DOMAIN items /\ todo'[j] = items[j]
      BY <2>1, <2>3, <3>1
    <3>2. ASSUME i \in DOMAIN items, todo'[i] = items[i], NEW m \in DOMAIN todo, todo'[j] = todo[m]
          PROVE  Owns(todo'[i]) \intersect Owns(todo'[j]) = {}
      BY <2>2, <3>2
    <3>3. ASSUME j \in DOMAIN items, todo'[j] = items[j], NEW m \in DOMAIN todo, todo'[i] = todo[m]
          PROVE  Owns(todo'[i]) \intersect Owns(todo'[j]) = {}
      BY <2>2, <3>3
    <3>4. ASSUME NEW m \in DOMAIN todo, i = m + Len(items) - 1, todo'[i] = todo[m],
                 NEW k \in DOMAIN todo, j = k + Len(items) - 1, todo'[j] = todo[k]
          PROVE  Owns(todo'[i]) \intersect Owns(todo'[j]) = {}
      <4>1. m # k
        BY <2>3, <3>4
      <4> QED
        BY <1>1, <3>4, <4>1 DEF OwnedOnce
    <3> QED
      BY <1>3, <3>1, <3>2, <3>3, <3>4
  <2>4. \A i : Owns(todo[i])' = Owns(todo'[i])
    BY DEF Owns
  <2> QED
    BY <2>3, <2>4 DEF OwnedOnce
<1>9. \A n \in Unfinished' :
        \/ \E i \in DOMAIN items : n \in Owns(items[i])
        \/ \E m \in DOMAIN todo : m > 1 /\ n \in Owns(todo[m])
  <2>1. Unfinished' = UNION {Owns(todo'[i]) : i \in DOMAIN todo'}
    BY DEF Unfinished, Owns
  <2> QED
    BY <1>3, <2>1
<1>10. ASSUME NEW r, Finished(r)
       PROVE  Finished(r)'
  <2>1. PICK n \in D : n \notin Unfinished /\ r = register_reference_[n] /\ IsTmp(r)
    BY <1>10 DEF Finished, D
  <2>2. n \notin Visits(Top)
    BY <1>1, <1>2, <2>1 DEF Unvisited, D
  <2>3. n \notin Unfinished'
    BY <1>6, <1>9, <2>1, <2>2 DEF Unfinished
  <2> QED
    BY <1>4, <2>1, <2>3 DEF Finished, D, IsTmp
<1>11. ASSUME NEW n \in D', n \notin D, Finished(register_reference_'[n])
       PROVE  FALSE
  <2>1. PICK m \in D : register_reference_'[n] = register_reference_[m]
    BY <1>11 DEF Finished, D
  <2>2. register_reference_[m] = Tmp(c)
    BY <1>4, <1>5, <1>11, <2>1 DEF Finished
  <2> QED
    BY <1>1, <2>1, <2>2 DEF Numbered, D, c
<1>12. ASSUME UNCHANGED register_reference_, NEW n \in Owns(Top)
       PROVE  Finished(register_reference_[n])'
  <2>1. n \in D /\ IsTmp(register_reference_[n])
    BY <1>1, <1>2 DEF OwnersTmp, D
  <2>2. n \notin Unfinished'
    BY <1>1, <1>2, <1>6, <1>9, <1>12 DEF OwnedOnce
  <2> QED
    BY <1>12, <2>1, <2>2 DEF Finished, D, IsTmp
<1> QED
  BY <1>4, <1>7, <1>8, <1>10, <1>11, <1>12 DEF RInv, D

-----------------------------------------------------------------------------
(* The steps of the visitor: the entries they put on the stack, the lines they *)
(* write and what these define and use.                                       *)

(* The node of an expression of type string that is still to be computed.     *)
StringNode(it) ==
  IF it.op \in {"expr", "binary"} /\ it.type = "string" THEN {it.node} ELSE {}

(* New entries read new nodes, lines what the entry on top reads; a line that  *)
(* frees is no such line.                                                     *)
Walks(items, lines) ==
  /\ Names(items) /\ IsTuple(lines) /\ Emit(lines)
  /\ nodes' \in Nat /\ nodes' >= nodes
  /\ \A i \in DOMAIN items : Uses(items[i]) \subseteq nodes..nodes' - 1
  /\ \A i \in DOMAIN items :
       StringNode(items[i]) \subseteq StringNode(Top) \union nodes..nodes' - 1
  /\ \A i \in DOMAIN items : items[i].op = "return" /\ items[i].type = "int" =>
       \A j \in DOMAIN items : items[i].arg \notin StringNode(items[j])
  /\ \A i \in DOMAIN lines :
       /\ lines[i].op # "free"
       /\ \A r \in lines[i].use : ~IsTmp(r) \/ \E a \in Uses(Top) : r = register_reference_[a]

Gives(lines) ==
  \/ \A i \in DOMAIN lines : LineDefines(lines[i]) = {}
  \/ /\ DOMAIN lines = {1}
     /\ \E r :
          /\ LineDefines(lines[1]) = {r}
          /\ \/ \E s \in Symbols : VisitVariable(s) /\ r = Load(s, VarCount(s))
             \/ VisitConstString /\ r = StrReg(const_string_next_id_)
             \/ /\ UNCHANGED register_reference_ /\ Top.node \in Owns(Top)
                /\ r = register_reference_[Top.node]

Slates ==
  \/ UNCHANGED strings_to_free_
  \/ /\ UNCHANGED register_reference_ /\ Top.op = "binary" /\ Top.type = "string"
     /\ strings_to_free_' = strings_to_free_ \union {register_reference_[Top.node]}

CountsGrow ==
  /\ const_string_next_id_' >= const_string_next_id_
  /\ \A s \in Symbols : variable_counts_'[s] >= variable_counts_[s]
  /\ declared \subseteq declared'

Runs == \E items, lines : Walks(items, lines) /\ Gives(lines) /\ Slates /\ CountsGrow

LEMMA CountsStay ==
  ASSUME TypeOK, UNCHANGED <<const_string_next_id_, variable_counts_>>, declared \subseteq declared'
  PROVE  CountsGrow
<1>1. const_string_next_id_ \in Nat /\ \A s \in Symbols : variable_counts_[s] \in Nat
  BY DEF TypeOK
<1> QED
  BY <1>1 DEF CountsGrow

LEMMA NoEntries ==
  IsTuple(<<>>) /\ DOMAIN <<>> = {}
BY ShortTuples

LEMMA OneLine ==
  \A l : IsTuple(<<l>>) /\ DOMAIN <<l>> = {1} /\ <<l>>[1] = l
<1>1. \A l : DOMAIN <<l>> = {1} /\ <<l>>[1] = l
  OBVIOUS
<1> QED
  BY <1>1, ShortTuples

(* An expression without operands, whose text is no temporary.                *)
LEMMA TerminalRuns ==
  ASSUME TypeOK, At("expr"), Become(<<>>), UNCHANGED nodes,
         NEW r, ~IsTmp(r), Refer(Top.node, r),
         NEW lines, IsTuple(lines), Emit(lines),
         \A i \in DOMAIN lines : lines[i].op # "free" /\ lines[i].use = {},
         Gives(lines), UNCHANGED strings_to_free_, CountsGrow
  PROVE  Runs
<1>1. todo # <<>> /\ Top.op = "expr" /\ nodes \in Nat
  BY TopTyped DEF TypeOK
<1>2. Visits(Top) = {Top.node}
  BY <1>1 DEF Visits
<1>3. Names(<<>>)
  BY <1>1, <1>2, NoEntries DEF Names
<1>4. Walks(<<>>, lines)
  BY <1>1, <1>3, NoEntries DEF Walks
<1> QED
  BY <1>4 DEF Runs, Slates

LEMMA TerminalsRun ==
  ASSUME NoTmpSymbol, IInv,
         (\E s \in Symbols : VisitVariable(s)) \/ VisitConstInteger \/ VisitConstString
  PROVE  Runs
<1>1. TypeOK
  BY DEF IInv
<1>2. ASSUME NEW s \in Symbols, VisitVariable(s)
      PROVE  Runs
  <2> DEFINE r == Load(s, VarCount(s))
             l == LoadFrom(s, r)
             lines == <<l>>
  <2>1. /\ At("expr") /\ Become(<<>>) /\ Emit(lines) /\ Refer(Top.node, r)
        /\ UNCHANGED <<nodes, strings_to_free_, const_string_next_id_, declared>>
        /\ variable_counts_' = [variable_counts_ EXCEPT ![s] = VarCount(s)]
    BY <1>2 DEF VisitVariable, program, scopes, strings, frees
  <2>2. VarCount(s) = variable_counts_[s] + 1 /\ \A x \in Symbols : variable_counts_[x] \in Nat
    BY <1>1 DEF TypeOK, VarCount
  <2>3. r.id = VarCount(s) /\ ~IsTmp(r) /\ r # NoReg
    BY <2>2, RegisterFields, NotTmps DEF NoId
  <2>4. \E x \in Symbols : VisitVariable(x) /\ r = Load(x, VarCount(x))
    BY <1>2
  <2> HIDE DEF r
  <2>5. l.op = "load" /\ l.def = r /\ l.use = {}
    BY DEF LoadFrom, IR
  <2> HIDE DEF l
  <2>6. LineDefines(l) = {r}
    BY <2>3, <2>5 DEF LineDefines
  <2>7. IsTuple(lines) /\ DOMAIN lines = {1} /\ lines[1] = l
    BY OneLine
  <2> HIDE DEF lines
  <2>8. Gives(lines)
    BY <2>4, <2>6, <2>7 DEF Gives
  <2>9. CountsGrow
    <3>1. const_string_next_id_ \in Nat /\ DOMAIN variable_counts_ = Symbols
      BY <1>1 DEF TypeOK
    <3> QED
      BY <2>1, <2>2, <3>1 DEF CountsGrow
  <2> QED
    BY <1>1, <2>1, <2>3, <2>5, <2>7, <2>8, <2>9, TerminalRuns
<1>3. CASE VisitConstInteger
  <2>1. /\ At("expr") /\ Become(<<>>) /\ Refer(Top.node, Literal)
        /\ UNCHANGED <<nodes, out, strings_to_free_>>
        /\ UNCHANGED <<const_string_next_id_, variable_counts_, declared>>
    BY <1>3 DEF VisitConstInteger, program, scopes, strings, frees
  <2>2. Emit(<<>>) /\ Gives(<<>>) /\ CountsGrow
    BY <1>1, <2>1, NoLines, NoEntries, CountsStay DEF Gives
  <2> QED
    BY <1>1, <2>1, <2>2, NoEntries, NotTmps, TerminalRuns
<1>4. CASE VisitConstString
  <2> DEFINE r == StrReg(const_string_next_id_)
             l == Plain("gep", r, {})
             lines == <<l>>
  <2>1. /\ At("expr") /\ Become(<<>>) /\ Emit(lines) /\ Refer(Top.node, r)
        /\ UNCHANGED <<nodes, strings_to_free_, variable_counts_, declared>>
        /\ const_string_next_id_' = const_string_next_id_ + 1
    BY <1>4 DEF VisitConstString, program, scopes, strings, frees
  <2>2. const_string_next_id_ \in Nat /\ \A x \in Symbols : variable_counts_[x] \in Nat
    BY <1>1 DEF TypeOK
  <2>3. ~IsTmp(r) /\ r # NoReg
    BY <2>2, RegisterFields, NotTmps DEF NoId
  <2>4. VisitConstString /\ r = StrReg(const_string_next_id_)
    BY <1>4
  <2> HIDE DEF r
  <2>5. l.op = "gep" /\ l.def = r /\ l.use = {}
    BY DEF Plain, IR
  <2> HIDE DEF l
  <2>6. LineDefines(l) = {r}
    BY <2>3, <2>5 DEF LineDefines
  <2>7. IsTuple(lines) /\ DOMAIN lines = {1} /\ lines[1] = l
    BY OneLine
  <2> HIDE DEF lines
  <2>8. Gives(lines)
    BY <2>4, <2>6, <2>7 DEF Gives
  <2>9. CountsGrow
    BY <2>1, <2>2 DEF CountsGrow
  <2> QED
    BY <1>1, <2>1, <2>3, <2>5, <2>7, <2>8, <2>9, TerminalRuns
<1> QED
  BY <1>2, <1>3, <1>4

(* An operator, call or assignment: its operands are visited, and then it.     *)
LEMMA OperatorRuns ==
  ASSUME IInv, NEW op \in {"expr", "cond", "assign"}, At(op),
         NEW items, IsTuple(items), Become(items), Refer(Top.node, FreshTmp),
         nodes' \in Nat, nodes' >= nodes,
         \A i \in DOMAIN items :
           /\ items[i].op # "return" /\ Uses(items[i]) \subseteq nodes..nodes' - 1
           /\ StringNode(items[i]) \subseteq StringNode(Top) \union nodes..nodes' - 1
         ,
         \A i \in DOMAIN items : Owns(items[i]) \subseteq {Top.node},
         \A i, j \in DOMAIN items : i # j => Owns(items[i]) \intersect Owns(items[j]) = {},
         UNCHANGED <<out, strings_to_free_, const_string_next_id_, variable_counts_, declared>>
  PROVE  Runs
<1>1. TypeOK /\ todo # <<>> /\ Top.op = op
  BY TopTyped DEF IInv
<1>2. Visits(Top) = {Top.node}
  BY <1>1 DEF Visits
<1>3. Names(items)
  BY <1>1, <1>2 DEF Names
<1>4. Emit(<<>>) /\ Gives(<<>>) /\ CountsGrow
  BY <1>1, NoLines, NoEntries, CountsStay DEF Gives
<1>5. Walks(items, <<>>)
  BY <1>3, <1>4, NoEntries DEF Walks
<1> QED
  BY <1>4, <1>5 DEF Runs, Slates

LEMMA VisitNodes ==
  /\ \A n, t : /\ Owns(ExprItem(n, t)) = {} /\ Uses(ExprItem(n, t)) = {}
               /\ StringNode(ExprItem(n, t)) \subseteq {n} /\ ExprItem(n, t).op = "expr"
  /\ \A n, a : /\ Owns(UnaryRest(n, a)) = {n} /\ Uses(UnaryRest(n, a)) = {a}
               /\ StringNode(UnaryRest(n, a)) = {} /\ UnaryRest(n, a).op = "unary"
  /\ \A n, t, a, b :
       /\ Owns(BinaryRest(n, t, a, b)) = {n} /\ Uses(BinaryRest(n, t, a, b)) = {a, b}
       /\ StringNode(BinaryRest(n, t, a, b)) = IF t = "string" THEN {n} ELSE {}
       /\ BinaryRest(n, t, a, b).op = "binary"
  /\ \A n, t, o, a, b :
       /\ Owns(ConditionRest(n, t, o, a, b)) = {n} /\ Uses(ConditionRest(n, t, o, a, b)) = {a, b}
       /\ StringNode(ConditionRest(n, t, o, a, b)) = {}
       /\ ConditionRest(n, t, o, a, b).op = "condition"
  /\ \A n, t, as : /\ Owns(CallRest(n, t, as)) = {n} /\ Uses(CallRest(n, t, as)) = {as[i] : i \in DOMAIN as}
                /\ StringNode(CallRest(n, t, as)) = {} /\ CallRest(n, t, as).op = "call"
  /\ \A s, a : /\ Owns(AssignRest(s, a)) = {} /\ Uses(AssignRest(s, a)) = {a}
               /\ StringNode(AssignRest(s, a)) = {} /\ AssignRest(s, a).op = "store"
BY DEF ExprItem, UnaryRest, BinaryRest, ConditionRest, CallRest, AssignRest, Owns, Uses, StringNode

LEMMA OperatorsRun ==
  ASSUME IInv,
         \/ VisitUnary \/ VisitBinary
         \/ \E ordering \in BOOLEAN, lhs, rhs \in SourceTypes :
              VisitCondition(ordering, lhs, rhs)
         \/ \E s \in Symbols : VisitAssignment(s)
  PROVE  Runs
<1>1. /\ nodes \in Nat
      /\ \A m : m = nodes + 1 => m \in Nat /\ m >= nodes /\ nodes \in nodes..m - 1
      /\ \A m : m = nodes + 2 => /\ m \in Nat /\ m >= nodes
                                 /\ nodes \in nodes..m - 1 /\ nodes + 1 \in nodes..m - 1
  BY DEF IInv, TypeOK
<1>2. CASE VisitUnary
  <2> DEFINE a == ExprItem(nodes, "int")
             b == UnaryRest(Top.node, nodes)
             s == <<a, b>>
  <2>1. /\ At("expr") /\ Become(s) /\ nodes' = nodes + 1 /\ Refer(Top.node, FreshTmp)
        /\ UNCHANGED <<out, strings_to_free_, const_string_next_id_, variable_counts_, declared>>
    BY <1>2 DEF VisitUnary, program, scopes, strings, frees
  <2>2. /\ Owns(a) = {} /\ Uses(a) = {} /\ StringNode(a) \subseteq {nodes} /\ a.op = "expr"
        /\ Owns(b) = {Top.node} /\ Uses(b) = {nodes} /\ StringNode(b) = {} /\ b.op = "unary"
    BY VisitNodes
  <2> HIDE DEF a, b
  <2>3. IsTuple(s) /\ DOMAIN s = {1, 2} /\ s[1] = a /\ s[2] = b
    BY ShortTuples
  <2> HIDE DEF s
  <2> QED
    BY <1>1, <2>1, <2>2, <2>3, OperatorRuns
<1>3. CASE VisitBinary
  <2> DEFINE a == ExprItem(nodes, Top.type)
             b == ExprItem(nodes + 1, Top.type)
             c == BinaryRest(Top.node, Top.type, nodes, nodes + 1)
             s == <<a, b, c>>
  <2>1. /\ At("expr") /\ Become(s) /\ nodes' = nodes + 2 /\ Refer(Top.node, FreshTmp)
        /\ UNCHANGED <<out, strings_to_free_, const_string_next_id_, variable_counts_, declared>>
    BY <1>3 DEF VisitBinary, program, scopes, strings, frees
  <2>2. /\ Owns(a) = {} /\ Uses(a) = {} /\ StringNode(a) \subseteq {nodes} /\ a.op = "expr"
        /\ Owns(b) = {} /\ Uses(b) = {} /\ StringNode(b) \subseteq {nodes + 1} /\ b.op = "expr"
        /\ Owns(c) = {Top.node} /\ Uses(c) = {nodes, nodes + 1} /\ c.op = "binary"
        /\ StringNode(c) = IF Top.type = "string" THEN {Top.node} ELSE {}
    <3>1. /\ Owns(a) = {} /\ Uses(a) = {} /\ StringNode(a) \subseteq {nodes} /\ a.op = "expr"
          /\ Owns(b) = {} /\ Uses(b) = {} /\ StringNode(b) \subseteq {nodes + 1} /\ b.op = "expr"
      BY DEF ExprItem, Owns, Uses, StringNode
    <3>2. /\ Owns(c) = {Top.node} /\ Uses(c) = {nodes, nodes + 1} /\ c.op = "binary"
          /\ StringNode(c) = IF Top.type = "string" THEN {Top.node} ELSE {}
      BY DEF BinaryRest, Owns, Uses, StringNode
    <3> QED
      BY <3>1, <3>2
  <2> HIDE DEF a, b, c
  <2>3. StringNode(c) \subseteq StringNode(Top)
    <3>0. TypeOK
      BY DEF IInv
    <3>1. Top.op = "expr"
      BY <2>1, <3>0, TopTyped
    <3>2. StringNode(Top) = IF Top.type = "string" THEN {Top.node} ELSE {}
      BY <3>1 DEF StringNode
    <3> QED
      BY <2>2, <3>2
  <2>4. IsTuple(s) /\ DOMAIN s = {1, 2, 3} /\ s[1] = a /\ s[2] = b /\ s[3] = c
    BY ShortTuples
  <2> HIDE DEF s
  <2> QED
    BY <1>1, <2>1, <2>2, <2>3, <2>4, OperatorRuns
<1>4. ASSUME NEW ordering \in BOOLEAN, NEW lhs \in SourceTypes, NEW rhs \in SourceTypes,
             VisitCondition(ordering, lhs, rhs)
      PROVE  Runs
  <2> DEFINE a == ExprItem(nodes, lhs)
             b == ExprItem(nodes + 1, rhs)
             c == ConditionRest(Top.node, lhs, ordering, nodes, nodes + 1)
             s == <<a, b, c>>
  <2>1. /\ At("cond") /\ Become(s) /\ nodes' = nodes + 2 /\ Refer(Top.node, FreshTmp)
        /\ UNCHANGED <<out, strings_to_free_, const_string_next_id_, variable_counts_, declared>>
    BY <1>4 DEF VisitCondition, program, scopes, strings, frees
  <2>2. /\ Owns(a) = {} /\ Uses(a) = {} /\ StringNode(a) \subseteq {nodes} /\ a.op = "expr"
        /\ Owns(b) = {} /\ Uses(b) = {} /\ StringNode(b) \subseteq {nodes + 1} /\ b.op = "expr"
        /\ Owns(c) = {Top.node} /\ Uses(c) = {nodes, nodes + 1} /\ c.op = "condition"
        /\ StringNode(c) = {}
    BY VisitNodes
  <2> HIDE DEF a, b, c
  <2>3. IsTuple(s) /\ DOMAIN s = {1, 2, 3} /\ s[1] = a /\ s[2] = b /\ s[3] = c
    BY ShortTuples
  <2> HIDE DEF s
  <2> QED
    BY <1>1, <2>1, <2>2, <2>3, OperatorRuns
<1>5. ASSUME NEW sym \in Symbols, VisitAssignment(sym)
      PROVE  Runs
  <2> DEFINE a == ExprItem(nodes, TypeOf[sym])
             b == AssignRest(sym, nodes)
             s == <<a, b>>
  <2>1. /\ At("assign") /\ Become(s) /\ nodes' = nodes + 1 /\ Refer(Top.node, FreshTmp)
        /\ UNCHANGED <<out, strings_to_free_, const_string_next_id_, variable_counts_, declared>>
    BY <1>5 DEF VisitAssignment, program, scopes, strings, frees
  <2>2. /\ Owns(a) = {} /\ Uses(a) = {} /\ StringNode(a) \subseteq {nodes} /\ a.op = "expr"
        /\ Owns(b) = {} /\ Uses(b) = {nodes} /\ StringNode(b) = {} /\ b.op = "store"
    BY VisitNodes
  <2> HIDE DEF a, b
  <2>3. IsTuple(s) /\ DOMAIN s = {1, 2} /\ s[1] = a /\ s[2] = b
    BY ShortTuples
  <2> HIDE DEF s
  <2> QED
    BY <1>1, <2>1, <2>2, <2>3, OperatorRuns
<1> QED
  BY <1>2, <1>3, <1>4, <1>5

(* The arguments of a call.                                                  *)
LEMMA CallRuns ==
  ASSUME IInv, NEW k \in Nat, NEW types \in [1..k -> SourceTypes],
         VisitFunctionCall(types)
  PROVE  Runs
<1> DEFINE args == [i \in DOMAIN types |-> ExprItem(nodes + i - 1, types[i])]
           as == [i \in DOMAIN types |-> nodes + i - 1]
           rest == CallRest(Top.node, Top.type, as)
           last == <<rest>>
           s == args \o last
           S == {args[i] : i \in 1..k}
<1>1. /\ At("expr") /\ Become(s) /\ nodes' = nodes + Len(types) /\ Refer(Top.node, FreshTmp)
      /\ UNCHANGED <<out, strings_to_free_, const_string_next_id_, variable_counts_, declared>>
  BY DEF VisitFunctionCall, program, scopes, strings, frees
<1>2. DOMAIN types = 1..k /\ Len(types) = k /\ nodes \in Nat
  BY DEF IInv, TypeOK
<1>3. DOMAIN as = 1..k /\ \A i \in 1..k : as[i] = nodes + i - 1
  BY <1>2
<1> HIDE DEF as
<1>4. /\ Owns(rest) = {Top.node} /\ rest.op = "call" /\ StringNode(rest) = {}
      /\ Uses(rest) = {as[i] : i \in DOMAIN as}
  BY DEF CallRest, Owns, Uses, StringNode
<1>5. /\ DOMAIN args = 1..k /\ args = [i \in 1..k |-> args[i]]
      /\ \A i \in 1..k : /\ Owns(args[i]) = {} /\ Uses(args[i]) = {} /\ args[i].op = "expr"
                         /\ StringNode(args[i]) \subseteq {nodes + i - 1}
  BY <1>2, VisitNodes
<1> HIDE DEF args, rest
<1>6. args \in [1..k -> S]
  BY <1>5
<1> HIDE DEF S
<1>7. args \in Seq(S)
  BY <1>6, SeqDef
<1>8. IsTuple(args) /\ Len(args) = k
  BY <1>5, <1>7, Tuples, LenProperties
<1>9. IsTuple(last) /\ DOMAIN last = {1} /\ last[1] = rest /\ Len(last) = 1
  BY ShortTuples
<1> HIDE DEF last
<1>10. IsJoined(args, last, s)
  BY <1>8, <1>9, Joined
<1> HIDE DEF s
<1>11. /\ IsTuple(s) /\ DOMAIN s = 1..k + 1 /\ s[k + 1] = rest
       /\ \A i \in 1..k : s[i] = args[i]
  BY <1>5, <1>8, <1>9, <1>10 DEF IsJoined
<1>12. \A i \in DOMAIN s : i \in 1..k \/ i = k + 1
  BY <1>11
<1>13. nodes' \in Nat /\ nodes' >= nodes /\ \A i \in 1..k : nodes + i - 1 \in nodes..nodes' - 1
  BY <1>1, <1>2
<1>14. Uses(rest) \subseteq nodes..nodes' - 1
  BY <1>3, <1>4, <1>13
<1>15. \A i \in DOMAIN s :
         /\ s[i].op # "return" /\ Uses(s[i]) \subseteq nodes..nodes' - 1
         /\ StringNode(s[i]) \subseteq StringNode(Top) \union nodes..nodes' - 1
         /\ Owns(s[i]) \subseteq {Top.node}
  BY <1>4, <1>5, <1>11, <1>12, <1>13, <1>14, ZenonT(30)
<1>16. \A i, j \in DOMAIN s : i # j => Owns(s[i]) \intersect Owns(s[j]) = {}
  BY <1>4, <1>5, <1>11, <1>12
<1> QED
  BY <1>1, <1>11, <1>13, <1>15, <1>16, OperatorRuns

(* The rest of an operator, call or assignment writes one line.               *)
LEMMA ResultRuns ==
  ASSUME IInv, NEW op, op \notin {"expr", "cond", "assign"}, At(op), Become(<<>>), UNCHANGED nodes,
         NEW l, Emit(<<l>>), l.op # "free", l.use = {register_reference_[a] : a \in Uses(Top)},
         \/ LineDefines(l) = {}
         \/ Top.node \in Owns(Top) /\ LineDefines(l) = {register_reference_[Top.node]},
         UNCHANGED <<register_reference_, const_string_next_id_, variable_counts_, declared>>,
         Slates
  PROVE  Runs
<1> DEFINE lines == <<l>>
<1>1. TypeOK /\ todo # <<>> /\ Top.op = op /\ nodes \in Nat
  BY TopTyped DEF IInv, TypeOK
<1>2. Names(<<>>)
  BY <1>1, NoEntries DEF Names
<1>3. Emit(lines) /\ IsTuple(lines) /\ DOMAIN lines = {1} /\ lines[1] = l
  BY OneLine
<1> HIDE DEF lines
<1>4. Walks(<<>>, lines)
  BY <1>1, <1>2, <1>3, NoEntries DEF Walks
<1>5. Gives(lines)
  BY <1>3 DEF Gives
<1>6. CountsGrow
  BY <1>1, CountsStay
<1> QED
  BY <1>4, <1>5, <1>6 DEF Runs

LEMMA PlainResult ==
  ASSUME IInv, NEW op \in {"unary", "binary", "condition", "call"}, At(op), Become(<<>>),
         NEW iop \in {"sub", "arith", "concat", "icmp", "equal", "call i32", "call i8*"},
         NEW use, use = {register_reference_[a] : a \in Uses(Top)},
         Emit(<<Plain(iop, register_reference_[Top.node], use)>>),
         UNCHANGED <<nodes, register_reference_, const_string_next_id_, variable_counts_, declared>>,
         Slates
  PROVE  Runs
<1> DEFINE r == register_reference_[Top.node]
           l == Plain(iop, r, use)
<1>1. TypeOK /\ Top.op = op
  BY TopTyped DEF IInv
<1>2. r.name = "tmp" /\ Top.node \in Owns(Top)
  BY <1>1, OwnRegister DEF Owns
<1>3. r # NoReg
  <2>1. NoReg.name # "tmp"
    BY Zenon DEF NoReg, Reg
  <2> QED
    BY <1>2, <2>1, Zenon
<1> HIDE DEF r
<1>4. /\ l.op = iop /\ l.def = r /\ l.use = use
  BY DEF Plain, IR
<1>5. Emit(<<l>>)
  BY DEF r
<1> HIDE DEF l
<1>6. LineDefines(l) = {r} /\ l.op # "free"
  BY <1>3, <1>4 DEF LineDefines
<1> QED
  BY <1>2, <1>4, <1>5, <1>6, ResultRuns DEF r

(* A step that stops the visitor changes nothing of all this.                *)
Rests == UNCHANGED <<todo, nodes, out, register_reference_, strings_to_free_,
                     const_string_next_id_, variable_counts_, declared>>

LEMMA ResultsRun ==
  ASSUME IInv,
         \/ UnaryResumed \/ BinaryResumed \/ ConditionResumed \/ FunctionCallResumed
         \/ AssignmentResumed
  PROVE  Runs \/ Rests
<1>1. TypeOK
  BY DEF IInv
<1> DEFINE two == {register_reference_[Top.lhs], register_reference_[Top.rhs]}
           ref == register_reference_[Top.node]
<1>2. two = {register_reference_[a] : a \in {Top.lhs, Top.rhs}}
  OBVIOUS
<1>3. CASE UnaryResumed
  <2>1. /\ At("unary") /\ Become(<<>>)
        /\ UNCHANGED <<nodes, register_reference_, const_string_next_id_, variable_counts_, declared>>
        /\ Emit(<<Plain("sub", ref, {register_reference_[Top.arg]})>>)
        /\ UNCHANGED strings_to_free_
    BY <1>3 DEF UnaryResumed, program, scopes, strings, frees
  <2>2. Uses(Top) = {Top.arg}
    BY <1>1, <2>1, TopTyped DEF Uses
  <2>3. {register_reference_[Top.arg]} = {register_reference_[a] : a \in Uses(Top)}
    BY <2>2
  <2>4. Slates
    BY <2>1 DEF Slates
  <2> QED
    BY <2>1, <2>3, <2>4, PlainResult
<1>4. CASE BinaryResumed
  <2>1. /\ At("binary") /\ Become(<<>>)
        /\ UNCHANGED <<nodes, register_reference_, const_string_next_id_, variable_counts_, declared>>
        /\ \/ Emit(<<Plain("arith", ref, two)>>) /\ UNCHANGED strings_to_free_
           \/ /\ Emit(<<Plain("concat", ref, two)>>) /\ Top.type # "int"
              /\ strings_to_free_' = strings_to_free_ \union {ref}
    BY <1>4 DEF BinaryResumed, program, scopes, strings
  <2>2. Top.op = "binary" /\ Top \in StackItem
    BY <1>1, <2>1, TopTyped
  <2>3. Top.type = "int" \/ Top.type = "string"
    BY <2>2 DEF StackItem, Visit, Rest, Type
  <2>4. Slates
    BY <2>1, <2>2, <2>3 DEF Slates
  <2>5. Uses(Top) = {Top.lhs, Top.rhs}
    BY <2>2 DEF Uses
  <2> HIDE DEF two
  <2> QED
    BY <1>2, <2>1, <2>4, <2>5, PlainResult
<1>5. CASE ConditionResumed
  <2>1. /\ At("condition") /\ UNCHANGED strings_to_free_
        /\ UNCHANGED <<nodes, register_reference_, const_string_next_id_, variable_counts_, declared>>
        /\ \/ Become(<<>>) /\ Emit(<<Plain("icmp", ref, two)>>)
           \/ Become(<<>>) /\ Emit(<<Plain("equal", ref, two)>>)
           \/ UNCHANGED <<todo, out>>
    BY <1>5 DEF ConditionResumed, program, scopes, strings
  <2>2. Uses(Top) = {Top.lhs, Top.rhs}
    BY <1>1, <2>1, TopTyped DEF Uses
  <2>3. Slates
    BY <2>1 DEF Slates
  <2> HIDE DEF two
  <2>4. CASE UNCHANGED <<todo, out>>
    BY <2>1, <2>4 DEF Rests
  <2> QED
    BY <1>2, <2>1, <2>2, <2>3, <2>4, PlainResult
<1>6. CASE FunctionCallResumed
  <2> DEFINE operands == {register_reference_[Top.args[i]] : i \in DOMAIN Top.args}
  <2>1. /\ At("call") /\ Become(<<>>) /\ UNCHANGED strings_to_free_
        /\ UNCHANGED <<nodes, register_reference_, const_string_next_id_, variable_counts_, declared>>
        /\ Emit(<<Plain(CallOp(Top.type), ref, operands)>>)
    BY <1>6 DEF FunctionCallResumed, program, scopes, strings, frees
  <2>2. Uses(Top) = {Top.args[i] : i \in DOMAIN Top.args}
    BY <1>1, <2>1, TopTyped DEF Uses
  <2>3. operands = {register_reference_[a] : a \in Uses(Top)}
    BY <2>2
  <2>4. Slates
    BY <2>1 DEF Slates
  <2> HIDE DEF operands
  <2>5. CallOp(Top.type) \in {"call i32", "call i8*"}
    BY CallOpTyped
  <2> QED
    BY <2>1, <2>3, <2>4, <2>5, PlainResult
<1>7. CASE AssignmentResumed
  <2> DEFINE r == register_reference_[Top.arg]
             l == StoreTo(Top.sym, r)
  <2>1. /\ At("store") /\ Become(<<>>) /\ Emit(<<l>>) /\ UNCHANGED strings_to_free_
        /\ UNCHANGED <<nodes, register_reference_, const_string_next_id_, variable_counts_, declared>>
    BY <1>7 DEF AssignmentResumed, program, scopes, strings, frees
  <2>2. Uses(Top) = {Top.arg}
    BY <1>1, <2>1, TopTyped DEF Uses
  <2>3. {r} = {register_reference_[a] : a \in Uses(Top)}
    BY <2>2
  <2> HIDE DEF r
  <2>4. l.op = "store" /\ l.def = NoReg /\ l.use = {r}
    BY DEF StoreTo, IR
  <2> HIDE DEF l
  <2>5. LineDefines(l) = {} /\ l.op # "free" /\ Slates
    BY <2>1, <2>4 DEF LineDefines, Slates
  <2> QED
    BY <2>1, <2>3, <2>4, <2>5, ResultRuns
<1> QED
  BY <1>3, <1>4, <1>5, <1>6, <1>7

(* An instruction names no register.                                         *)
Silent(items) ==
  \A i \in DOMAIN items :
    /\ items[i].op \notin {"unary", "binary", "condition", "call", "return"}
    /\ Visits(items[i]) \union Uses(items[i]) \subseteq nodes..nodes' - 1

LEMMA InstructionRuns ==
  ASSUME IInv, NEW op \in {"instr", "body", "block", "branch", "jump", "end_function"}, At(op),
         NEW items, IsTuple(items), Become(items), Silent(items),
         NEW lines, IsTuple(lines), Emit(lines),
         \A i \in DOMAIN lines :
           /\ lines[i].op # "free" /\ LineDefines(lines[i]) = {}
           /\ \A r \in lines[i].use : ~IsTmp(r) \/ \E a \in Uses(Top) : r = register_reference_[a],
         nodes' \in Nat, nodes' >= nodes, declared \subseteq declared',
         UNCHANGED <<register_reference_, strings_to_free_, const_string_next_id_, variable_counts_>>
  PROVE  Runs
<1>1. TypeOK /\ todo # <<>>
  BY TopTyped DEF IInv
<1>2. \A i \in DOMAIN items : Owns(items[i]) = {}
  BY DEF Owns, Silent
<1>3. Names(items)
  BY <1>1, <1>2 DEF Names
<1>4. \A i \in DOMAIN items : StringNode(items[i]) \subseteq Visits(items[i])
  BY DEF Silent, StringNode, Visits
<1>5. Walks(items, lines)
  BY <1>3, <1>4 DEF Walks, Silent
<1>6. CountsGrow
  BY <1>1, CountsStay
<1>7. Gives(lines) /\ Slates
  BY DEF Gives, Slates
<1> QED
  BY <1>5, <1>6, <1>7 DEF Runs

LEMMA SilentRuns ==
  ASSUME IInv, NEW op \in {"instr", "body", "block"}, At(op),
         NEW items, IsTuple(items), Become(items), Silent(items),
         nodes' \in Nat, nodes' >= nodes, declared \subseteq declared',
         UNCHANGED <<out, register_reference_, strings_to_free_, const_string_next_id_,
                     variable_counts_>>
  PROVE  Runs
<1>1. Emit(<<>>) /\ IsTuple(<<>>) /\ DOMAIN <<>> = {}
  BY NoLines, NoEntries DEF IInv
<1> QED
  BY <1>1, InstructionRuns

LEMMA SilentEntries ==
  LET ok(it) == it.op \notin {"unary", "binary", "condition", "call", "return"}
  IN  /\ \A n, t : ok(ExprItem(n, t))
      /\ \A n : ok(CondItem(n)) /\ ok(AssignItem(n))
      /\ ok(InstrItem) /\ ok(ElseItem)
      /\ \A d : ok(BlockItem(d))
      /\ \A n, l, k, at : ok(BranchRest(n, l, k, at))
      /\ \A l, at : ok(JumpRest(l, at))
BY DEF ExprItem, CondItem, AssignItem, InstrItem, ElseItem, BlockItem, BranchRest, JumpRest

LEMMA InstructionsRun ==
  ASSUME IInv,
         \/ \E t \in SourceTypes : VisitExpressionInstruction(t)
         \/ VisitAssignmentInstruction
         \/ VisitCompoundInstruction \/ NextInstruction \/ EndCompound
  PROVE  Runs
<1> DEFINE ok(it) == it.op \notin {"unary", "binary", "condition", "call", "return"}
<1>1. /\ nodes \in Nat /\ nodes >= nodes
      /\ \A m : m = nodes + 1 => m \in Nat /\ m >= nodes /\ nodes \in nodes..m - 1
  BY DEF IInv, TypeOK
<1>2. ASSUME NEW t \in SourceTypes, VisitExpressionInstruction(t)
      PROVE  Runs
  <2> DEFINE a == ExprItem(nodes, t)
             s == <<a>>
  <2>1. /\ At("instr") /\ Become(s) /\ nodes' = nodes + 1 /\ UNCHANGED declared
        /\ UNCHANGED <<out, register_reference_, strings_to_free_, const_string_next_id_,
                       variable_counts_>>
    BY <1>2 DEF VisitExpressionInstruction, program, scopes, strings, frees
  <2>2. Visits(a) = {nodes} /\ Uses(a) = {}
    BY VisitEntries
  <2>3. ok(a)
    BY SilentEntries
  <2> HIDE DEF a
  <2>4. IsTuple(s) /\ \A i \in DOMAIN s : s[i] = a
    BY ShortTuples, ShortItems
  <2> HIDE DEF s
  <2>5. Silent(s)
    BY <1>1, <2>1, <2>2, <2>3, <2>4 DEF Silent
  <2> QED
    BY <1>1, <2>1, <2>4, <2>5, SilentRuns
<1>3. CASE VisitAssignmentInstruction
  <2> DEFINE a == AssignItem(nodes)
             s == <<a>>
  <2>1. /\ At("instr") /\ Become(s) /\ nodes' = nodes + 1 /\ UNCHANGED declared
        /\ UNCHANGED <<out, register_reference_, strings_to_free_, const_string_next_id_,
                       variable_counts_>>
    BY <1>3 DEF VisitAssignmentInstruction, program, scopes, strings, frees
  <2>2. Visits(a) = {nodes} /\ Uses(a) = {}
    BY VisitEntries
  <2>3. ok(a)
    BY SilentEntries
  <2> HIDE DEF a
  <2>4. IsTuple(s) /\ \A i \in DOMAIN s : s[i] = a
    BY ShortTuples, ShortItems
  <2> HIDE DEF s
  <2>5. Silent(s)
    BY <1>1, <2>1, <2>2, <2>3, <2>4 DEF Silent
  <2> QED
    BY <1>1, <2>1, <2>4, <2>5, SilentRuns
<1>4. CASE VisitCompoundInstruction
  <2> DEFINE a == BlockItem(TRUE)
             s == <<a>>
  <2>1. /\ At("body") \/ At("instr")
        /\ Become(s) /\ nodes' = nodes /\ UNCHANGED declared
        /\ UNCHANGED <<out, register_reference_, strings_to_free_, const_string_next_id_,
                       variable_counts_>>
    BY <1>4 DEF VisitCompoundInstruction, scopes, strings, frees
  <2>2. Visits(a) = {} /\ Uses(a) = {}
    BY VisitEntries
  <2>3. ok(a)
    BY SilentEntries
  <2> HIDE DEF a
  <2>4. IsTuple(s) /\ \A i \in DOMAIN s : s[i] = a
    BY ShortTuples, ShortItems
  <2> HIDE DEF s
  <2>5. Silent(s)
    BY <2>2, <2>3, <2>4 DEF Silent
  <2> QED
    BY <1>1, <2>1, <2>4, <2>5, SilentRuns
<1>5. CASE NextInstruction
  <2> DEFINE a == InstrItem
             b == BlockItem(FALSE)
             s == <<a, b>>
  <2>1. /\ At("block") /\ Become(s) /\ nodes' = nodes + 1 /\ UNCHANGED declared
        /\ UNCHANGED <<out, register_reference_, strings_to_free_, const_string_next_id_,
                       variable_counts_>>
    BY <1>5 DEF NextInstruction, program, scopes, strings, frees
  <2>2. Visits(a) = {} /\ Uses(a) = {} /\ Visits(b) = {} /\ Uses(b) = {}
    BY VisitEntries
  <2>3. ok(a) /\ ok(b)
    BY SilentEntries
  <2> HIDE DEF a, b
  <2>4. IsTuple(s) /\ \A i \in DOMAIN s : s[i] = a \/ s[i] = b
    BY ShortTuples, ShortItems
  <2> HIDE DEF s
  <2>5. Silent(s)
    BY <2>2, <2>3, <2>4 DEF Silent
  <2> QED
    BY <1>1, <2>1, <2>4, <2>5, SilentRuns
<1>6. CASE EndCompound
  <2>1. /\ At("block") /\ Become(<<>>) /\ nodes' = nodes /\ UNCHANGED declared
        /\ UNCHANGED <<out, register_reference_, strings_to_free_, const_string_next_id_,
                       variable_counts_>>
    BY <1>6 DEF EndCompound, strings, frees
  <2>2. Silent(<<>>)
    BY NoEntries DEF Silent
  <2> QED
    BY <1>1, <2>1, <2>2, NoEntries, SilentRuns
<1> QED
  BY <1>2, <1>3, <1>4, <1>5, <1>6

LEMMA ConditionalRuns ==
  ASSUME IInv, NEW hasElse \in BOOLEAN, VisitCondInstruction(hasElse)
  PROVE  Runs
<1> DEFINE ok(it) == it.op \notin {"unary", "binary", "condition", "call", "return"}
           a == CondItem(nodes)
           b == BranchRest(nodes, Lab(0), Lab(1), Lab(0))
           c == JumpRest(Lab(2), Lab(1))
           d == JumpRest(Lab(2), Lab(2))
           else == IF hasElse THEN <<ElseItem>> ELSE <<>>
           s == <<a, b, InstrItem, c>> \o else \o <<d>>
<1>1. /\ At("instr") /\ Become(s) /\ nodes' = nodes + (IF hasElse THEN 3 ELSE 2)
      /\ UNCHANGED declared
      /\ UNCHANGED <<out, register_reference_, strings_to_free_, const_string_next_id_,
                     variable_counts_>>
  BY DEF VisitCondInstruction, program, scopes, strings, frees
<1>2. nodes \in Nat /\ nodes' \in Nat /\ nodes' >= nodes /\ nodes \in nodes..nodes' - 1
  BY <1>1 DEF IInv, TypeOK
<1>3. /\ Visits(a) = {nodes} /\ Uses(a) = {} /\ Visits(b) = {} /\ Uses(b) = {nodes}
      /\ Visits(c) = {} /\ Uses(c) = {} /\ Visits(d) = {} /\ Uses(d) = {}
      /\ Visits(InstrItem) = {} /\ Uses(InstrItem) = {}
      /\ Visits(ElseItem) = {} /\ Uses(ElseItem) = {}
  BY VisitEntries, RestEntries
<1>4. ok(a) /\ ok(b) /\ ok(c) /\ ok(d) /\ ok(InstrItem) /\ ok(ElseItem)
  BY SilentEntries
<1>5. else = <<>> \/ else = <<ElseItem>>
  OBVIOUS
<1> HIDE DEF a, b, c, d, else
<1>6. IsConditional(s, a, b, InstrItem, c, ElseItem, d)
  BY <1>5, CondEntries
<1> HIDE DEF s
<1>7. IsTuple(s) /\ \A i \in DOMAIN s : s[i] \in {a, b, c, d, InstrItem, ElseItem}
  BY <1>6 DEF IsConditional
<1> HIDE DEF ok
<1>8. \A i \in DOMAIN s : ok(s[i]) /\ Visits(s[i]) \union Uses(s[i]) \subseteq nodes..nodes' - 1
  BY <1>2, <1>3, <1>4, <1>7
<1>9. Silent(s)
  BY <1>8 DEF Silent, ok
<1> QED
  BY <1>1, <1>2, <1>7, <1>9, SilentRuns

LEMMA LoopsRun ==
  ASSUME IInv, VisitWhileInstruction \/ VisitDoInstruction
  PROVE  Runs
<1> DEFINE ok(it) == it.op \notin {"unary", "binary", "condition", "call", "return"}
           lines == <<Br(Lab(0)), LabelAt(Lab(0))>>
           x == CondItem(nodes)
           j == JumpRest(Lab(0), Lab(2))
           k == JumpRest(Lab(1), Lab(1))
           w == BranchRest(nodes, Lab(1), Lab(2), Lab(1))
           v == BranchRest(nodes, Lab(0), Lab(2), Lab(2))
           s == IF VisitWhileInstruction THEN <<x, w, InstrItem, j>> ELSE <<InstrItem, k, x, v>>
<1>1. /\ At("instr") /\ Become(s) /\ nodes' = nodes + 2 /\ Emit(lines) /\ UNCHANGED declared
      /\ UNCHANGED <<register_reference_, strings_to_free_, const_string_next_id_, variable_counts_>>
  BY DEF VisitWhileInstruction, VisitDoInstruction, program, scopes, strings, frees
<1>2. nodes \in Nat /\ nodes' \in Nat /\ nodes' >= nodes /\ nodes \in nodes..nodes' - 1
  BY <1>1 DEF IInv, TypeOK
<1>3. /\ Visits(x) = {nodes} /\ Uses(x) = {} /\ Visits(j) = {} /\ Uses(j) = {}
      /\ Visits(k) = {} /\ Uses(k) = {} /\ Visits(w) = {} /\ Uses(w) = {nodes}
      /\ Visits(v) = {} /\ Uses(v) = {nodes}
      /\ Visits(InstrItem) = {} /\ Uses(InstrItem) = {}
  BY VisitEntries, RestEntries
<1>4. ok(x) /\ ok(j) /\ ok(k) /\ ok(w) /\ ok(v) /\ ok(InstrItem)
  BY SilentEntries
<1>5. /\ IsTuple(lines)
      /\ \A i \in DOMAIN lines : /\ lines[i].op # "free" /\ LineDefines(lines[i]) = {}
                                 /\ lines[i].use = {}
  <2> DEFINE l == Br(Lab(0))
             m == LabelAt(Lab(0))
  <2>1. /\ l.op = "br" /\ l.def = NoReg /\ l.use = {}
        /\ m.op = "label" /\ m.def = NoReg /\ m.use = {}
    BY DEF Br, LabelAt, IR
  <2>2. LineDefines(l) = {} /\ LineDefines(m) = {}
    BY <2>1 DEF LineDefines
  <2> HIDE DEF l, m
  <2>3. IsTuple(<<l, m>>) /\ \A i \in DOMAIN <<l, m>> : <<l, m>>[i] = l \/ <<l, m>>[i] = m
    BY ShortTuples, ShortItems
  <2> QED
    BY <2>1, <2>2, <2>3 DEF l, m
<1> HIDE DEF x, j, k, w, v, lines
<1>6. \A a, b, c, d : LET t == <<a, b, c, d>>
                      IN  IsTuple(t) /\ \A i \in DOMAIN t : t[i] \in {a, b, c, d}
  <2> SUFFICES ASSUME NEW a, NEW b, NEW c, NEW d
               PROVE  LET t == <<a, b, c, d>>
                      IN  IsTuple(t) /\ \A i \in DOMAIN t : t[i] \in {a, b, c, d}
    OBVIOUS
  <2> DEFINE t == <<a, b, c, d>>
  <2>1. IsTuple(t) /\ DOMAIN t = 1..4 /\ t[1] = a /\ t[2] = b /\ t[3] = c /\ t[4] = d
    BY FourEntries
  <2> HIDE DEF t
  <2>2. \A i \in DOMAIN t : i \in {1, 2, 3, 4}
    BY <2>1
  <2>3. IsTuple(t) /\ \A i \in DOMAIN t : t[i] \in {a, b, c, d}
    BY <2>1, <2>2
  <2> QED
    BY <2>3 DEF t
<1>7. IsTuple(s) /\ \A i \in DOMAIN s : s[i] \in {x, j, k, w, v, InstrItem}
  <2>1. CASE VisitWhileInstruction
    <3>1. s = <<x, w, InstrItem, j>>
      BY <2>1
    <3> HIDE DEF s
    <3> QED
      BY <1>6, <3>1
  <2>2. CASE ~VisitWhileInstruction
    <3>1. s = <<InstrItem, k, x, v>>
      BY <2>2
    <3> HIDE DEF s
    <3> QED
      BY <1>6, <3>1
  <2> QED
    BY <2>1, <2>2
<1> HIDE DEF s, ok
<1>8. \A i \in DOMAIN s : ok(s[i]) /\ Visits(s[i]) \union Uses(s[i]) \subseteq nodes..nodes' - 1
  BY <1>2, <1>3, <1>4, <1>7
<1>9. Silent(s)
  BY <1>8 DEF Silent, ok
<1> QED
  BY <1>1, <1>2, <1>5, <1>7, <1>9, InstructionRuns

LEMMA ForRuns ==
  ASSUME IInv, VisitForInstruction
  PROVE  Runs
<1> DEFINE ok(it) == it.op \notin {"unary", "binary", "condition", "call", "return"}
           a == AssignItem(nodes)
           b == JumpRest(Lab(0), Lab(0))
           c == CondItem(nodes + 1)
           d == BranchRest(nodes + 1, Lab(1), Lab(3), Lab(1))
           e == InstrItem
           f == JumpRest(Lab(2), Lab(2))
           g == AssignItem(nodes + 2)
           h == JumpRest(Lab(0), Lab(3))
           s == <<a, b, c, d, e, f, g, h>>
<1>1. /\ At("instr") /\ Become(s) /\ nodes' = nodes + 4 /\ UNCHANGED declared
      /\ UNCHANGED <<out, register_reference_, strings_to_free_, const_string_next_id_,
                     variable_counts_>>
  BY DEF VisitForInstruction, program, scopes, strings, frees
<1>2. /\ nodes \in Nat /\ nodes' \in Nat /\ nodes' >= nodes
      /\ {nodes, nodes + 1, nodes + 2} \subseteq nodes..nodes' - 1
  BY <1>1, SMTT(30) DEF IInv, TypeOK
<1>3. /\ Visits(a) = {nodes} /\ Uses(a) = {} /\ Visits(b) = {} /\ Uses(b) = {}
      /\ Visits(c) = {nodes + 1} /\ Uses(c) = {}
      /\ Visits(d) = {} /\ Uses(d) = {nodes + 1} /\ Visits(e) = {} /\ Uses(e) = {}
      /\ Visits(f) = {} /\ Uses(f) = {} /\ Visits(g) = {nodes + 2} /\ Uses(g) = {}
      /\ Visits(h) = {} /\ Uses(h) = {}
  BY VisitEntries, RestEntries
<1>4. ok(a) /\ ok(b) /\ ok(c) /\ ok(d) /\ ok(e) /\ ok(f) /\ ok(g) /\ ok(h)
  BY SilentEntries
<1> HIDE DEF a, b, c, d, e, f, g, h, ok
<1>5. IsTuple(s) /\ DOMAIN s = 1..8
  BY EightEntries
<1>6. /\ s[1] = a /\ s[2] = b /\ s[3] = c /\ s[4] = d
      /\ s[5] = e /\ s[6] = f /\ s[7] = g /\ s[8] = h
  OBVIOUS
<1> HIDE DEF s
<1>7. \A i \in DOMAIN s : i \in {1, 2, 3, 4, 5, 6, 7, 8}
  BY <1>5
<1>8. \A i \in DOMAIN s : ok(s[i]) /\ Visits(s[i]) \union Uses(s[i]) \subseteq nodes..nodes' - 1
  BY <1>2, <1>3, <1>4, <1>6, <1>7
<1>9. Silent(s)
  BY <1>8 DEF Silent, ok
<1> QED
  BY <1>1, <1>2, <1>5, <1>9, SilentRuns

LEMMA ResumedRun ==
  ASSUME IInv, BranchResumed \/ JumpResumed
  PROVE  Runs
<1>1. TypeOK /\ nodes \in Nat /\ nodes >= nodes /\ Silent(<<>>)
  BY NoEntries DEF IInv, TypeOK, Silent
<1>2. CASE JumpResumed
  <2> DEFINE a == Br(Top.target)
             b == LabelAt(Top.at)
             lines == <<a, b>>
  <2>1. /\ At("jump") /\ Become(<<>>) /\ Emit(lines) /\ nodes' = nodes /\ UNCHANGED declared
        /\ UNCHANGED <<register_reference_, strings_to_free_, const_string_next_id_,
                       variable_counts_>>
    BY <1>2 DEF JumpResumed, program, scopes, strings, frees
  <2>2. /\ a.op = "br" /\ a.def = NoReg /\ a.use = {}
        /\ b.op = "label" /\ b.def = NoReg /\ b.use = {}
    BY DEF Br, LabelAt, IR
  <2>3. LineDefines(a) = {} /\ LineDefines(b) = {}
    BY <2>2 DEF LineDefines
  <2> HIDE DEF a, b
  <2>4. IsTuple(lines) /\ \A i \in DOMAIN lines : lines[i] = a \/ lines[i] = b
    BY ShortTuples, ShortItems
  <2> HIDE DEF lines
  <2>5. \A i \in DOMAIN lines :
          lines[i].op # "free" /\ LineDefines(lines[i]) = {} /\ lines[i].use = {}
    BY <2>2, <2>3, <2>4
  <2> QED
    BY <1>1, <2>1, <2>4, <2>5, NoEntries, InstructionRuns
<1>3. CASE BranchResumed
  <2> DEFINE r == register_reference_[Top.node]
             a == CondBr(r, Top.yes, Top.no)
             b == LabelAt(Top.at)
             lines == <<a, b>>
  <2>1. /\ At("branch") /\ Become(<<>>) /\ Emit(lines) /\ nodes' = nodes /\ UNCHANGED declared
        /\ UNCHANGED <<register_reference_, strings_to_free_, const_string_next_id_,
                       variable_counts_>>
    BY <1>3 DEF BranchResumed, program, scopes, strings, frees
  <2>2. Uses(Top) = {Top.node}
    BY <1>1, <2>1, TopTyped DEF Uses
  <2>3. \E x \in Uses(Top) : r = register_reference_[x]
    BY <2>2
  <2> HIDE DEF r
  <2>4. /\ a.op = "cbr" /\ a.def = NoReg /\ a.use = {r}
        /\ b.op = "label" /\ b.def = NoReg /\ b.use = {}
    BY DEF CondBr, LabelAt, IR
  <2>5. LineDefines(a) = {} /\ LineDefines(b) = {}
    BY <2>4 DEF LineDefines
  <2> HIDE DEF a, b
  <2>6. IsTuple(lines) /\ \A i \in DOMAIN lines : lines[i] = a \/ lines[i] = b
    BY ShortTuples, ShortItems
  <2> HIDE DEF lines
  <2>7. \A i \in DOMAIN lines :
          lines[i].op # "free" /\ LineDefines(lines[i]) = {} /\ lines[i].use \subseteq {r}
    BY <2>4, <2>5, <2>6
  <2> QED
    BY <1>1, <2>1, <2>3, <2>6, <2>7, NoEntries, InstructionRuns
<1> QED
  BY <1>2, <1>3

LEMMA EndFunctionRuns ==
  ASSUME IInv, EndFunction
  PROVE  Runs
<1> DEFINE lines == FunctionTail
<1>1. TypeOK /\ nodes \in Nat /\ nodes >= nodes /\ Silent(<<>>)
  BY NoEntries DEF IInv, TypeOK, Silent
<1>2. /\ At("end_function") /\ Become(<<>>) /\ Emit(lines) /\ nodes' = nodes /\ UNCHANGED declared
      /\ UNCHANGED <<register_reference_, strings_to_free_, const_string_next_id_,
                     variable_counts_>>
  BY DEF EndFunction, program, scopes
<1>3. /\ IsTuple(lines)
      /\ \A i \in DOMAIN lines :
           /\ lines[i].op \in {"end", "constants", "declare_strings"} /\ lines[i].def = NoReg
           /\ lines[i].op # "constants" => lines[i].use = {}
  BY TailOps
<1>4. \A i \in DOMAIN lines : \A r \in lines[i].use : ~IsTmp(r)
  <2> SUFFICES ASSUME NEW i \in DOMAIN lines, NEW r \in lines[i].use
               PROVE  ~IsTmp(r)
    OBVIOUS
  <2>1. i \in DOMAIN FunctionTail /\ FunctionTail[i].op = "constants"
    BY <1>3
  <2>2. FunctionTail[i].use = Waiting
    BY <2>1, TailConstants
  <2> QED
    BY <2>2, NotTmps DEF Waiting
<1> HIDE DEF lines
<1>5. \A i \in DOMAIN lines : lines[i].op # "free" /\ LineDefines(lines[i]) = {}
  BY <1>3 DEF LineDefines
<1> QED
  BY <1>1, <1>2, <1>3, <1>4, <1>5, NoEntries, InstructionRuns

LEMMA ReturnInstructionRuns ==
  ASSUME IInv, NEW t \in SourceTypes, VisitReturnInstruction(t)
  PROVE  Runs
<1> DEFINE a == ExprItem(nodes, t)
           b == ReturnRest(t, nodes)
           s == <<a, b>>
<1>1. /\ At("instr") /\ Become(s) /\ nodes' = nodes + 1
      /\ UNCHANGED <<out, register_reference_, strings_to_free_, const_string_next_id_,
                     variable_counts_, declared>>
  BY DEF VisitReturnInstruction, program, scopes, strings, frees
<1>2. TypeOK /\ todo # <<>> /\ nodes \in Nat /\ nodes' \in Nat /\ nodes' >= nodes
      /\ nodes \in nodes..nodes' - 1
  BY <1>1, TopTyped DEF IInv, TypeOK
<1>3. /\ Owns(a) = {} /\ Uses(a) = {} /\ a.op = "expr"
      /\ StringNode(a) = IF t = "string" THEN {nodes} ELSE {}
  BY DEF ExprItem, Owns, Uses, StringNode
<1>4. /\ Owns(b) = {} /\ Uses(b) = {nodes} /\ b.op = "return" /\ b.type = t
      /\ StringNode(b) = {}
  BY DEF ReturnRest, Owns, Uses, StringNode
<1> HIDE DEF a, b
<1>5. IsTuple(s) /\ \A i \in DOMAIN s : s[i] = a \/ s[i] = b
  BY ShortTuples, ShortItems
<1> HIDE DEF s
<1>6. Names(s)
  BY <1>1, <1>2, <1>3, <1>4, <1>5 DEF Names
<1>7. t = "int" => StringNode(a) = {}
  BY <1>3
<1>8. \A i \in DOMAIN s : Uses(s[i]) \subseteq nodes..nodes' - 1
  BY <1>2, <1>3, <1>4, <1>5
<1>9. \A i \in DOMAIN s : StringNode(s[i]) \subseteq nodes..nodes' - 1
  BY <1>2, <1>3, <1>4, <1>5
<1>10. \A i \in DOMAIN s : s[i].op = "return" /\ s[i].type = "int" =>
         \A j \in DOMAIN s : s[i].arg \notin StringNode(s[j])
  BY <1>3, <1>4, <1>5, <1>7
<1>11. Emit(<<>>) /\ IsTuple(<<>>) /\ DOMAIN <<>> = {}
  BY <1>1, <1>2, NoLines, NoEntries
<1>12. Walks(s, <<>>)
  BY <1>1, <1>2, <1>5, <1>6, <1>8, <1>9, <1>10, <1>11 DEF Walks
<1>13. Gives(<<>>) /\ Slates /\ CountsGrow
  BY <1>1, <1>2, <1>11, CountsStay DEF Gives, Slates
<1> QED
  BY <1>12, <1>13 DEF Runs

-----------------------------------------------------------------------------
(* Declarations name no temporaries.                                         *)

(* No declaration hides another: the names of the variables are apart, and no  *)
(* parameter stands twice in a parameter list.                                *)
NamesApart ==
  /\ \A s, t \in Symbols : NameOf[s] = NameOf[t] => s = t
  /\ \A s \in Symbols : NameOf[s] \notin {"tmp", "str"}
  /\ \A params \in ParamLists : \A i, j \in DOMAIN params : params[i] = params[j] => i = j

Introduces(lines) ==
  /\ IsTuple(lines) /\ Emit(lines)
  /\ \A i \in DOMAIN lines : lines[i].op # "free" /\ \A r \in lines[i].use : ~IsTmp(r)
  /\ UNCHANGED <<nodes, register_reference_, strings_to_free_, const_string_next_id_,
                 variable_counts_>>
  /\ declared \subseteq declared'
  /\ \/ UNCHANGED todo
     \/ todo = <<>> /\ \A i \in DOMAIN todo' : todo'[i].op \in {"body", "end_function"}

(* Every register defined has the name of a new variable, and no number.      *)
GivesNames(lines) ==
  /\ \A i \in DOMAIN lines : \A r \in LineDefines(lines[i]) :
       r.id = NoId /\ \E s \in Symbols \ declared : s \in declared' /\ r.name = NameOf[s]
  /\ \A i, j \in DOMAIN lines : i # j =>
       LineDefines(lines[i]) \intersect LineDefines(lines[j]) = {}

LEMMA VariableDeclares ==
  ASSUME SymbolsAssumption, NEW s \in Symbols, DeclareLocal(s) \/ DeclareGlobal(s)
  PROVE  \E lines : Introduces(lines) /\ GivesNames(lines)
<1> DEFINE r == Pointer(s)
           op == IF DeclareGlobal(s) THEN "global" ELSE "alloca"
           l == Plain(op, r, {})
           lines == <<l>>
<1>1. /\ UNCHANGED <<nodes, register_reference_, strings_to_free_, const_string_next_id_,
                     variable_counts_, todo>>
      /\ AddSymbol(s)
  BY DEF DeclareLocal, DeclareGlobal, strings, frees
<1>2. Emit(lines)
  BY DEF DeclareLocal, DeclareGlobal
<1>3. s \notin declared /\ declared' = declared \union {s}
  BY <1>1 DEF AddSymbol
<1>4. op = "global" \/ op = "alloca"
  OBVIOUS
<1>5. r.name = NameOf[s] /\ r.id = NoId
  BY RegisterFields, Zenon
<1> HIDE DEF op, r
<1>6. l.op = op /\ l.def = r /\ l.use = {}
  BY DEF Plain, IR
<1> HIDE DEF l
<1>7. LineDefines(l) \subseteq {r}
  BY <1>4, <1>6 DEF LineDefines
<1>8. IsTuple(lines) /\ DOMAIN lines = {1} /\ lines[1] = l
  BY OneLine
<1> HIDE DEF lines
<1>9. Introduces(lines)
  BY <1>1, <1>2, <1>3, <1>4, <1>6, <1>8 DEF Introduces
<1>10. GivesNames(lines)
  BY <1>3, <1>5, <1>7, <1>8 DEF GivesNames
<1> QED
  BY <1>9, <1>10

LEMMA FunctionDeclares ==
  ASSUME SymbolsAssumption, TypeOK, NEW params \in ParamLists, VisitFunctionDefinition(params)
  PROVE  \E lines : Introduces(lines) /\ (NamesApart => GivesNames(lines))
<1> DEFINE lines == FunctionHead(params)
           numbered(l) == [l EXCEPT !.fn = functions + 1]
           S == SymbolsOf(params)
           define == Plain("define", NoReg, {Incoming(s) : s \in S})
           n == Len(params)
           entries == <<BodyItem, EndFunctionItem>>
<1>1. params \in Seq(Symbols) /\ functions \in Nat
  BY DEF SymbolsAssumption, Locals, TypeOK
<1>2. n \in Nat /\ DOMAIN params = 1..n /\ \A k \in 1..n : params[k] \in Symbols
  BY <1>1, LenProperties, ElementOfSeq
<1>3. S = {params[k] : k \in 1..n} /\ S \subseteq Symbols
  BY <1>2 DEF SymbolsOf
<1>4. /\ UNCHANGED <<nodes, register_reference_, strings_to_free_, const_string_next_id_,
                     variable_counts_>>
      /\ todo = <<>> /\ todo' = entries
      /\ S \intersect declared = {} /\ declared' = declared \union S
  BY DEF VisitFunctionDefinition, Idle, strings, frees
<1>5. Emit(lines)
  BY DEF VisitFunctionDefinition
<1>6. \A i \in DOMAIN entries : entries[i].op \in {"body", "end_function"}
  BY ShortItems DEF BodyItem, EndFunctionItem
<1>7. /\ IsTuple(lines) /\ DOMAIN lines = 1..1 + 2 * n
      /\ lines[1] = numbered(define)
      /\ \A k \in 1..n : /\ lines[2 * k] = numbered(ParamLines(params[k])[1])
                         /\ lines[2 * k + 1] = numbered(ParamLines(params[k])[2])
      /\ \A i \in DOMAIN lines : i = 1 \/ \E k \in 1..n : i = 2 * k \/ i = 2 * k + 1
  BY <1>1, HeadLines, Zenon
<1>8. numbered(define).op = "define" /\ numbered(define).use = {Incoming(s) : s \in S}
  BY DEF Plain, IR
<1> DEFINE cell(s) == Reg(NameOf[s], "pointer", NoId)
<1>9. \A s : LET a == numbered(ParamLines(s)[1])
                 b == numbered(ParamLines(s)[2])
             IN  /\ a.op = "alloca" /\ a.def = cell(s) /\ a.use = {}
                 /\ b.op = "store" /\ b.def = NoReg /\ b.use = {Incoming(s)}
  BY DEF ParamLines, Plain, IR
<1>10. \A s : /\ cell(s).name = NameOf[s] /\ cell(s).id = NoId
              /\ Incoming(s).name = NameOf[s] /\ Incoming(s).id = NoId
              /\ ~IsTmp(Incoming(s))
  BY RegisterFields, NotTmps
<1>11. \A s, t : cell(s) # Incoming(t)
  <2>1. \A s, t : cell(s).sub = "pointer" /\ Incoming(t).sub = ""
    BY Zenon DEF Reg, Incoming
  <2>2. "pointer" # ""
    BY Zenon
  <2> HIDE DEF cell
  <2> QED
    BY <2>1, <2>2, Zenon
<1> HIDE DEF lines, numbered, define, S, n, cell, entries
<1>12. LineDefines(lines[1]) = {Incoming(s) : s \in S} /\ lines[1].use = {Incoming(s) : s \in S}
  BY <1>7, <1>8 DEF LineDefines
<1>13. \A k \in 1..n : /\ LineDefines(lines[2 * k]) \subseteq {cell(params[k])}
                       /\ LineDefines(lines[2 * k + 1]) = {}
  <2> TAKE k \in 1..n
  <2>1. lines[2 * k].op = "alloca" /\ lines[2 * k].def = cell(params[k])
    BY <1>7, <1>9
  <2>2. lines[2 * k + 1].op = "store" /\ lines[2 * k + 1].def = NoReg
    BY <1>7, <1>9
  <2> QED
    BY <2>1, <2>2 DEF LineDefines
<1>14. \A i \in DOMAIN lines : lines[i].op # "free" /\ \A r \in lines[i].use : ~IsTmp(r)
  <2>1. lines[1].op # "free" /\ \A r \in lines[1].use : ~IsTmp(r)
    BY <1>7, <1>8, <1>10
  <2>2. ASSUME NEW k \in 1..n
        PROVE  /\ lines[2 * k].op # "free" /\ lines[2 * k].use = {}
               /\ lines[2 * k + 1].op # "free"
               /\ lines[2 * k + 1].use = {Incoming(params[k])}
    BY <1>7, <1>9
  <2>3. \A k \in 1..n : \A i \in {2 * k, 2 * k + 1} :
          lines[i].op # "free" /\ \A r \in lines[i].use : ~IsTmp(r)
    BY <1>10, <2>2
  <2> QED
    BY <1>7, <2>1, <2>3
<1>15. Introduces(lines)
  BY <1>4, <1>5, <1>6, <1>7, <1>14 DEF Introduces
<1>16. ASSUME NEW i \in DOMAIN lines, NEW r \in LineDefines(lines[i])
       PROVE  /\ r.id = NoId /\ \E s \in Symbols \ declared : s \in declared' /\ r.name = NameOf[s]
              /\ \/ i = 1 /\ \E s \in S : r = Incoming(s)
                 \/ \E k \in 1..n : i = 2 * k /\ r = cell(params[k])
  <2>1. \/ i = 1 /\ \E s \in S : r = Incoming(s)
        \/ \E k \in 1..n : i = 2 * k /\ r = cell(params[k])
    <3>1. CASE i = 1
      BY <1>12, <1>16, <3>1
    <3>2. ASSUME NEW k \in 1..n, i = 2 * k \/ i = 2 * k + 1
          PROVE  i = 2 * k /\ r = cell(params[k])
      BY <1>13, <1>16, <3>2
    <3> QED
      BY <1>7, <3>1, <3>2
  <2>2. r.id = NoId /\ \E s \in S : r.name = NameOf[s]
    BY <1>3, <1>10, <2>1
  <2> QED
    BY <1>3, <1>4, <2>1, <2>2
<1>17. ASSUME NamesApart, NEW i \in DOMAIN lines, NEW j \in DOMAIN lines, i # j,
              NEW r \in LineDefines(lines[i]), r \in LineDefines(lines[j])
       PROVE  FALSE
  <2>1. /\ \/ i = 1 /\ \E s \in S : r = Incoming(s)
           \/ \E k \in 1..n : i = 2 * k /\ r = cell(params[k])
        /\ \/ j = 1 /\ \E s \in S : r = Incoming(s)
           \/ \E k \in 1..n : j = 2 * k /\ r = cell(params[k])
    BY <1>16, <1>17
  <2>2. ASSUME NEW k \in 1..n, NEW m \in 1..n, i = 2 * k, j = 2 * m, cell(params[k]) = cell(params[m])
        PROVE  FALSE
    <3>1. NameOf[params[k]] = NameOf[params[m]]
      BY <1>10, <2>2
    <3>2. params[k] = params[m]
      BY <1>2, <1>17, <3>1 DEF NamesApart
    <3>3. k = m
      BY <1>2, <1>17, <3>2 DEF NamesApart
    <3> QED
      BY <1>17, <2>2, <3>3
  <2> QED
    BY <1>11, <1>17, <2>1, <2>2
<1>18. NamesApart => GivesNames(lines)
  BY <1>16, <1>17 DEF GivesNames
<1> QED
  BY <1>15, <1>18

(* So a step is one of four: the visitor runs on, it stops, something is       *)
(* declared, or a return frees the strings.                                   *)
LEMMA StepsAre ==
  ASSUME SymbolsAssumption, BoundsAssumption, NoTmpSymbol, IInv, [Next]_vars
  PROVE  \/ Runs \/ Rests \/ ReturnResumed
         \/ \E lines : Introduces(lines) /\ (NamesApart => GivesNames(lines))
<1>1. TypeOK
  BY DEF IInv
<1>2. CASE VisitNull \/ Finish \/ UNCHANGED vars
  BY <1>2 DEF VisitNull, Finish, vars, program, scopes, strings, frees, Rests
<1>3. CASE ExpressionStep
  <2>1. CASE \E k \in 0..MaxArgs : \E types \in [1..k -> SourceTypes] : VisitFunctionCall(types)
    <3>1. PICK k \in 0..MaxArgs : \E types \in [1..k -> SourceTypes] : VisitFunctionCall(types)
      BY <2>1
    <3>2. k \in Nat
      BY DEF BoundsAssumption
    <3> QED
      BY <3>1, <3>2, CallRuns
  <2> QED
    BY <1>3, <2>1, TerminalsRun, OperatorsRun, ResultsRun DEF ExpressionStep
<1>4. CASE InstructionStep
  BY <1>2, <1>4, InstructionsRun, ConditionalRuns, LoopsRun, ForRuns, ResumedRun,
     ReturnInstructionRuns, VariableDeclares DEF InstructionStep
<1>5. CASE ExternalStep
  BY <1>1, <1>2, <1>5, VariableDeclares, FunctionDeclares, EndFunctionRuns DEF ExternalStep
<1> QED
  BY <1>2, <1>3, <1>4, <1>5 DEF Next, Stopped

(* What follows from RInv for the entries of register_reference_.             *)
LEMMA OwnedUnfinished ==
  ASSUME RInv, NEW i \in DOMAIN todo, NEW n \in Owns(todo[i])
  PROVE  ~Finished(register_reference_[n])
<1>1. n \in DOMAIN register_reference_ /\ IsTmp(register_reference_[n])
  BY DEF RInv, OwnersTmp
<1>2. n \in Unfinished
  BY DEF Unfinished
<1>3. \A m \in DOMAIN register_reference_ : register_reference_[n] = register_reference_[m] => n = m
  BY <1>1 DEF RInv, Apart
<1> QED
  BY <1>1, <1>2, <1>3 DEF Finished

LEMMA DeclaringKeepsNames ==
  ASSUME RInv, NEW lines, Introduces(lines)
  PROVE  RInv' /\ \A r : Finished(r) => Finished(r)'
<1>1. UNCHANGED register_reference_
  BY DEF Introduces
<1>2. Numbered' /\ Apart'
  BY <1>1 DEF RInv, Numbered, Apart
<1>3. CASE UNCHANGED todo
  BY <1>1, <1>2, <1>3 DEF RInv, OwnersTmp, OwnedOnce, Owns, Finished, Unfinished
<1>4. CASE todo = <<>> /\ \A i \in DOMAIN todo' : todo'[i].op \in {"body", "end_function"}
  <2>1. \A i \in DOMAIN todo' : Owns(todo'[i]) = {}
    BY <1>4 DEF Owns
  <2>2. \A i : Owns(todo[i])' = Owns(todo'[i])
    BY DEF Owns
  <2>3. OwnersTmp' /\ OwnedOnce'
    BY <2>1, <2>2 DEF OwnersTmp, OwnedOnce
  <2>4. Unfinished' = {}
    BY <2>1, <2>2 DEF Unfinished
  <2>5. \A r : Finished(r) => Finished(r)'
    BY <1>1, <2>4 DEF Finished
  <2> QED
    BY <1>2, <2>3, <2>5 DEF RInv
<1> QED
  BY <1>3, <1>4 DEF Introduces

LEMMA ReturnNames ==
  ASSUME IInv, ReturnResumed
  PROVE  Names(<<>>)
<1>1. At("return") /\ Become(<<>>) /\ UNCHANGED register_reference_
  BY DEF ReturnResumed
<1>2. todo # <<>>
  BY <1>1, TopTyped DEF IInv
<1> QED
  BY <1>1, <1>2, NoEntries DEF Names

LEMMA RestsKeeps ==
  ASSUME RInv, Rests
  PROVE  RInv' /\ \A r : Finished(r) => Finished(r)'
BY DEF Rests, RInv, Numbered, Apart, OwnersTmp, OwnedOnce, Owns, Finished, Unfinished

LEMMA InitRInv == Init => RInv
<1> SUFFICES ASSUME Init PROVE RInv
  OBVIOUS
<1>1. DOMAIN register_reference_ = {} /\ DOMAIN todo = {}
  BY NoEntries DEF Init
<1> QED
  BY <1>1 DEF RInv, Numbered, Apart, OwnersTmp, OwnedOnce

LEMMA NextRInv ==
  ASSUME SymbolsAssumption, BoundsAssumption, NoTmpSymbol, IInv, VInv, RInv, [Next]_vars
  PROVE  RInv' /\ \A r : Finished(r) => Finished(r)'
<1>1. CASE Runs
  BY <1>1, NamesKept DEF Runs, Walks
<1>2. CASE ReturnResumed
  BY <1>2, ReturnNames, NamesKept
<1> QED
  BY <1>1, <1>2, StepsAre, RestsKeeps, DeclaringKeepsNames

-----------------------------------------------------------------------------
(* The strings that are freed.                                               *)

Dead == UNION {out[i].use : i \in {k \in Lines : out[k].op = "free"}}

(* Slated and freed registers are those of concatenations already written.    *)
SlatedFinished == \A r \in strings_to_free_ \union Dead : Finished(r)

(* A register is slated no more once it has been freed.                       *)
SlatedAlive == strings_to_free_ \intersect Dead = {}

FreedLast ==
  \A i, j \in Lines : (i < j /\ out[i].op = "free") => out[i].use \intersect out[j].use = {}

(* What pending visit methods will read has not been freed.                   *)
OperandsAlive ==
  \A i \in DOMAIN todo : \A n \in Uses(todo[i]) :
    n \in DOMAIN register_reference_ => register_reference_[n] \notin Dead

(* An integer to be returned is no string: the return may free what is slated. *)
IntegersUnslated ==
  \A i \in DOMAIN todo : todo[i].op = "return" /\ todo[i].type = "int" =>
    /\ \A j \in DOMAIN todo : todo[i].arg \notin StringNode(todo[j])
    /\ todo[i].arg \in DOMAIN register_reference_ =>
         register_reference_[todo[i].arg] \notin strings_to_free_

FInv == SlatedFinished /\ SlatedAlive /\ FreedLast /\ OperandsAlive /\ IntegersUnslated

(* Lines that free nothing.                                                  *)
LEMMA DeadStays ==
  ASSUME TypeOK, NEW lines, IsTuple(lines), Emit(lines),
         \A i \in DOMAIN lines : lines[i].op # "free"
  PROVE  /\ Dead' = Dead
         /\ FreedLast /\ (\A i \in DOMAIN lines : lines[i].use \intersect Dead = {}) => FreedLast'
<1>1. /\ \A i \in Lines : i \in Lines' /\ out'[i] = out[i]
      /\ \A i \in Lines' : i \in Lines \/ \E k \in DOMAIN lines : i = Len(out) + k
      /\ \A k \in DOMAIN lines : out'[Len(out) + k] = lines[k]
  BY LinesAfter
<1>2. Dead' = UNION {out'[i].use : i \in {k \in Lines' : out'[k].op = "free"}}
  BY DEF Dead
<1>3. \A i \in Lines' : out'[i].op = "free" => i \in Lines /\ out[i].op = "free" /\ out'[i] = out[i]
  BY <1>1
<1>4. Dead' = Dead
  BY <1>1, <1>2, <1>3 DEF Dead
<1>5. \A i \in Lines : out[i].op = "free" => out[i].use \subseteq Dead
  BY DEF Dead
<1>6. ASSUME FreedLast, \A i \in DOMAIN lines : lines[i].use \intersect Dead = {}
      PROVE  FreedLast'
  <2> SUFFICES ASSUME NEW i \in Lines', NEW j \in Lines', i < j, out'[i].op = "free"
               PROVE  out'[i].use \intersect out'[j].use = {}
    BY DEF FreedLast
  <2>1. i \in Lines /\ out[i].op = "free" /\ out'[i] = out[i]
    BY <1>3
  <2>2. CASE j \in Lines
    BY <1>1, <1>6, <2>1, <2>2 DEF FreedLast
  <2>3. CASE j \notin Lines
    BY <1>1, <1>5, <1>6, <2>1, <2>3
  <2> QED
    BY <2>2, <2>3
<1> QED
  BY <1>4, <1>6

LEMMA RunsKeepStrings ==
  ASSUME IInv, VInv, RInv, FInv, Runs
  PROVE  FInv'
<1> DEFINE D == DOMAIN register_reference_
<1>1. PICK items, lines : Walks(items, lines) /\ Gives(lines) /\ Slates /\ CountsGrow
  BY DEF Runs
<1>2. /\ Names(items) /\ IsTuple(lines) /\ Emit(lines)
      /\ IsTuple(items) /\ Become(items) /\ todo # <<>>
      /\ nodes' \in Nat /\ nodes' >= nodes
      /\ \A i \in DOMAIN items : Uses(items[i]) \subseteq nodes..nodes' - 1
      /\ \A i \in DOMAIN items :
           StringNode(items[i]) \subseteq StringNode(Top) \union nodes..nodes' - 1
      /\ \A i \in DOMAIN items : items[i].op = "return" /\ items[i].type = "int" =>
           \A j \in DOMAIN items : items[i].arg \notin StringNode(items[j])
      /\ \A i \in DOMAIN lines :
           /\ lines[i].op # "free"
           /\ \A r \in lines[i].use : ~IsTmp(r) \/ \E a \in Uses(Top) : r = register_reference_[a]
  BY <1>1 DEF Walks, Names
<1>3. /\ TypeOK /\ Unvisited /\ Pending /\ Apart /\ OwnersTmp
      /\ NodesExist /\ nodes \in Nat
      /\ SlatedFinished /\ SlatedAlive /\ FreedLast /\ OperandsAlive /\ IntegersUnslated
  BY DEF IInv, TypeOK, Nodes, VInv, RInv, FInv
<1>4. 1 \in DOMAIN todo /\ Top = todo[1]
  BY <1>2, <1>3, TopEntry
<1>5. /\ \A r : Finished(r) => Finished(r)'
      /\ \A n \in D' : n \in D \/ ~Finished(register_reference_'[n])
      /\ UNCHANGED register_reference_ => \A n \in Owns(Top) : Finished(register_reference_[n])'
  BY <1>2, NamesKept
<1>6. \A n \in D : n \in D' /\ register_reference_'[n] = register_reference_[n] /\ n < nodes
  BY <1>2, <1>3, NewName DEF Unvisited
<1>7. \A i \in DOMAIN todo' :
        \/ i \in DOMAIN items /\ todo'[i] = items[i]
        \/ \E m \in DOMAIN todo : todo'[i] = todo[m]
  BY <1>2, <1>3, Entries
<1>8. Dead' = Dead
  BY <1>2, <1>3, DeadStays
<1>9. \A r \in Dead : Finished(r) /\ IsTmp(r)
  BY <1>3 DEF SlatedFinished, Finished
<1>10. \A n \in Owns(Top) : ~Finished(register_reference_[n])
  BY <1>4, OwnedUnfinished
<1>11. \A a \in Uses(Top) : register_reference_[a] \notin Dead
  <2> SUFFICES ASSUME NEW a \in Uses(Top)
               PROVE  register_reference_[a] \notin Dead
    OBVIOUS
  <2>1. Due(1, a)
    BY <1>3, <1>4 DEF Pending
  <2>2. 1..1 - 1 = {}
    OBVIOUS
  <2>3. a \in D
    BY <2>1, <2>2 DEF Due, Computed
  <2> QED
    BY <1>3, <1>4, <2>3 DEF OperandsAlive
<1>12. FreedLast'
  <2>1. \A i \in DOMAIN lines : lines[i].use \intersect Dead = {}
    BY <1>2, <1>9, <1>11
  <2> QED
    BY <1>2, <1>3, <2>1, DeadStays
<1>13. \A r \in strings_to_free_' :
         \/ r \in strings_to_free_
         \/ /\ UNCHANGED register_reference_ /\ Top.op = "binary" /\ Top.type = "string"
            /\ Top.node \in Owns(Top) /\ r = register_reference_[Top.node]
  BY <1>1 DEF Slates, Owns
<1> HIDE DEF D
<1>14. SlatedFinished'
  BY <1>3, <1>5, <1>8, <1>13 DEF SlatedFinished
<1>15. SlatedAlive'
  BY <1>3, <1>8, <1>9, <1>10, <1>13 DEF SlatedAlive
<1>16. \A i \in DOMAIN items : \A n \in Uses(items[i]) : n \notin D
  BY <1>2, <1>3, <1>6
<1>17. OperandsAlive'
  <2> SUFFICES ASSUME NEW i \in DOMAIN todo', NEW n \in Uses(todo'[i]), n \in D'
               PROVE  register_reference_'[n] \notin Dead
    BY <1>8 DEF OperandsAlive, D, Uses
  <2>1. CASE n \notin D
    BY <1>5, <1>9, <2>1
  <2>2. CASE n \in D
    BY <1>3, <1>6, <1>7, <1>16, <2>2 DEF OperandsAlive, D
  <2> QED
    BY <2>1, <2>2
<1>18. \A m \in DOMAIN todo : todo[m].op = "return" => todo[m].arg \in 0..nodes - 1
  BY <1>3 DEF NodesExist, Reads
<1>19. \A m \in DOMAIN todo : StringNode(todo[m]) \subseteq 0..nodes - 1
  BY <1>3 DEF NodesExist, Reads, Visits, StringNode
<1>20. \A i \in DOMAIN items : items[i].op = "return" => items[i].arg \in nodes..nodes' - 1
  BY <1>2 DEF Uses
<1>21. ASSUME NEW i \in DOMAIN todo', todo'[i].op = "return", todo'[i].type = "int"
       PROVE  /\ \A j \in DOMAIN todo' : todo'[i].arg \notin StringNode(todo'[j])
              /\ todo'[i].arg \in D' => register_reference_'[todo'[i].arg] \notin strings_to_free_'
  <2>1. \A j \in DOMAIN todo' : todo'[i].arg \notin StringNode(todo'[j])
    <3> SUFFICES ASSUME NEW j \in DOMAIN todo'
                 PROVE  todo'[i].arg \notin StringNode(todo'[j])
      OBVIOUS
    <3>1. CASE i \in DOMAIN items /\ todo'[i] = items[i] /\ j \in DOMAIN items /\ todo'[j] = items[j]
      BY <1>2, <1>21, <3>1
    <3>2. ASSUME i \in DOMAIN items, todo'[i] = items[i], NEW m \in DOMAIN todo, todo'[j] = todo[m]
          PROVE  todo'[i].arg \notin StringNode(todo'[j])
      <4>1. todo'[i].arg \in nodes..nodes' - 1 /\ StringNode(todo'[j]) \subseteq 0..nodes - 1
        BY <1>19, <1>20, <1>21, <3>2
      <4> QED
        BY <1>3, <4>1
    <3>3. ASSUME j \in DOMAIN items, todo'[j] = items[j], NEW m \in DOMAIN todo, todo'[i] = todo[m]
          PROVE  todo'[i].arg \notin StringNode(todo'[j])
      <4>1. StringNode(todo'[j]) \subseteq StringNode(Top) \union nodes..nodes' - 1
        BY <1>2, <3>3
      <4>2. todo'[i].arg \in 0..nodes - 1 /\ todo'[i].arg \notin StringNode(Top)
        BY <1>3, <1>4, <1>18, <1>21, <3>3 DEF IntegersUnslated
      <4> QED
        BY <1>3, <4>1, <4>2
    <3>4. ASSUME NEW m \in DOMAIN todo, todo'[i] = todo[m], NEW k \in DOMAIN todo, todo'[j] = todo[k]
          PROVE  todo'[i].arg \notin StringNode(todo'[j])
      BY <1>3, <1>21, <3>4 DEF IntegersUnslated
    <3> QED
      BY <1>7, <3>1, <3>2, <3>3, <3>4
  <2>2. ASSUME todo'[i].arg \in D', register_reference_'[todo'[i].arg] \in strings_to_free_'
        PROVE  FALSE
    <3> DEFINE a == todo'[i].arg
               r == register_reference_'[a]
    <3>1. CASE a \notin D
      <4>1. ~UNCHANGED register_reference_ /\ ~Finished(r)
        BY <1>5, <2>2, <3>1 DEF D
      <4>2. r \in strings_to_free_
        BY <1>13, <2>2, <4>1
      <4> QED
        BY <1>3, <4>1, <4>2 DEF SlatedFinished
    <3>2. CASE a \in D
      <4>1. i \notin DOMAIN items \/ todo'[i] # items[i]
        BY <1>3, <1>6, <1>20, <1>21, <3>2
      <4>2. PICK m \in DOMAIN todo : todo'[i] = todo[m]
        BY <1>7, <4>1
      <4>3. r = register_reference_[a] /\ r \notin strings_to_free_ /\ a \notin StringNode(Top)
        BY <1>3, <1>4, <1>6, <1>21, <3>2, <4>2 DEF IntegersUnslated, D
      <4>4. /\ Top.op = "binary" /\ Top.type = "string" /\ Top.node \in Owns(Top)
            /\ r = register_reference_[Top.node]
        BY <1>13, <2>2, <4>3
      <4>5. Top.node \in D /\ IsTmp(register_reference_[Top.node])
        BY <1>3, <1>4, <4>4 DEF OwnersTmp, D
      <4>6. a = Top.node
        BY <1>3, <3>2, <4>3, <4>4, <4>5 DEF Apart, D
      <4>7. Top.node \in StringNode(Top)
        BY <4>4 DEF StringNode
      <4> QED
        BY <4>3, <4>6, <4>7
    <3> QED
      BY <3>1, <3>2
  <2> QED
    BY <2>1, <2>2
<1>22. IntegersUnslated'
  BY <1>21 DEF IntegersUnslated, StringNode, D
<1> QED
  BY <1>12, <1>14, <1>15, <1>17, <1>22 DEF FInv

LEMMA DeclaringKeepsStrings ==
  ASSUME IInv, RInv, FInv, NEW lines, Introduces(lines)
  PROVE  FInv'
<1>1. /\ IsTuple(lines) /\ Emit(lines)
      /\ \A i \in DOMAIN lines : lines[i].op # "free" /\ \A r \in lines[i].use : ~IsTmp(r)
      /\ UNCHANGED <<register_reference_, strings_to_free_>>
  BY DEF Introduces
<1>2. /\ TypeOK /\ SlatedFinished /\ SlatedAlive /\ FreedLast /\ OperandsAlive /\ IntegersUnslated
  BY DEF IInv, FInv
<1>3. Dead' = Dead
  BY <1>1, <1>2, DeadStays
<1>4. \A r \in Dead : IsTmp(r)
  BY <1>2 DEF SlatedFinished, Finished
<1>5. FreedLast'
  <2>1. \A i \in DOMAIN lines : lines[i].use \intersect Dead = {}
    BY <1>1, <1>4
  <2> QED
    BY <1>1, <1>2, <2>1, DeadStays
<1>6. SlatedFinished'
  BY <1>1, <1>2, <1>3, DeclaringKeepsNames DEF SlatedFinished
<1>7. SlatedAlive'
  BY <1>1, <1>2, <1>3 DEF SlatedAlive
<1>8. CASE UNCHANGED todo
  <2>1. OperandsAlive' /\ IntegersUnslated'
    BY <1>1, <1>2, <1>3, <1>8 DEF OperandsAlive, IntegersUnslated, Uses, StringNode
  <2> QED
    BY <1>5, <1>6, <1>7, <2>1 DEF FInv
<1>9. CASE \A i \in DOMAIN todo' : todo'[i].op \in {"body", "end_function"}
  <2>1. \A i \in DOMAIN todo' : Uses(todo[i])' = {} /\ (todo[i].op # "return")'
    BY <1>9 DEF Uses
  <2>2. OperandsAlive'
    BY <2>1 DEF OperandsAlive
  <2>3. IntegersUnslated'
    BY <2>1 DEF IntegersUnslated
  <2> QED
    BY <1>5, <1>6, <1>7, <2>2, <2>3 DEF FInv
<1> QED
  BY <1>8, <1>9 DEF Introduces

(* The lines of a return: what they define, free and use.                     *)
LEMMA ReturnShape ==
  ASSUME NEW t, NEW reg
  PROVE  LET lines == ReturnLines(t, reg)
         IN  /\ IsTuple(lines)
             /\ \A i \in DOMAIN lines : LineDefines(lines[i]) \subseteq {ReturnCopy}
             /\ \A i \in DOMAIN lines : lines[i].op = "free" => lines[i].use = Freed(t, reg)
             /\ \A i \in DOMAIN lines : lines[i].op # "free" => lines[i].use \subseteq {reg, ReturnCopy}
             /\ \A i, j \in DOMAIN lines : i < j /\ lines[i].op = "free" =>
                  /\ lines[j].op # "free"
                  /\ lines[j].use = {IF NeedsCopy(t, reg) THEN ReturnCopy ELSE reg}
<1> DEFINE c == Plain("copy", ReturnCopy, {reg})
           f == Plain("free", NoReg, Freed(t, reg))
           x == IF NeedsCopy(t, reg) THEN ReturnCopy ELSE reg
           r == Ret(t, x)
           copy == IF NeedsCopy(t, reg) THEN <<c>> ELSE <<>>
           free == IF Freed(t, reg) # {} THEN <<f>> ELSE <<>>
           front == copy \o free
           last == <<r>>
           lines == front \o last
<1>1. ReturnLines(t, reg) = lines
  BY DEF ReturnLines
<1>2. /\ c.op = "copy" /\ c.def = ReturnCopy /\ c.use = {reg}
      /\ f.op = "free" /\ f.def = NoReg /\ f.use = Freed(t, reg)
  BY DEF Plain, IR
<1>3. (r.op = "ret i32" \/ r.op = "ret i8*") /\ r.def = NoReg /\ r.use = {x}
  BY DEF Ret, Plain, IR
<1>4. x = reg \/ x = ReturnCopy
  OBVIOUS
<1> HIDE DEF c, f, r
<1>5. /\ IsTuple(copy) /\ \A i \in DOMAIN copy : copy[i] = c
      /\ IsTuple(free) /\ \A i \in DOMAIN free : i = 1 /\ free[i] = f
      /\ IsTuple(last) /\ DOMAIN last = {1} /\ last[1] = r
  <2>1. IsTuple(copy) /\ \A i \in DOMAIN copy : copy[i] = c
    BY ShortTuples, ShortItems
  <2>2. IsTuple(free) /\ \A i \in DOMAIN free : i = 1 /\ free[i] = f
    BY ShortTuples, ShortItems
  <2>3. IsTuple(last) /\ DOMAIN last = {1} /\ last[1] = r
    BY ShortTuples
  <2> QED
    BY <2>1, <2>2, <2>3
<1> HIDE DEF copy, free, last
<1>6. IsJoined(copy, free, front)
  BY <1>5, Joined
<1>7. IsJoined(front, last, lines)
  BY <1>5, <1>6, Joined, ZenonT(30) DEF IsJoined
<1>8. \A i \in DOMAIN front : front[i] = c \/ (i = Len(copy) + 1 /\ front[i] = f)
  <2> SUFFICES ASSUME NEW i \in DOMAIN front, i \notin DOMAIN copy
               PROVE  i = Len(copy) + 1 /\ front[i] = f
    BY <1>5, <1>6 DEF IsJoined
  <2>1. i - Len(copy) \in DOMAIN free /\ front[i] = free[i - Len(copy)] /\ i = Len(copy) + (i - Len(copy))
    BY <1>6 DEF IsJoined
  <2>2. i - Len(copy) = 1
    BY <1>5, <2>1
  <2> QED
    BY <1>5, <2>1, <2>2
<1> HIDE DEF front, lines, x
<1>9. \A i \in DOMAIN lines :
        \/ i \in DOMAIN front /\ lines[i] = c
        \/ i \in DOMAIN front /\ i = Len(copy) + 1 /\ lines[i] = f
        \/ i \notin DOMAIN front /\ lines[i] = r
  <2> SUFFICES ASSUME NEW i \in DOMAIN lines
               PROVE  \/ i \in DOMAIN front /\ lines[i] = c
                      \/ i \in DOMAIN front /\ i = Len(copy) + 1 /\ lines[i] = f
                      \/ i \notin DOMAIN front /\ lines[i] = r
    OBVIOUS
  <2>1. CASE i \in DOMAIN front
    BY <1>7, <1>8, <2>1 DEF IsJoined
  <2>2. CASE i \notin DOMAIN front
    BY <1>5, <1>7, <2>2 DEF IsJoined
  <2> QED
    BY <2>1, <2>2
<1>10. /\ LineDefines(c) \subseteq {ReturnCopy}
       /\ LineDefines(f) = {} /\ LineDefines(r) = {}
  BY <1>2, <1>3 DEF LineDefines
<1>11. \A i \in DOMAIN lines : LineDefines(lines[i]) \subseteq {ReturnCopy}
  BY <1>9, <1>10
<1>12. \A i \in DOMAIN lines : lines[i].op = "free" => lines[i].use = Freed(t, reg)
  BY <1>2, <1>3, <1>9
<1>13. \A i \in DOMAIN lines : lines[i].op # "free" => lines[i].use \subseteq {reg, ReturnCopy}
  BY <1>2, <1>3, <1>4, <1>9
<1>14. ASSUME NEW i \in DOMAIN lines, NEW j \in DOMAIN lines, i < j, lines[i].op = "free"
       PROVE  lines[j] = r
  <2>1. i = Len(copy) + 1
    BY <1>2, <1>3, <1>9, <1>14
  <2>2. Len(front) <= Len(copy) + 1 /\ DOMAIN front = 1..Len(front) /\ Len(front) \in Nat /\ i \in Nat
    <3>1. Len(free) <= 1
      BY <1>5 DEF IsTuple
    <3> QED
      BY <1>6, <2>1, <3>1 DEF IsJoined
  <2>3. j \notin DOMAIN front
    BY <1>14, <2>1, <2>2
  <2> QED
    BY <1>9, <2>3
<1>15. \A i, j \in DOMAIN lines : i < j /\ lines[i].op = "free" =>
         lines[j].op # "free" /\ lines[j].use = {x}
  BY <1>3, <1>14
<1>16. IsTuple(lines)
  BY <1>7 DEF IsJoined
<1> QED
  BY <1>1, <1>11, <1>12, <1>13, <1>15, <1>16 DEF x

LEMMA ReturnKeepsStrings ==
  ASSUME IInv, VInv, RInv, FInv, ReturnResumed
  PROVE  FInv'
<1> DEFINE t == Top.type
           reg == register_reference_[Top.arg]
           lines == ReturnLines(t, reg)
           D == DOMAIN register_reference_
<1>1. /\ At("return") /\ Become(<<>>) /\ strings_to_free_' = {}
      /\ UNCHANGED register_reference_
  BY DEF ReturnResumed
<1>2. Emit(lines)
  BY DEF ReturnResumed
<1>3. /\ TypeOK /\ Unvisited /\ Pending
      /\ SlatedFinished /\ SlatedAlive /\ FreedLast /\ OperandsAlive /\ IntegersUnslated
  BY DEF IInv, VInv, FInv
<1>4. /\ todo # <<>> /\ 1 \in DOMAIN todo /\ Top = todo[1] /\ Top \in StackItem
      /\ Top.op = "return" /\ Uses(Top) = {Top.arg} /\ ~IsQuiet(Top)
      /\ DOMAIN todo \subseteq Nat \ {0}
  <2>1. todo # <<>> /\ 1 \in DOMAIN todo /\ Top = todo[1] /\ Top \in StackItem /\ Top.op = "return"
    BY <1>1, <1>3, TopTyped
  <2>2. Uses(Top) = {Top.arg} /\ ~IsQuiet(Top)
    BY <2>1 DEF Uses, IsQuiet
  <2>3. DOMAIN todo \subseteq Nat \ {0}
    BY <1>3, LenProperties DEF TypeOK
  <2> QED
    BY <2>1, <2>2, <2>3
<1>5. t = "int" \/ t = "string"
  BY <1>4 DEF StackItem, Visit, Rest, Type
<1>6. Top.arg \in D
  BY <1>1, <1>3, <1>4, OperandAvailable
<1>7. reg \notin Dead /\ (t = "int" => reg \notin strings_to_free_)
  BY <1>3, <1>4, <1>6 DEF OperandsAlive, IntegersUnslated
<1>8. \A r \in strings_to_free_ \union Dead : Finished(r) /\ r # ReturnCopy
  BY <1>3, NotTmps DEF SlatedFinished, Finished
<1>9. Freed(t, reg) \subseteq strings_to_free_
  BY DEF Freed
<1>10. (IF NeedsCopy(t, reg) THEN ReturnCopy ELSE reg) \notin Freed(t, reg)
  BY <1>5, <1>7, <1>8, <1>9 DEF NeedsCopy, Freed
<1> HIDE DEF reg, t
<1>11. /\ IsTuple(lines)
       /\ \A i \in DOMAIN lines : lines[i].op = "free" => lines[i].use = Freed(t, reg)
       /\ \A i \in DOMAIN lines : lines[i].op # "free" => lines[i].use \subseteq {reg, ReturnCopy}
       /\ \A i, j \in DOMAIN lines : i < j /\ lines[i].op = "free" =>
            lines[j].use = {IF NeedsCopy(t, reg) THEN ReturnCopy ELSE reg}
  BY ReturnShape
<1> HIDE DEF lines, D
<1>12. /\ \A i \in Lines : i \in Lines' /\ out'[i] = out[i]
       /\ \A i \in Lines' : i \in Lines \/ \E k \in DOMAIN lines : i = Len(out) + k
       /\ \A k \in DOMAIN lines : out'[Len(out) + k] = lines[k] /\ Len(out) + k \notin Lines
  BY <1>2, <1>3, <1>11, LinesAfter
<1>13. \A i \in Lines : out[i].op = "free" => out[i].use \subseteq Dead
  BY DEF Dead
<1>14. Dead' \subseteq Dead \union strings_to_free_
  <2>1. Dead' = UNION {out'[i].use : i \in {k \in Lines' : out'[k].op = "free"}}
    BY DEF Dead
  <2>2. \A i \in Lines' : out'[i].op = "free" => out'[i].use \subseteq Dead \union strings_to_free_
    BY <1>9, <1>11, <1>12, <1>13
  <2> QED
    BY <2>1, <2>2
<1>15. \A k \in DOMAIN lines : lines[k].use \intersect Dead = {}
  BY <1>3, <1>7, <1>8, <1>9, <1>11 DEF SlatedAlive
<1>16. FreedLast'
  <2> SUFFICES ASSUME NEW i \in Lines', NEW j \in Lines', i < j, out'[i].op = "free"
               PROVE  out'[i].use \intersect out'[j].use = {}
    BY DEF FreedLast
  <2>1. CASE i \in Lines /\ j \in Lines
    BY <1>3, <1>12, <2>1 DEF FreedLast
  <2>2. CASE i \in Lines /\ j \notin Lines
    BY <1>12, <1>13, <1>15, <2>2
  <2>3. CASE i \notin Lines
    <3>1. Len(out) \in Nat /\ DOMAIN lines \subseteq Nat \ {0} /\ Lines = 1..Len(out)
      BY <1>3, <1>11, LenProperties DEF TypeOK, IsTuple, Lines
    <3>2. PICK k \in DOMAIN lines : i = Len(out) + k /\ out'[i] = lines[k]
      BY <1>12, <2>3
    <3>3. j \notin Lines
      BY <3>1, <3>2
    <3>4. PICK m \in DOMAIN lines : j = Len(out) + m /\ out'[j] = lines[m]
      BY <1>12, <3>3
    <3>5. k < m
      BY <3>1, <3>2, <3>4
    <3> QED
      BY <1>10, <1>11, <3>2, <3>4, <3>5
  <2> QED
    BY <2>1, <2>2, <2>3
<1>17. \A r : Finished(r) => Finished(r)'
  BY ReturnNames, NamesKept
<1>18. SlatedFinished' /\ SlatedAlive'
  BY <1>1, <1>8, <1>14, <1>17 DEF SlatedFinished, SlatedAlive
<1>19. \A i \in DOMAIN todo' : \E m \in DOMAIN todo : m > 1 /\ todo'[i] = todo[m]
  BY <1>1, <1>3, <1>4, Entries, NoEntries
<1>20. ASSUME NEW m \in DOMAIN todo, m > 1, NEW n \in Uses(todo[m]), n \in D
       PROVE  register_reference_[n] \notin Dead \union strings_to_free_
  <2>1. register_reference_[n] \notin Dead
    BY <1>3, <1>20 DEF OperandsAlive, D
  <2>2. Due(m, n)
    BY <1>3, <1>20 DEF Pending
  <2>3. 1 \in 1..m - 1
    BY <1>4, <1>20
  <2>4. PICK j \in 1..m - 1 : n \in Visits(todo[j]) \union Owns(todo[j])
    BY <1>4, <2>2, <2>3 DEF Due
  <2>5. j \in DOMAIN todo
    BY <1>3, <1>20, <2>4, LenProperties DEF TypeOK
  <2>6. n \in Owns(todo[j])
    BY <1>3, <1>20, <2>4, <2>5 DEF Unvisited, D
  <2>7. ~Finished(register_reference_[n])
    BY <2>5, <2>6, OwnedUnfinished
  <2> QED
    BY <1>8, <2>1, <2>7
<1>21. OperandsAlive'
  <2> SUFFICES ASSUME NEW i \in DOMAIN todo', NEW n \in Uses(todo'[i]), n \in D
               PROVE  register_reference_[n] \notin Dead'
    BY <1>1 DEF OperandsAlive, D, Uses
  <2> QED
    BY <1>14, <1>19, <1>20
<1>22. IntegersUnslated'
  <2>1. \A i, j \in DOMAIN todo' : todo'[i].op = "return" /\ todo'[i].type = "int" =>
          todo'[i].arg \notin StringNode(todo'[j])
    BY <1>3, <1>19 DEF IntegersUnslated
  <2> QED
    BY <1>1, <2>1 DEF IntegersUnslated, StringNode
<1> QED
  BY <1>16, <1>18, <1>21, <1>22 DEF FInv

LEMMA InitFInv == Init => FInv
<1> SUFFICES ASSUME Init PROVE FInv
  OBVIOUS
<1>1. DOMAIN todo = {} /\ Lines = {} /\ strings_to_free_ = {}
  BY NoEntries, EmptySeq DEF Init, Lines
<1>2. Dead = {}
  BY <1>1 DEF Dead
<1> QED
  BY <1>1, <1>2 DEF FInv, SlatedFinished, SlatedAlive, FreedLast, OperandsAlive, IntegersUnslated

LEMMA RestsKeepsStrings ==
  ASSUME RInv, FInv, Rests
  PROVE  FInv'
<1>1. UNCHANGED <<todo, out, register_reference_, strings_to_free_>>
  BY DEF Rests
<1>2. UNCHANGED <<Lines, Dead>>
  BY <1>1 DEF Lines, Dead
<1>3. SlatedFinished' /\ SlatedAlive'
  BY <1>1, <1>2, RestsKeeps DEF FInv, SlatedFinished, SlatedAlive
<1>4. FreedLast'
  BY <1>1, <1>2 DEF FInv, FreedLast
<1>5. OperandsAlive' /\ IntegersUnslated'
  BY <1>1, <1>2 DEF FInv, OperandsAlive, IntegersUnslated, Uses, StringNode
<1> QED
  BY <1>3, <1>4, <1>5 DEF FInv

LEMMA NextFInv ==
  ASSUME SymbolsAssumption, BoundsAssumption, NoTmpSymbol, IInv, VInv, RInv, FInv, [Next]_vars
  PROVE  FInv'
BY StepsAre, RunsKeepStrings, RestsKeepsStrings, ReturnKeepsStrings, DeclaringKeepsStrings

LEMMA Strings ==
  ASSUME NoTmpSymbol
  PROVE  Spec => [](IInv /\ VInv /\ RInv /\ FInv)
<1>1. Init => RInv /\ FInv
  BY InitRInv, InitFInv
<1>2. IInv /\ VInv /\ RInv /\ FInv /\ [Next]_vars => RInv' /\ FInv'
  BY NextRInv, NextFInv, SymbolsAssumption, BoundsAssumption
<1> QED
  BY <1>1, <1>2, Invariance, Values, PTL DEF Spec

(* In a program without a variable called tmp, a return frees what no other    *)
(* return frees and nothing later in its block uses (FreedLast: nor anything   *)
(* later anywhere): a string is slated once, when its concatenation is written; the copy is made before     *)
(* the original is freed; and no visit method under way reads it again.        *)
THEOREM StringsFreedOnceAndLast ==
  ASSUME NoTmpSymbol
  PROVE  Spec => []FreedOnceAndLast
<1>1. FInv => FreedOnceAndLast
  BY DEF FInv, FreedLast, FreedOnceAndLast
<1> QED
  BY <1>1, Strings, PTL

-----------------------------------------------------------------------------
(* The registers that are defined.                                           *)

(* The registers that lines may have defined: the copies of returns, the       *)
(* temporaries of finished nodes, addresses of constants, loads of variables  *)
(* and the variables themselves.                                             *)
Taken(r) ==
  \/ r = ReturnCopy
  \/ Finished(r)
  \/ \E k \in Nat : k < const_string_next_id_ /\ r = StrReg(k)
  \/ \E s \in Symbols : r.name = NameOf[s] /\ r.id \in 1..variable_counts_[s]
  \/ \E s \in declared : r.name = NameOf[s] /\ r.id = NoId

DefinitionsTaken == \A i \in Lines : \A r \in LineDefines(out[i]) : Taken(r)

DefinedOnce ==
  \A i, j \in Lines : i # j =>
    LineDefines(out[i]) \intersect LineDefines(out[j]) \subseteq {ReturnCopy}

DInv == DefinitionsTaken /\ DefinedOnce

LEMMA TakenKept ==
  ASSUME TypeOK, TypeOK', CountsGrow, \A r : Finished(r) => Finished(r)'
  PROVE  \A r : Taken(r) => Taken(r)'
<1>1. /\ const_string_next_id_ \in Nat /\ const_string_next_id_' \in Nat
      /\ const_string_next_id_' >= const_string_next_id_
      /\ declared \subseteq declared'
      /\ \A s \in Symbols : /\ variable_counts_[s] \in Nat /\ variable_counts_'[s] \in Nat
                            /\ variable_counts_'[s] >= variable_counts_[s]
  BY DEF TypeOK, CountsGrow
<1> SUFFICES ASSUME NEW r, Taken(r)
             PROVE  Taken(r)'
  OBVIOUS
<1>2. CASE r = ReturnCopy
  BY <1>2 DEF Taken
<1>3. CASE Finished(r)
  BY <1>3 DEF Taken
<1>4. ASSUME NEW k \in Nat, k < const_string_next_id_, r = StrReg(k)
      PROVE  Taken(r)'
  <2>1. k < const_string_next_id_'
    BY <1>1, <1>4
  <2>2. \E m \in Nat : m < const_string_next_id_' /\ r = StrReg(m)
    BY <1>4, <2>1
  <2> QED
    BY <2>2, Zenon DEF Taken
<1>5. ASSUME NEW s \in Symbols, r.name = NameOf[s], r.id \in 1..variable_counts_[s]
      PROVE  Taken(r)'
  <2>1. r.id \in 1..variable_counts_'[s]
    BY <1>1, <1>5
  <2>2. \E t \in Symbols : r.name = NameOf[t] /\ r.id \in 1..variable_counts_'[t]
    BY <1>5, <2>1
  <2> QED
    BY <2>2, Zenon DEF Taken
<1>6. ASSUME NEW s \in declared, r.name = NameOf[s], r.id = NoId
      PROVE  Taken(r)'
  BY <1>1, <1>6 DEF Taken
<1> QED
  BY <1>2, <1>3, <1>4, <1>5, <1>6 DEF Taken

(* New lines define what was not taken.                                      *)
LEMMA LinesDefine ==
  ASSUME TypeOK, DInv, NEW lines, IsTuple(lines), Emit(lines),
         \A r : Taken(r) => Taken(r)',
         \A i \in DOMAIN lines : \A r \in LineDefines(lines[i]) :
           r = ReturnCopy \/ (~Taken(r) /\ Taken(r)'),
         \A i, j \in DOMAIN lines : i # j =>
           LineDefines(lines[i]) \intersect LineDefines(lines[j]) \subseteq {ReturnCopy}
  PROVE  DInv'
<1>1. /\ \A i \in Lines : i \in Lines' /\ out'[i] = out[i]
      /\ \A i \in Lines' : i \in Lines \/ \E k \in DOMAIN lines : i = Len(out) + k
      /\ \A k \in DOMAIN lines : out'[Len(out) + k] = lines[k]
  BY LinesAfter
<1>2. \A i \in Lines' : i \in Lines \/ \E k \in DOMAIN lines : i = Len(out) + k /\ out'[i] = lines[k]
  BY <1>1
<1>3. \A i : LineDefines(out[i])' = LineDefines(out'[i])
  BY DEF LineDefines
<1>4. Taken(ReturnCopy)'
  BY DEF Taken
<1>5. DefinitionsTaken'
  <2> SUFFICES ASSUME NEW i \in Lines', NEW r \in LineDefines(out'[i])
               PROVE  Taken(r)'
    BY <1>3 DEF DefinitionsTaken
  <2>1. CASE i \in Lines
    BY <1>1, <2>1 DEF DInv, DefinitionsTaken
  <2>2. CASE i \notin Lines
    BY <1>2, <1>4, <2>2
  <2> QED
    BY <2>1, <2>2
<1>6. DefinedOnce'
  <2> SUFFICES ASSUME NEW i \in Lines', NEW j \in Lines', i # j,
                      NEW r \in LineDefines(out'[i]), r \in LineDefines(out'[j]), r # ReturnCopy
               PROVE  FALSE
    BY <1>3 DEF DefinedOnce
  <2>1. \A m \in Lines : r \in LineDefines(out'[m]) => Taken(r)
    BY <1>1 DEF DInv, DefinitionsTaken
  <2>2. \A k \in DOMAIN lines : r \in LineDefines(lines[k]) => ~Taken(r)
    OBVIOUS
  <2>3. CASE i \in Lines /\ j \in Lines
    BY <1>1, <2>3 DEF DInv, DefinedOnce
  <2>4. CASE i \in Lines /\ j \notin Lines
    BY <1>2, <2>1, <2>2, <2>4
  <2>5. CASE i \notin Lines /\ j \in Lines
    BY <1>2, <2>1, <2>2, <2>5
  <2>6. CASE i \notin Lines /\ j \notin Lines
    <3>1. PICK k \in DOMAIN lines : i = Len(out) + k /\ out'[i] = lines[k]
      BY <1>2, <2>6
    <3>2. PICK m \in DOMAIN lines : j = Len(out) + m /\ out'[j] = lines[m]
      BY <1>2, <2>6
    <3>3. k # m
      BY <3>1, <3>2
    <3> QED
      BY <3>1, <3>2, <3>3
  <2> QED
    BY <2>3, <2>4, <2>5, <2>6
<1> QED
  BY <1>5, <1>6 DEF DInv

(* The names of the kinds of registers are apart.                            *)
LEMMA TakenMeans ==
  ASSUME NamesApart, TypeOK
  PROVE  /\ \A s \in Symbols : \A r : r.name = NameOf[s] /\ r.id \in Nat =>
              (Taken(r) => r.id \in 1..variable_counts_[s])
         /\ \A s \in Symbols \ declared : \A r : r.name = NameOf[s] /\ r.id = NoId => ~Taken(r)
         /\ \A k \in Nat : Taken(StrReg(k)) => k < const_string_next_id_
         /\ \A r : IsTmp(r) => (Taken(r) => Finished(r))
<1>1. /\ \A s, t \in Symbols : NameOf[s] = NameOf[t] => s = t
      /\ \A s \in Symbols : NameOf[s] # "tmp" /\ NameOf[s] # "str"
  BY DEF NamesApart
<1>2. /\ NoId \notin Nat /\ declared \subseteq Symbols
      /\ \A s \in Symbols : 1..variable_counts_[s] \subseteq Nat
  BY DEF NoId, TypeOK
<1>3. "tmp" # "str"
  OBVIOUS
<1>4. /\ ReturnCopy.name = "tmp" /\ ReturnCopy.id = NoId
      /\ \A k : StrReg(k).name = "str" /\ StrReg(k).id = k
      /\ \A r : IsTmp(r) => r.name = "tmp" /\ r.id \in Nat
  BY RegisterFields, NotTmps
<1>5. \A r : Finished(r) => r.name = "tmp"
  BY <1>4 DEF Finished
<1>6. ASSUME NEW s \in Symbols, NEW r, r.name = NameOf[s], r.id \in Nat, Taken(r)
      PROVE  r.id \in 1..variable_counts_[s]
  <2>1. r # ReturnCopy /\ ~Finished(r) /\ \A k : r # StrReg(k)
    BY <1>1, <1>4, <1>5, <1>6
  <2>2. \E t \in Symbols : r.name = NameOf[t] /\ r.id \in 1..variable_counts_[t]
    BY <1>2, <1>6, <2>1 DEF Taken
  <2> QED
    BY <1>1, <1>6, <2>2
<1>7. ASSUME NEW s \in Symbols \ declared, NEW r, r.name = NameOf[s], r.id = NoId, Taken(r)
      PROVE  FALSE
  <2>1. r # ReturnCopy /\ ~Finished(r) /\ \A k : r # StrReg(k)
    BY <1>1, <1>4, <1>5, <1>7
  <2>2. \E t \in declared : r.name = NameOf[t]
    BY <1>2, <1>7, <2>1 DEF Taken
  <2> QED
    BY <1>1, <1>2, <1>7, <2>2
<1>8. ASSUME NEW k \in Nat, Taken(StrReg(k))
      PROVE  k < const_string_next_id_
  <2> DEFINE r == StrReg(k)
  <2>1. r.name = "str" /\ r.id = k
    BY <1>4
  <2> HIDE DEF r
  <2>2. r # ReturnCopy /\ ~Finished(r) /\ \A s \in Symbols : r.name # NameOf[s]
    BY <1>1, <1>3, <1>4, <1>5, <2>1
  <2>3. \E m \in Nat : m < const_string_next_id_ /\ r = StrReg(m)
    <3>1. Taken(r)
      BY <1>8 DEF r
    <3> QED
      BY <1>2, <2>2, <3>1 DEF Taken
  <2> QED
    BY <1>4, <2>1, <2>3
<1>9. ASSUME NEW r, IsTmp(r), Taken(r)
      PROVE  Finished(r)
  <2>1. r.name = "tmp" /\ r.id \in Nat
    BY <1>4, <1>9
  <2>2. r # ReturnCopy /\ (\A k : r # StrReg(k)) /\ \A s \in Symbols : r.name # NameOf[s]
    BY <1>1, <1>2, <1>3, <1>4, <2>1
  <2> QED
    BY <1>2, <1>9, <2>2 DEF Taken
<1> QED
  BY <1>6, <1>7, <1>8, <1>9

LEMMA NewlyTaken ==
  ASSUME NamesApart, TypeOK', IInv, VInv, RInv, NEW items, NEW lines,
         Walks(items, lines), Gives(lines), CountsGrow
  PROVE  \A i \in DOMAIN lines : \A r \in LineDefines(lines[i]) : ~Taken(r) /\ Taken(r)'
<1>1. TypeOK
  BY DEF IInv
<1>2. todo # <<>> /\ Names(items) /\ 1 \in DOMAIN todo /\ Top = todo[1]
  BY <1>1, TopEntry DEF Walks, Names
<1>3. CASE \A i \in DOMAIN lines : LineDefines(lines[i]) = {}
  BY <1>3
<1>4. ASSUME DOMAIN lines = {1}, NEW r, LineDefines(lines[1]) = {r},
             NEW s \in Symbols, VisitVariable(s), r = Load(s, VarCount(s))
      PROVE  ~Taken(r) /\ Taken(r)'
  <2>1. /\ variable_counts_[s] \in Nat /\ VarCount(s) = variable_counts_[s] + 1
        /\ variable_counts_'[s] = VarCount(s)
    BY <1>1, <1>4 DEF VisitVariable, TypeOK, VarCount
  <2>2. r.name = NameOf[s] /\ r.id = VarCount(s)
    BY <1>4, RegisterFields
  <2>3. ~Taken(r)
    BY <1>1, <2>1, <2>2, TakenMeans
  <2>4. r.id \in 1..variable_counts_'[s]
    BY <2>1, <2>2
  <2>5. \E t \in Symbols : r.name = NameOf[t] /\ r.id \in 1..variable_counts_'[t]
    BY <2>2, <2>4
  <2>6. Taken(r)'
    BY <2>5, Zenon DEF Taken
  <2> QED
    BY <2>3, <2>6
<1>5. ASSUME DOMAIN lines = {1}, NEW r, LineDefines(lines[1]) = {r},
             VisitConstString, r = StrReg(const_string_next_id_)
      PROVE  ~Taken(r) /\ Taken(r)'
  <2>1. const_string_next_id_ \in Nat /\ const_string_next_id_' = const_string_next_id_ + 1
    BY <1>1, <1>5 DEF VisitConstString, TypeOK
  <2>2. ~Taken(r)
    BY <1>1, <1>5, <2>1, TakenMeans
  <2>3. \E k \in Nat : k < const_string_next_id_' /\ r = StrReg(k)
    BY <1>5, <2>1
  <2>4. Taken(r)'
    BY <2>3, Zenon DEF Taken
  <2> QED
    BY <2>2, <2>4
<1>6. ASSUME DOMAIN lines = {1}, NEW r, LineDefines(lines[1]) = {r},
             UNCHANGED register_reference_, Top.node \in Owns(Top),
             r = register_reference_[Top.node]
      PROVE  ~Taken(r) /\ Taken(r)'
  <2>1. IsTmp(r) /\ ~Finished(r)
    BY <1>2, <1>6, OwnedUnfinished DEF RInv, OwnersTmp
  <2>2. Finished(r)'
    BY <1>2, <1>6, NamesKept
  <2> QED
    BY <1>1, <2>1, <2>2, TakenMeans DEF Taken
<1> QED
  BY <1>3, <1>4, <1>5, <1>6 DEF Gives

LEMMA NextDInv ==
  ASSUME SymbolsAssumption, BoundsAssumption, NamesApart, IInv, TypeOK', VInv, RInv, DInv,
         [Next]_vars
  PROVE  DInv'
<1>1. TypeOK /\ NoTmpSymbol
  BY DEF IInv, NamesApart, NoTmpSymbol
<1>2. \A r : Finished(r) => Finished(r)'
  BY <1>1, NextRInv
<1>3. CASE Runs
  <2>1. PICK items, lines : Walks(items, lines) /\ Gives(lines) /\ CountsGrow
    BY <1>3 DEF Runs
  <2>2. \A r : Taken(r) => Taken(r)'
    BY <1>1, <1>2, <2>1, TakenKept
  <2>3. \A i \in DOMAIN lines : \A r \in LineDefines(lines[i]) : ~Taken(r) /\ Taken(r)'
    BY <2>1, NewlyTaken
  <2>4. \A i, j \in DOMAIN lines : i # j =>
          LineDefines(lines[i]) \intersect LineDefines(lines[j]) \subseteq {ReturnCopy}
    BY <2>1 DEF Gives
  <2> QED
    BY <1>1, <2>1, <2>2, <2>3, <2>4, LinesDefine DEF Walks
<1>4. CASE Rests
  <2>1. UNCHANGED <<out, const_string_next_id_, variable_counts_, declared>>
    BY <1>4 DEF Rests
  <2>2. \A r : Taken(r) => Taken(r)'
    BY <1>2, <2>1 DEF Taken
  <2>3. Lines' = Lines /\ \A i : LineDefines(out[i])' = LineDefines(out[i])
    BY <2>1 DEF Lines, LineDefines
  <2>4. DefinitionsTaken'
    BY <2>2, <2>3 DEF DInv, DefinitionsTaken
  <2>5. DefinedOnce'
    BY <2>3 DEF DInv, DefinedOnce
  <2> QED
    BY <2>4, <2>5 DEF DInv
<1>5. CASE ReturnResumed
  <2> DEFINE lines == ReturnLines(Top.type, register_reference_[Top.arg])
  <2>1. Emit(lines) /\ UNCHANGED <<const_string_next_id_, variable_counts_, declared>>
    BY <1>5 DEF ReturnResumed, program, scopes, strings
  <2>2. IsTuple(lines) /\ \A i \in DOMAIN lines : LineDefines(lines[i]) \subseteq {ReturnCopy}
    BY ReturnShape
  <2> HIDE DEF lines
  <2>3. \A r : Taken(r) => Taken(r)'
    BY <1>1, <1>2, <2>1, CountsStay, TakenKept
  <2>4. \A i \in DOMAIN lines : \A r \in LineDefines(lines[i]) : r = ReturnCopy
    BY <2>2
  <2>5. \A i, j \in DOMAIN lines : i # j =>
          LineDefines(lines[i]) \intersect LineDefines(lines[j]) \subseteq {ReturnCopy}
    BY <2>2
  <2> QED
    BY <1>1, <2>1, <2>2, <2>3, <2>4, <2>5, LinesDefine
<1>6. ASSUME NEW lines, Introduces(lines), GivesNames(lines)
      PROVE  DInv'
  <2>1. /\ IsTuple(lines) /\ Emit(lines) /\ declared \subseteq declared'
        /\ UNCHANGED <<const_string_next_id_, variable_counts_>>
    BY <1>6 DEF Introduces
  <2>2. \A r : Taken(r) => Taken(r)'
    BY <1>1, <1>2, <2>1, CountsStay, TakenKept
  <2>3. ASSUME NEW i \in DOMAIN lines, NEW r \in LineDefines(lines[i])
        PROVE  ~Taken(r) /\ Taken(r)'
    <3>1. PICK s \in Symbols \ declared : s \in declared' /\ r.name = NameOf[s] /\ r.id = NoId
      BY <1>6, <2>3 DEF GivesNames
    <3>2. ~Taken(r)
      BY <1>1, <3>1, TakenMeans
    <3>3. \E t \in declared' : r.name = NameOf[t] /\ r.id = NoId
      BY <3>1
    <3>4. Taken(r)'
      BY <3>3, Zenon DEF Taken
    <3> QED
      BY <3>2, <3>4
  <2>4. \A i, j \in DOMAIN lines : i # j =>
          LineDefines(lines[i]) \intersect LineDefines(lines[j]) \subseteq {ReturnCopy}
    BY <1>6 DEF GivesNames
  <2> QED
    BY <1>1, <2>1, <2>2, <2>3, <2>4, LinesDefine
<1> QED
  BY <1>1, <1>3, <1>4, <1>5, <1>6, StepsAre

LEMMA Definitions ==
  ASSUME NamesApart
  PROVE  Spec => []DInv
<1>1. NoTmpSymbol
  BY DEF NamesApart, NoTmpSymbol
<1>2. Init => DInv
  <2>1. Init => Lines = {}
    BY EmptySeq DEF Init, Lines
  <2> QED
    BY <2>1 DEF DInv, DefinitionsTaken, DefinedOnce
<1>3. IInv /\ IInv' /\ VInv /\ RInv /\ DInv /\ [Next]_vars => DInv'
  BY NextDInv, SymbolsAssumption, BoundsAssumption DEF IInv
<1>4. Spec => [](IInv /\ VInv /\ RInv /\ FInv)
  BY <1>1, Strings
<1> QED
  BY <1>2, <1>3, <1>4, PTL DEF Spec

(* In a program whose names are apart, no register is defined twice, whatever   *)
(* the AST: the number a temporary takes, the size of register_reference_ when *)
(* its node is visited, is not taken again while the operands are emitted; a  *)
(* load is numbered by its variable's counter, which no function resets.       *)
(* (Two declarations of one name break it: the run "shadowing".)              *)
THEOREM RegistersAlwaysNamedOnce ==
  ASSUME NamesApart
  PROVE  Spec => []RegistersNamedOnce
<1>1. \A i : Defines(i) = LineDefines(out[i])
  BY DEF Defines, LineDefines
<1>2. IInv /\ DInv => RegistersNamedOnce
  <2> SUFFICES ASSUME IInv, DInv, NEW i \in Lines, NEW j \in Lines, i < j
               PROVE  Defines(i) \intersect Defines(j) \subseteq {ReturnCopy}
    BY DEF RegistersNamedOnce
  <2>1. Lines \subseteq Nat
    BY LenProperties DEF IInv, TypeOK, Lines
  <2>2. i # j
    BY <2>1
  <2> QED
    BY <1>1, <2>2 DEF DInv, DefinedOnce
<1> QED
  BY <1>2, Definitions, Invariance, PTL
=============================================================================
