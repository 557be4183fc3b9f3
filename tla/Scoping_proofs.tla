---------------------------- MODULE Scoping_proofs ----------------------------
(***************************************************************************)
(* Theorems about the parser's tables (symbol_table.cpp): the chain of them   *)
(* implements the environments of LexicalScope, the variables marked as       *)
(* global are those of its first table, and that table agrees with the lines  *)
(* that are written, declarations, definitions and calls.                     *)
(*                                                                          *)
(* First, what is about to be declared is in no table yet (Fresh).  Then what  *)
(* lookup finds from the n-th table outwards (MeaningIn) is related to the     *)
(* n-th environment, for each of the ways in which the tables change.  Then    *)
(* only what is outside of blocks declares in the first table (Nested), and    *)
(* what it declares is marked when the external declaration ends (Addressed). *)
(* Then, what has been written is what the first table says, which only grows, *)
(* and what that table has is written or about to be (Lined, Grows).  Last, a  *)
(* definition finds its heading at the end of the output (Headed).            *)
(***************************************************************************)
EXTENDS Parser_proofs

(* New objects.  A function's parameters are older than the function, and what *)
(* is yet to be declared is in no table: declarators between a declaration's   *)
(* beginning and its end, parameters up to the beginning of their function.    *)
Fresh ==
  /\ \A s \in DOMAIN heap : \A a \in Elements(heap[s].args) : a < s
  /\ Elements(parameters) \intersect (InTables \union Elements(declarators)) = {}
  /\ ~Ahead("external_declaration") => Elements(declarators) \intersect InTables = {}
  /\ Ahead("decl_glb_fct") =>
       /\ parameters = <<>>
       /\ Elements(heap[last_function_].args)
            \intersect (InTables \union Elements(declarators)) = {}

(* Only a function's declarator leads to the end of it, and only a declaration *)
(* outside of functions to the end of an external one.                        *)
LEMMA NamedNext ==
  ASSUME PInv, Running, expected # <<>>, Become(<<>>), Ahead("decl_glb_fct")'
  PROVE  Top.k = "function_declarator" /\ Top.n = 0
<1> DEFINE t == Top
           e == expected'
           h == Head(e)
<1>1. PICK u, m \in Situation : Effect(t, u, m) /\ Leads(e, m, Start)
  <2>1. PICK u, m \in Situation :
          /\ Effect(Top, u, m)
          /\ \A items, x : (IsTuple(items) /\ Become(items) /\ Leads(items, x, m))
                             => Leads(expected', x, Start)
    BY Facing
  <2>2. Leads(expected', m, Start)
    BY <2>1, LeadsNone, ShortTuples
  <2> QED
    BY <2>1, <2>2
<1>2. e # <<>> /\ IsTuple(e) /\ h.k = "decl_glb_fct"
  <2>1. IsSentence(<<>>)
    BY Sentences
  <2>2. IsSentence(expected')
    BY <2>1, NextSentence DEF PInv
  <2> QED
    BY <2>2 DEF Ahead, Top, IsSentence
<1> HIDE DEF t, e
<1>3. PICK n \in Situation : Effect(h, m, n)
  BY <1>1, <1>2, LeadsFirst
<1> HIDE DEF h
<1>4. m.stage = "named"
  BY <1>2, <1>3 DEF Effect, Passes, Works, Anywhere, InBody, Claimed, Sit
<1>5. t.k = "function_declarator" /\ t.n = 0
  <2>1. CASE Passes(t, u, m)
    BY <1>4, <2>1 DEF Passes, Claimed, Sit, Start, Defined, Written
  <2>2. CASE Works(t, u, m)
    BY <1>4, <2>2 DEF Works, Sit
  <2> QED
    BY <1>1, <2>1, <2>2 DEF Effect
<1> QED
  BY <1>5 DEF t

LEMMA DeclarationEnds ==
  ASSUME PInv, Running, expected # <<>>, Top.k = "declaration", Top.name = "global",
         Become(<<>>)
  PROVE  Ahead("external_declaration")'
<1> DEFINE t == Top
           e == expected'
           h == Head(e)
<1>1. PICK u, m \in Situation : Effect(t, u, m) /\ Leads(e, m, Start)
  <2>1. PICK u, m \in Situation :
          /\ Effect(Top, u, m)
          /\ \A items, x : (IsTuple(items) /\ Become(items) /\ Leads(items, x, m))
                             => Leads(expected', x, Start)
    BY Facing
  <2>2. Leads(expected', m, Start)
    BY <2>1, LeadsNone, ShortTuples
  <2> QED
    BY <2>1, <2>2
<1>2. t.k = "declaration" /\ t.name = "global"
  OBVIOUS
<1>3. IsTuple(e)
  <2>1. IsSentence(<<>>)
    BY Sentences
  <2> QED
    BY <2>1, NextSentence DEF PInv, IsSentence
<1> HIDE DEF t
<1>4. m = Written
  BY <1>1, <1>2 DEF Effect, Passes, Works, Anywhere, InBody
<1>5. e # <<>>
  <2>1. ASSUME e = <<>>
        PROVE  m = Start
    <3>1. Leads(<<>>, m, Start)
      BY <1>1, <2>1
    <3>2. Len(<<>>) = 0
      BY EmptySeq
    <3> QED
      BY <3>1, <3>2 DEF Leads
  <2> QED
    BY <1>4, <2>1 DEF Start, Written, Sit
<1> HIDE DEF e
<1>6. PICK n \in Situation : Effect(h, m, n)
  BY <1>1, <1>3, <1>5, LeadsFirst
<1>7. h.k = "external_declaration"
  <2> HIDE DEF h
  <2>1. m.stage = "written"
    BY <1>4 DEF Written, Sit
  <2> QED
    BY <1>6, <2>1 DEF Effect, Passes, Works, Sit, Start, Claimed, Defined, Written
<1> QED
  BY <1>5, <1>7 DEF Ahead, Top, e, h

(* The objects that are there, and those that others name.                    *)
LEMMA Objects ==
  ASSUME PInv
  PROVE  /\ Len(heap) \in Nat /\ DOMAIN heap = 1..Len(heap)
         /\ InTables \subseteq 1..Len(heap) /\ Elements(declarators) \subseteq 1..Len(heap)
         /\ Elements(parameters) \subseteq 1..Len(heap)
         /\ \A s \in 1..Len(heap) :
              heap[s].args \in Seq(1..Len(heap)) /\ Elements(heap[s].args) \subseteq 1..Len(heap)
<1>1. Parts /\ Len(heap) \in Nat /\ DOMAIN heap = 1..Len(heap)
  BY DataParts DEF PInv
<1>2. InTables \subseteq 1..Len(heap)
  BY <1>1 DEF InTables, PInv, Data, TypeOK
<1>3. /\ Elements(declarators) \subseteq 1..Len(heap)
      /\ Elements(parameters) \subseteq 1..Len(heap)
  BY <1>1, ListAppended DEF Parts
<1>4. ASSUME NEW s \in 1..Len(heap)
      PROVE  heap[s].args \in Seq(1..Len(heap)) /\ Elements(heap[s].args) \subseteq 1..Len(heap)
  <2>1. heap[s] \in Object(Len(heap))
    BY <1>1, ElementOfSeq DEF Parts, GoodHeap
  <2>2. heap[s].args \in Seq(1..Len(heap))
    BY <2>1 DEF Object
  <2> QED
    BY <1>1, <2>2, ListAppended
<1> QED
  BY <1>1, <1>2, <1>3, <1>4

LEMMA StaysFresh ==
  ASSUME Fresh, ~Ahead("external_declaration"), ~Ahead("decl_glb_fct")',
         UNCHANGED <<declarators, parameters, heap, symbol_table>>
  PROVE  Fresh'
<1>1. /\ InTables' = InTables /\ heap' = heap
      /\ Elements(declarators') = Elements(declarators)
      /\ Elements(parameters') = Elements(parameters)
  BY DEF InTables
<1> QED
  BY <1>1 DEF Fresh

LEMMA HaltsFresh ==
  ASSUME Fresh, UNCHANGED <<expected, lists, last_function_, scopes>>
  PROVE  Fresh'
<1>1. /\ InTables' = InTables /\ heap' = heap /\ last_function_' = last_function_
      /\ Elements(declarators') = Elements(declarators) /\ parameters' = parameters
      /\ Elements(parameters') = Elements(parameters)
      /\ (Ahead("external_declaration")' <=> Ahead("external_declaration"))
      /\ (Ahead("decl_glb_fct")' <=> Ahead("decl_glb_fct"))
  BY DEF InTables, Ahead, Top, lists, scopes
<1> QED
  BY <1>1 DEF Fresh

(* A rule that reduces to values only.                                       *)
LEMMA ReducedFresh ==
  ASSUME PInv, Fresh, NEW k, At(k), k \notin {"external_declaration", "function_declarator"},
         Become(<<>>), UNCHANGED <<declarators, parameters, heap, symbol_table>>
  PROVE  Fresh'
<1>1. Running /\ expected # <<>> /\ Top.k = k
  BY DEF At, Top
<1>2. ~Ahead("external_declaration") /\ ~Ahead("decl_glb_fct")'
  BY <1>1, NamedNext DEF Ahead
<1> QED
  BY <1>2, StaysFresh

LEMMA Appended ==
  ASSUME NEW s, IsTuple(s), NEW a
  PROVE  /\ IsTuple(Append(s, a)) /\ Len(s) \in Nat /\ DOMAIN s = 1..Len(s)
         /\ Len(Append(s, a)) = Len(s) + 1 /\ DOMAIN Append(s, a) = 1..Len(s) + 1
         /\ Append(s, a)[Len(s) + 1] = a
         /\ \A i \in 1..Len(s) : Append(s, a)[i] = s[i]
<1> DEFINE S == {s[i] : i \in DOMAIN s} \union {a}
           r == Append(s, a)
<1>1. s \in Seq(S) /\ a \in S
  <2>1. s \in Seq({s[i] : i \in DOMAIN s}) /\ {s[i] : i \in DOMAIN s} \subseteq S /\ a \in S
    BY DEF IsTuple
  <2> HIDE DEF S
  <2> QED
    BY <2>1, SeqMonotonic
<1> HIDE DEF S
<1>2. /\ r \in Seq(S) /\ Len(r) = Len(s) + 1 /\ r[Len(s) + 1] = a
      /\ \A i \in 1..Len(s) : r[i] = s[i]
  BY <1>1, AppendProperties
<1> HIDE DEF r
<1>3. Len(s) \in Nat /\ DOMAIN s = 1..Len(s) /\ DOMAIN r = 1..Len(s) + 1 /\ IsTuple(r)
  BY <1>1, <1>2, LenProperties, Tuples
<1> QED
  BY <1>2, <1>3 DEF r

(* A new object at the end of the heap, whose parameters are older.            *)
LEMMA ObjectAdded ==
  ASSUME PInv, NEW g, IsTuple(g), Len(g) = Len(heap), NEW s, heap' = Append(g, s),
         \A i \in 1..Len(heap) : g[i].args = heap[i].args
  PROVE  /\ Len(heap') = Len(heap) + 1 /\ DOMAIN heap' = 1..Len(heap) + 1
         /\ \A i \in 1..Len(heap) : heap'[i].args = heap[i].args
         /\ heap'[Len(heap) + 1] = s
<1> DEFINE r == Append(g, s)
<1>1. /\ Len(r) = Len(g) + 1 /\ DOMAIN r = 1..Len(g) + 1 /\ r[Len(g) + 1] = s
      /\ \A i \in 1..Len(g) : r[i] = g[i]
  BY Appended
<1>2. heap' = r
  OBVIOUS
<1> HIDE DEF r
<1> QED
  BY <1>1, <1>2

LEMMA DeclaratorFresh ==
  ASSUME PInv, Fresh, NEW x \in Names, Declarator(x)
  PROVE  Fresh'
<1> DEFINE n == Len(heap)
           s == NewSymbol(x, "none")
<1>1. /\ At("declarator") /\ Become(<<>>) /\ heap' = Append(heap, s)
      /\ declarators' = Append(declarators, Len(heap')) /\ parameters' = parameters
      /\ symbol_table' = symbol_table
  BY DEF Declarator, At
<1>2. ~Ahead("external_declaration") /\ ~Ahead("decl_glb_fct")'
  BY <1>1, NamedNext DEF Ahead, At, Top
<1>3. /\ n \in Nat /\ DOMAIN heap = 1..n /\ InTables \subseteq 1..n
      /\ Elements(declarators) \subseteq 1..n /\ Elements(parameters) \subseteq 1..n
  BY Objects
<1>4. s.args = <<>> /\ Elements(<<>>) = {}
  BY ShortItems DEF NewSymbol, Elements
<1> HIDE DEF s
<1>5. /\ Len(heap') = n + 1 /\ DOMAIN heap' = 1..n + 1
      /\ \A i \in 1..n : heap'[i].args = heap[i].args
      /\ heap'[n + 1] = s
  <2>1. IsTuple(heap)
    BY DataParts, Tuples DEF PInv, Parts, GoodHeap
  <2> QED
    BY <1>1, <2>1, ObjectAdded
<1>6. Elements(declarators') = Elements(declarators) \union {n + 1}
  <2>1. declarators \in Seq(1..n)
    BY DataParts DEF PInv, Parts
  <2> QED
    BY <1>1, <1>3, <1>5, <2>1, ListAppended
<1>7. InTables' = InTables /\ Elements(parameters') = Elements(parameters)
  BY <1>1 DEF InTables
<1> HIDE DEF n
<1>8. \A i \in DOMAIN heap' : \A a \in Elements(heap'[i].args) : a < i
  <2>1. ASSUME NEW i \in DOMAIN heap', NEW a \in Elements(heap'[i].args)
        PROVE  a < i
    <3>1. CASE i \in 1..n
      BY <1>3, <1>5, <2>1, <3>1 DEF Fresh
    <3>2. CASE i = n + 1
      BY <1>4, <1>5, <2>1, <3>2
    <3> QED
      BY <1>3, <1>5, <3>1, <3>2
  <2> QED
    BY <2>1
<1>9. n + 1 \notin 1..n
  BY <1>3
<1> QED
  BY <1>2, <1>3, <1>6, <1>7, <1>8, <1>9 DEF Fresh

LEMMA ParameterFresh ==
  ASSUME PInv, Fresh, NEW x \in Names, ParameterDeclaration(x)
  PROVE  Fresh'
<1> DEFINE n == Len(heap)
           s == NewSymbol(x, Last(values))
<1>1. /\ At("parameter_declaration") /\ Become(<<>>) /\ heap' = Append(heap, s)
      /\ parameters' = Append(parameters, Len(heap')) /\ declarators' = declarators
      /\ symbol_table' = symbol_table
  BY DEF ParameterDeclaration, At
<1>2. ~Ahead("external_declaration") /\ ~Ahead("decl_glb_fct")'
  BY <1>1, NamedNext DEF Ahead, At, Top
<1>3. /\ n \in Nat /\ DOMAIN heap = 1..n /\ InTables \subseteq 1..n
      /\ Elements(declarators) \subseteq 1..n /\ Elements(parameters) \subseteq 1..n
  BY Objects
<1>4. s.args = <<>> /\ Elements(<<>>) = {}
  BY ShortItems DEF NewSymbol, Elements
<1> HIDE DEF s
<1>5. /\ Len(heap') = n + 1 /\ DOMAIN heap' = 1..n + 1
      /\ \A i \in 1..n : heap'[i].args = heap[i].args
      /\ heap'[n + 1] = s
  <2>1. IsTuple(heap)
    BY DataParts, Tuples DEF PInv, Parts, GoodHeap
  <2> QED
    BY <1>1, <2>1, ObjectAdded
<1>6. Elements(parameters') = Elements(parameters) \union {n + 1}
  <2>1. parameters \in Seq(1..n)
    BY DataParts DEF PInv, Parts
  <2> QED
    BY <1>1, <1>3, <1>5, <2>1, ListAppended
<1>7. InTables' = InTables /\ Elements(declarators') = Elements(declarators)
  BY <1>1 DEF InTables
<1> HIDE DEF n
<1>8. \A i \in DOMAIN heap' : \A a \in Elements(heap'[i].args) : a < i
  <2>1. ASSUME NEW i \in DOMAIN heap', NEW a \in Elements(heap'[i].args)
        PROVE  a < i
    <3>1. CASE i \in 1..n
      BY <1>3, <1>5, <2>1, <3>1 DEF Fresh
    <3>2. CASE i = n + 1
      BY <1>4, <1>5, <2>1, <3>2
    <3> QED
      BY <1>3, <1>5, <3>1, <3>2
  <2> QED
    BY <2>1
<1>9. n + 1 \notin 1..n
  BY <1>3
<1> QED
  BY <1>2, <1>3, <1>6, <1>7, <1>8, <1>9 DEF Fresh

LEMMA FunctionDeclaratorFresh ==
  ASSUME PInv, Fresh, FunctionDeclarator
  PROVE  Fresh'
<1> DEFINE n == Len(heap)
           A == {"FUNCTION_PARAM"}
           E == Elements(parameters)
           g == Attributed(heap, E, A)
           s == NewFunction(Top.name, ReturnType, parameters)
<1>1. /\ At("function_declarator") /\ Become(<<>>) /\ heap' = Append(g, s)
      /\ parameters' = <<>> /\ last_function_' = Len(heap')
      /\ \/ declarators' = declarators
         \/ declarators' = Append(declarators, Len(heap'))
      /\ symbol_table' = symbol_table
  BY DEF FunctionDeclarator, Attributed
<1>2. ~Ahead("external_declaration")
  BY <1>1 DEF Ahead, At, Top
<1>3. /\ n \in Nat /\ DOMAIN heap = 1..n /\ InTables \subseteq 1..n
      /\ Elements(declarators) \subseteq 1..n /\ E \subseteq 1..n
  BY Objects
<1>4. s.args = parameters /\ Elements(<<>>) = {}
  BY ShortItems DEF NewFunction, NewSymbol, Elements
<1> HIDE DEF s
<1>5. /\ Len(heap') = n + 1 /\ DOMAIN heap' = 1..n + 1
      /\ \A i \in 1..n : heap'[i].args = heap[i].args
      /\ heap'[n + 1] = s
  <2>1. A \in SUBSET {"GLOBAL", "EXTERN", "FUNCTION_PARAM"} /\ GoodHeap(heap)
    BY DataParts DEF PInv, Parts
  <2> HIDE DEF A, E
  <2>2. /\ GoodHeap(g) /\ Len(g) = n
        /\ \A i \in 1..n : g[i].args = heap[i].args
    BY <2>1, AttributesAdded
  <2>3. IsTuple(g)
    BY <2>2, Tuples DEF GoodHeap
  <2> HIDE DEF g
  <2> QED
    BY <1>1, <2>2, <2>3, ObjectAdded
<1>6. Elements(declarators') \subseteq Elements(declarators) \union {n + 1}
  <2>1. declarators \in Seq(1..n)
    BY DataParts DEF PInv, Parts
  <2>2. Elements(Append(declarators, n + 1)) = Elements(declarators) \union {n + 1}
    BY <1>3, <2>1, ListAppended
  <2>3. CASE declarators' = declarators
    BY <2>3
  <2>4. CASE declarators' = Append(declarators, Len(heap'))
    BY <1>5, <2>2, <2>4
  <2> QED
    BY <1>1, <2>3, <2>4
<1>7. InTables' = InTables /\ Elements(parameters') = {}
  BY <1>1, <1>4 DEF InTables
<1> HIDE DEF n, g
<1>8. \A i \in DOMAIN heap' : \A a \in Elements(heap'[i].args) : a < i
  <2>1. ASSUME NEW i \in DOMAIN heap', NEW a \in Elements(heap'[i].args)
        PROVE  a < i
    <3>1. CASE i \in 1..n
      BY <1>3, <1>5, <2>1, <3>1 DEF Fresh
    <3>2. CASE i = n + 1
      <4>1. a \in 1..n
        BY <1>3, <1>4, <1>5, <2>1, <3>2
      <4> QED
        BY <1>3, <3>2, <4>1
    <3> QED
      BY <1>3, <1>5, <3>1, <3>2
  <2> QED
    BY <2>1
<1>9. n + 1 \notin 1..n
  BY <1>3
<1>10. /\ parameters' = <<>> /\ last_function_' = n + 1
       /\ heap'[last_function_'].args = parameters
  BY <1>1, <1>4, <1>5
<1>11. Elements(heap'[last_function_'].args) = E
  BY <1>10
<1> HIDE DEF E
<1>12. E \intersect (InTables \union Elements(declarators)) = {}
       /\ Elements(declarators) \intersect InTables = {}
  BY <1>2 DEF Fresh, E
<1>13. /\ E \intersect (InTables' \union Elements(declarators')) = {}
       /\ Elements(declarators') \intersect InTables' = {}
  BY <1>3, <1>6, <1>7, <1>9, <1>12
<1> QED
  BY <1>7, <1>8, <1>10, <1>11, <1>13 DEF Fresh

(* The symbols in a chain of tables.                                         *)
InChain(s) == UNION {Elements(s[i]) : i \in DOMAIN s}

LEMMA AddedElements ==
  ASSUME NEW table, NEW syms, IsTuple(syms)
  PROVE  Elements(Added(table, syms)) \subseteq Elements(table) \union Elements(syms)
<1> DEFINE a == Added(table, syms)
<1>1. IsAdded(a, table, syms)
  BY AddedFound
<1> HIDE DEF a
<1>2. ASSUME NEW x \in DOMAIN a
      PROVE  a[x] \in Elements(table) \union Elements(syms)
  <2>1. CASE x \in DOMAIN table
    BY <1>1, <2>1 DEF IsAdded, Elements
  <2>2. CASE x \notin DOMAIN table
    BY <1>1, <2>2 DEF IsAdded, Elements
  <2> QED
    BY <2>1, <2>2
<1> QED
  BY <1>2 DEF Elements, a

LEMMA ChainWithLast ==
  ASSUME NEW s, IsTuple(s), s # <<>>, NEW t
  PROVE  InChain(WithLast(s, t)) \subseteq InChain(s) \union Elements(t)
<1> DEFINE r == WithLast(s, t)
<1>1. /\ DOMAIN s = 1..Len(s) /\ DOMAIN r = 1..Len(s)
      /\ \A i \in 1..Len(s) : r[i] = IF i = Len(s) THEN t ELSE s[i]
  BY LastReplaced
<1> HIDE DEF r
<1>2. ASSUME NEW i \in DOMAIN r, NEW a \in Elements(r[i])
      PROVE  a \in InChain(s) \union Elements(t)
  <2>1. CASE i = Len(s)
    BY <1>1, <1>2, <2>1
  <2>2. CASE i # Len(s)
    BY <1>1, <1>2, <2>2 DEF InChain
  <2> QED
    BY <2>1, <2>2
<1> QED
  BY <1>2 DEF InChain, r

LEMMA ChainAppended ==
  ASSUME NEW s, IsTuple(s), NEW t
  PROVE  InChain(Append(s, t)) \subseteq InChain(s) \union Elements(t)
<1> DEFINE r == Append(s, t)
<1>1. /\ Len(s) \in Nat /\ DOMAIN s = 1..Len(s) /\ DOMAIN r = 1..Len(s) + 1
      /\ r[Len(s) + 1] = t /\ \A i \in 1..Len(s) : r[i] = s[i]
  BY Appended
<1> HIDE DEF r
<1>2. ASSUME NEW i \in DOMAIN r, NEW a \in Elements(r[i])
      PROVE  a \in InChain(s) \union Elements(t)
  <2>1. CASE i = Len(s) + 1
    BY <1>1, <1>2, <2>1
  <2>2. CASE i \in 1..Len(s)
    BY <1>1, <1>2, <2>2 DEF InChain
  <2> QED
    BY <1>1, <2>1, <2>2
<1> QED
  BY <1>2 DEF InChain, r

LEMMA Chained ==
  ASSUME PInv
  PROVE  /\ IsTuple(symbol_table) /\ symbol_table # <<>> /\ InTables = InChain(symbol_table)
         /\ Len(symbol_table) \in DOMAIN symbol_table
         /\ Len(symbol_table) \in Nat /\ Len(symbol_table) >= 1
         /\ DOMAIN symbol_table = 1..Len(symbol_table)
         /\ Elements(Last(symbol_table)) \subseteq InTables
<1>1. /\ IsTuple(symbol_table) /\ symbol_table # <<>>
      /\ Len(symbol_table) \in Nat /\ DOMAIN symbol_table = 1..Len(symbol_table)
  BY DataParts DEF PInv, Parts, GoodTables
<1>2. InTables = InChain(symbol_table)
  BY DEF InTables, InChain
<1>3. Len(symbol_table) >= 1 /\ Len(symbol_table) \in DOMAIN symbol_table
  BY <1>1, EmptySeq DEF IsTuple
<1>4. Elements(Last(symbol_table)) \subseteq InTables
  BY <1>3 DEF Last, InTables
<1> QED
  BY <1>1, <1>2, <1>3, <1>4

LEMMA ReduceDeclarationFresh ==
  ASSUME PInv, Fresh, ReduceDeclaration
  PROVE  Fresh'
<1> DEFINE n == Len(heap)
           E == Elements(declarators)
           t == Added(Last(symbol_table), declarators)
<1>1. /\ At("declaration") /\ Become(<<>>) /\ Running /\ expected # <<>>
      /\ Top.k = "declaration"
      /\ heap' = Retyped(heap, E, Last(values))
      /\ symbol_table' = WithLast(symbol_table, t)
      /\ declarators' = (IF Top.name = "global" THEN declarators ELSE <<>>)
      /\ parameters' = parameters
      /\ values' = Front(values) /\ unclaimed_types_' = Front(unclaimed_types_)
  BY DEF ReduceDeclaration, At, Top, Retyped, Last, WithLast
<1>2. ~Ahead("external_declaration") /\ ~Ahead("decl_glb_fct")'
  BY <1>1, NamedNext DEF Ahead
<1>3. /\ n \in Nat /\ DOMAIN heap = 1..n
  BY Objects
<1>4. DOMAIN heap' = 1..n /\ \A i \in 1..n : heap'[i].args = heap[i].args
  <2> DEFINE v == Last(values)
             h == heap'
  <2>1. v \in Type /\ GoodHeap(heap) /\ h = Retyped(heap, E, v)
    BY <1>1, DeclarationMet, DataParts DEF PInv, Parts
  <2> HIDE DEF v, E, h
  <2>2. DOMAIN h = 1..n /\ \A i \in 1..n : h[i].args = heap[i].args
    BY <2>1, TypesTaken
  <2> QED
    BY <2>2 DEF h
<1>5. InTables' \subseteq InTables \union E
  <2>1. IsTuple(declarators)
    BY DataParts, Tuples DEF PInv, Parts
  <2>2. Elements(t) \subseteq Elements(Last(symbol_table)) \union E
    BY <2>1, AddedElements
  <2> HIDE DEF t
  <2>3. InChain(WithLast(symbol_table, t)) \subseteq InTables \union Elements(t)
    BY Chained, ChainWithLast
  <2>4. InTables' = InChain(WithLast(symbol_table, t))
    BY <1>1 DEF InTables, InChain
  <2> QED
    BY <2>2, <2>3, <2>4, Chained
<1>6. Elements(parameters') = Elements(parameters)
  BY <1>1
<1>7. /\ Elements(declarators') \subseteq E
      /\ Ahead("external_declaration")' \/ Elements(declarators') = {}
  <2>1. CASE Top.name = "global"
    BY <1>1, <2>1, DeclarationEnds
  <2>2. CASE Top.name # "global"
    <3>1. declarators' = <<>> /\ Elements(<<>>) = {}
      BY <1>1, <2>2, ShortItems DEF Elements
    <3> QED
      BY <3>1
  <2> QED
    BY <2>1, <2>2
<1>8. \A i \in DOMAIN heap' : \A a \in Elements(heap'[i].args) : a < i
  BY <1>3, <1>4 DEF Fresh
<1>9. Elements(parameters') \intersect (InTables' \union Elements(declarators')) = {}
  BY <1>5, <1>6, <1>7 DEF Fresh
<1> QED
  BY <1>2, <1>7, <1>8, <1>9 DEF Fresh

LEMMA ExternalDeclarationFresh ==
  ASSUME PInv, Fresh, ReduceExternalDeclaration
  PROVE  Fresh'
<1> DEFINE n == Len(heap)
           E == Elements(declarators)
           A == AttributesOf(Top.n)
<1>1. /\ Become(<<>>) /\ Running /\ expected # <<>> /\ Top.k = "external_declaration"
      /\ heap' = Attributed(heap, E, A) /\ symbol_table' = symbol_table
      /\ declarators' = <<>> /\ parameters' = parameters
  BY DEF ReduceExternalDeclaration, At, Top, Attributed
<1>2. ~Ahead("decl_glb_fct")'
  BY <1>1, NamedNext
<1>3. /\ n \in Nat /\ DOMAIN heap = 1..n
  BY Objects
<1>4. DOMAIN heap' = 1..n /\ \A i \in 1..n : heap'[i].args = heap[i].args
  <2> DEFINE h == heap'
  <2>1. /\ A \in SUBSET {"GLOBAL", "EXTERN", "FUNCTION_PARAM"} /\ GoodHeap(heap)
        /\ h = Attributed(heap, E, A)
    BY <1>1, DataParts DEF PInv, Parts, AttributesOf
  <2> HIDE DEF A, E, h
  <2>2. DOMAIN h = 1..n /\ \A i \in 1..n : h[i].args = heap[i].args
    BY <2>1, AttributesAdded
  <2> QED
    BY <2>2 DEF h
<1>5. /\ InTables' = InTables /\ Elements(parameters') = Elements(parameters)
      /\ Elements(declarators') = {}
  BY <1>1, ShortItems DEF InTables, Elements
<1>6. \A i \in DOMAIN heap' : \A a \in Elements(heap'[i].args) : a < i
  BY <1>3, <1>4 DEF Fresh
<1> QED
  BY <1>2, <1>5, <1>6 DEF Fresh

LEMMA FunctionMet ==
  ASSUME PInv, At("decl_glb_fct")
  PROVE  last_function_ \in DOMAIN heap /\ last_function_ \notin Elements(declarators)
<1>1. PICK u, m \in Situation : Matches(u) /\ Effect(Top, u, m)
  BY Facing DEF At
<1>2. u = Claimed("named")
  <2> DEFINE it == Top
  <2>1. it.k = "decl_glb_fct" /\ Effect(it, u, m)
    BY <1>1 DEF At, Top
  <2> HIDE DEF it
  <2> QED
    BY <2>1 DEF Effect, Passes, Works, Anywhere, InBody
<1>3. u.stage = "named"
  BY <1>2 DEF Claimed, Sit
<1> QED
  BY <1>1, <1>3 DEF Matches

LEMMA FunctionFresh ==
  ASSUME PInv, Fresh, ReduceDeclGlbFct
  PROVE  Fresh'
<1> DEFINE f == last_function_
           args == heap[f].args
           P == Elements(args)
           l == <<f>>
           s == Outer(f)
           t == Added(EmptyTable, args)
<1>1. /\ At("decl_glb_fct") /\ Become(<<>>) /\ Running /\ expected # <<>>
      /\ Top.k = "decl_glb_fct" /\ symbol_table' = Append(s, t)
      /\ heap' = heap /\ declarators' = declarators /\ parameters' = parameters
  BY DEF ReduceDeclGlbFct, At, Top, Outer, WithLast, Last, lists
<1>2. ~Ahead("external_declaration") /\ Ahead("decl_glb_fct") /\ ~Ahead("decl_glb_fct")'
  BY <1>1, NamedNext DEF Ahead
<1>3. f \in DOMAIN heap /\ f \notin Elements(declarators)
  BY <1>1, FunctionMet
<1>4. Elements(l) = {f} /\ Elements(EmptyTable) = {} /\ IsTuple(l) /\ IsTuple(args)
  <2>1. Elements(l) = {f}
    BY DEF Elements
  <2>2. Elements(EmptyTable) = {}
    BY DEF Elements, EmptyTable
  <2>3. IsTuple(args)
    BY <1>3, Objects, Tuples
  <2> QED
    BY <2>1, <2>2, <2>3, ShortTuples
<1> HIDE DEF l
<1>5. Elements(t) \subseteq P
  BY <1>4, AddedElements
<1> HIDE DEF t, args
<1>6. IsTuple(s) /\ InChain(s) \subseteq InTables \union {f}
  <2>1. CASE is_visible(heap[f].name)
    BY <2>1, Chained DEF Outer
  <2>2. CASE ~is_visible(heap[f].name)
    <3> DEFINE a == Added(Last(symbol_table), l)
    <3>1. s = WithLast(symbol_table, a)
      BY <2>2 DEF Outer, l
    <3>2. Elements(a) \subseteq InTables \union {f}
      BY <1>4, AddedElements, Chained
    <3> HIDE DEF a, s
    <3>3. IsTuple(s)
      BY <3>1, Chained, LastReplaced
    <3>4. InChain(WithLast(symbol_table, a)) \subseteq InTables \union Elements(a)
      BY Chained, ChainWithLast
    <3> QED
      BY <3>1, <3>2, <3>3, <3>4
  <2> QED
    BY <2>1, <2>2
<1> HIDE DEF s
<1>7. InTables' \subseteq InTables \union {f} \union P
  <2>1. InChain(Append(s, t)) \subseteq InChain(s) \union Elements(t)
    BY <1>6, ChainAppended
  <2>2. InTables' = InChain(Append(s, t))
    BY <1>1 DEF InTables, InChain
  <2> QED
    BY <1>5, <1>6, <2>1, <2>2
<1>8. /\ Elements(declarators') = Elements(declarators)
      /\ parameters' = parameters /\ parameters = <<>>
      /\ P \intersect (InTables \union Elements(declarators)) = {}
      /\ Elements(declarators) \intersect InTables = {}
  BY <1>1, <1>2 DEF Fresh, args
<1>9. Elements(parameters') = {}
  BY <1>8, ShortItems DEF Elements
<1>10. \A i \in DOMAIN heap' : \A a \in Elements(heap'[i].args) : a < i
  BY <1>1 DEF Fresh
<1> HIDE DEF P
<1>11. Elements(declarators') \intersect InTables' = {}
  BY <1>3, <1>7, <1>8
<1> QED
  BY <1>2, <1>9, <1>10, <1>11 DEF Fresh

(* A block begins with its declarations.                                     *)
LEMMA ListNext ==
  ASSUME PInv, Running, expected # <<>>,
         Become(<<Item("declaration_list"), Item("instruction_list"), Item("block_end")>>)
  PROVE  expected' # <<>> /\ Top'.k = "declaration_list"
<1> DEFINE a == Item("declaration_list")
           b == Item("instruction_list")
           c == Item("block_end")
           s == <<a, b, c>>
           t == Tail(expected)
<1>1. a.k = "declaration_list" /\ expected' = s \o t
  BY Symbols DEF Become
<1> HIDE DEF a, b, c
<1>2. IsTuple(s) /\ s # <<>> /\ s[1] = a /\ Len(s) = 3
  BY ShortTuples
<1>3. IsTuple(t)
  BY HeadAndRest DEF PInv, IsSentence
<1> HIDE DEF s, t
<1>4. IsJoined(s, t, s \o t)
  BY <1>2, <1>3, Joined
<1>5. Head(s \o t) = a /\ s \o t # <<>>
  <2> DEFINE r == s \o t
  <2>1. IsTuple(r) /\ r[1] = a /\ Len(r) = Len(s) + Len(t) /\ Len(t) \in Nat
    BY <1>2, <1>4 DEF IsJoined
  <2> HIDE DEF r
  <2>2. Head(r) = r[1] /\ r # <<>>
    BY <1>2, <2>1, EmptySeq
  <2> QED
    BY <2>1, <2>2 DEF r
<1> QED
  BY <1>1, <1>5 DEF Top

LEMMA BlockFresh ==
  ASSUME PInv, Fresh, BlockStart \/ BlockEnd
  PROVE  Fresh'
<1>1. /\ Running /\ expected # <<>> /\ Top.k \in {"compound", "block_end"}
      /\ heap' = heap /\ declarators' = declarators /\ parameters' = parameters
  BY DEF BlockStart, BlockEnd, At, Top, lists
<1>2. ~Ahead("external_declaration")
  BY <1>1 DEF Ahead
<1>3. ~Ahead("decl_glb_fct")'
  <2>1. CASE BlockStart
    BY <2>1, ListNext DEF BlockStart, At, Ahead
  <2>2. CASE BlockEnd
    <3>1. Become(<<>>) /\ Top.k = "block_end"
      BY <2>2 DEF BlockEnd, At, Top
    <3> QED
      BY <1>1, <3>1, NamedNext
  <2> QED
    BY <2>1, <2>2
<1>4. InTables' \subseteq InTables
  <2>1. CASE BlockStart
    <3>1. CASE new_function_definition_
      <4>1. symbol_table' = symbol_table
        BY <2>1, <3>1 DEF BlockStart
      <4> QED
        BY <4>1 DEF InTables
    <3>2. CASE ~new_function_definition_
      <4> DEFINE t == EmptyTable
      <4>1. symbol_table' = Append(symbol_table, t)
        BY <2>1, <3>2 DEF BlockStart
      <4>2. Elements(t) = {}
        BY DEF Elements, EmptyTable
      <4> HIDE DEF t
      <4>3. InTables' = InChain(Append(symbol_table, t))
        BY <4>1 DEF InTables, InChain
      <4>4. InChain(Append(symbol_table, t)) \subseteq InTables \union Elements(t)
        BY Chained, ChainAppended
      <4> QED
        BY <4>2, <4>3, <4>4
    <3> QED
      BY <3>1, <3>2
  <2>2. CASE BlockEnd
    <3> DEFINE n == Len(symbol_table)
               r == Pop(symbol_table, 1)
    <3>1. symbol_table' = r
      BY <2>2 DEF BlockEnd, Front, Pop
    <3>2. n \in Nat /\ n >= 1 /\ DOMAIN symbol_table = 1..n /\ IsTuple(symbol_table)
      BY Chained
    <3> DEFINE S == {symbol_table[i] : i \in DOMAIN symbol_table}
    <3>3. symbol_table \in Seq(S) /\ 1 \in 0..n
      BY <3>2 DEF IsTuple
    <3> HIDE DEF S
    <3>4. /\ r \in Seq(S) /\ Len(r) = n - 1 /\ \A i \in 1..n - 1 : r[i] = symbol_table[i]
      BY <3>2, <3>3, PopProperties
    <3> HIDE DEF r, n
    <3>5. DOMAIN r = 1..n - 1
      BY <3>4, LenProperties
    <3>6. ASSUME NEW i \in DOMAIN r
          PROVE  Elements(r[i]) \subseteq InTables
      <4>1. i \in DOMAIN symbol_table /\ r[i] = symbol_table[i]
        BY <3>2, <3>4, <3>5
      <4> QED
        BY <4>1 DEF InTables
    <3> QED
      BY <3>1, <3>6 DEF InTables
  <2> QED
    BY <2>1, <2>2
<1>5. /\ Elements(declarators') = Elements(declarators)
      /\ Elements(parameters') = Elements(parameters)
  BY <1>1
<1>6. \A i \in DOMAIN heap' : \A a \in Elements(heap'[i].args) : a < i
  BY <1>1 DEF Fresh
<1>7. /\ Elements(parameters') \intersect (InTables' \union Elements(declarators')) = {}
      /\ Elements(declarators') \intersect InTables' = {}
  BY <1>2, <1>4, <1>5 DEF Fresh
<1> QED
  BY <1>3, <1>6, <1>7 DEF Fresh

LEMMA ExpandedFresh ==
  ASSUME Fresh, Quiet, NEW k, At(k), k # "external_declaration",
         UNCHANGED <<declarators, parameters, heap, symbol_table>>
  PROVE  Fresh'
<1>1. ~Ahead("external_declaration")
  BY DEF At, Ahead, Top
<1> QED
  BY <1>1, StaysFresh DEF Quiet

LEMMA DeclarationStepFresh ==
  ASSUME PInv, Fresh, DeclarationStep
  PROVE  Fresh'
<1>1. CASE \E extern \in 0..1 : ExpandDeclaration(extern)
  <2>1. /\ Quiet /\ At("program")
        /\ UNCHANGED <<declarators, parameters, heap, symbol_table>>
    BY <1>1, DeclarationExpansions, Zenon DEF ExpandDeclaration, lists, scopes
  <2> QED
    BY <2>1, ExpandedFresh
<1>2. CASE \E x \in Names : ExpandFunctionDefinition(x)
  <2>1. /\ Quiet /\ At("program")
        /\ UNCHANGED <<declarators, parameters, heap, symbol_table>>
    BY <1>2, DeclarationExpansions, Zenon DEF ExpandFunctionDefinition, lists, scopes
  <2> QED
    BY <2>1, ExpandedFresh
<1>3. CASE \E t \in Type : TypeSpecifier(t)
  <2>1. /\ At("type") /\ Become(<<>>)
        /\ UNCHANGED <<declarators, parameters, heap, symbol_table>>
    BY <1>3, Zenon DEF TypeSpecifier, lists, scopes
  <2> QED
    BY <2>1, ReducedFresh
<1>4. CASE \E x \in Names : Declarator(x) \/ ExpandFunctionDeclarator(x)
  <2>1. PICK x \in Names : Declarator(x) \/ ExpandFunctionDeclarator(x)
    BY <1>4
  <2>2. CASE Declarator(x)
    BY <2>2, DeclaratorFresh
  <2>3. CASE ExpandFunctionDeclarator(x)
    <3>1. /\ Quiet /\ At("declarator")
          /\ UNCHANGED <<declarators, parameters, heap, symbol_table>>
      BY <2>3, DeclarationExpansions, Zenon DEF ExpandFunctionDeclarator, lists, scopes
    <3> QED
      BY <3>1, ExpandedFresh
  <2> QED
    BY <2>1, <2>2, <2>3
<1>5. CASE \E more \in BOOLEAN : DeclaratorList(more) \/ ParameterList(more)
  <2>1. Quiet /\ (At("declarator_list") \/ At("parameter_list"))
    BY <1>5, DeclarationExpansions, Zenon DEF DeclaratorList, ParameterList
  <2>2. UNCHANGED <<declarators, parameters, heap, symbol_table>>
    BY <1>5, Zenon DEF DeclaratorList, ParameterList, lists, scopes
  <2> QED
    BY <2>1, <2>2, ExpandedFresh
<1>6. CASE \E x \in Names : ParameterDeclaration(x)
  BY <1>6, ParameterFresh
<1>7. CASE FunctionDeclarator
  BY <1>7, FunctionDeclaratorFresh
<1>8. CASE ReduceDeclaration
  BY <1>8, ReduceDeclarationFresh
<1>9. CASE RejectDeclaration \/ RejectDeclGlbFct
  <2>1. UNCHANGED <<expected, lists, last_function_, scopes>>
    BY <1>9, Zenon DEF RejectDeclaration, RejectDeclGlbFct, Reject, Refuse, globals
  <2> QED
    BY <2>1, HaltsFresh
<1>10. CASE ReduceExternalDeclaration
  BY <1>10, ExternalDeclarationFresh
<1>11. CASE ReduceDeclGlbFct
  BY <1>11, FunctionFresh
<1>12. CASE ReduceFunctionDefinition
  <2>1. CASE Become(<<>>)
    <3>1. At("function_definition") /\ UNCHANGED <<declarators, parameters, heap, symbol_table>>
      BY <1>12, Zenon DEF ReduceFunctionDefinition, scopes
    <3> QED
      BY <2>1, <3>1, ReducedFresh
  <2>2. CASE ~Become(<<>>)
    <3>1. UNCHANGED <<expected, lists, last_function_, scopes>>
      BY <1>12, <2>2 DEF ReduceFunctionDefinition, lists
    <3> QED
      BY <3>1, HaltsFresh
  <2> QED
    BY <2>1, <2>2
<1> QED
  BY <1>1, <1>2, <1>3, <1>4, <1>5, <1>6, <1>7, <1>8, <1>9, <1>10, <1>11, <1>12
     DEF DeclarationStep

LEMMA InstructionStepFresh ==
  ASSUME PInv, Fresh, InstructionStep
  PROVE  Fresh'
<1>1. CASE BlockStart \/ BlockEnd
  BY <1>1, BlockFresh
<1>2. CASE \/ AppendInstruction \/ EmptyInstruction \/ ReduceInstruction \/ ReduceCondition
           \/ ReduceAssignment
  <2>1. UNCHANGED <<declarators, parameters, heap, symbol_table>> /\ Become(<<>>)
    BY <1>2, Zenon DEF AppendInstruction, EmptyInstruction, ReduceInstruction,
       ReduceCondition, ReduceAssignment, Make, lists, scopes
  <2>2. \E k \in {"append", "instruction", "expression_instruction", "if", "if_else",
                  "while", "do", "for", "comparison", "assignment"} : At(k)
    BY <1>2, Zenon DEF AppendInstruction, EmptyInstruction, ReduceInstruction,
       ReduceCondition, ReduceAssignment, Make
  <2> QED
    BY <2>1, <2>2, ReducedFresh
<1>3. CASE \E more \in BOOLEAN : DeclarationList(more) \/ InstructionList(more)
  <2>1. Quiet /\ (At("declaration_list") \/ At("instruction_list"))
    BY <1>3, BodyExpansions, Zenon DEF DeclarationList, InstructionList
  <2>2. UNCHANGED <<declarators, parameters, heap, symbol_table>>
    BY <1>3, Zenon DEF DeclarationList, InstructionList, lists, scopes
  <2> QED
    BY <2>1, <2>2, ExpandedFresh
<1>4. CASE ExpandInstruction
  <2>1. Quiet
    BY <1>4, InstructionExpansions
  <2>2. At("instruction") /\ UNCHANGED <<declarators, parameters, heap, symbol_table>>
    BY <1>4, Zenon DEF ExpandInstruction, Expand, lists, scopes
  <2> QED
    BY <2>1, <2>2, ExpandedFresh
<1>5. CASE \E ordering \in 0..1 : ExpandCondition(ordering)
  <2>1. /\ Quiet /\ At("condition")
        /\ UNCHANGED <<declarators, parameters, heap, symbol_table>>
    BY <1>5, BodyExpansions, Zenon DEF ExpandCondition, Expand, lists, scopes
  <2> QED
    BY <2>1, ExpandedFresh
<1>6. CASE RejectAssignment
  <2>1. UNCHANGED <<expected, lists, last_function_, scopes>>
    BY <1>6, Zenon DEF RejectAssignment, Reject, Refuse, globals
  <2> QED
    BY <2>1, HaltsFresh
<1> QED
  BY <1>1, <1>2, <1>3, <1>4, <1>5, <1>6 DEF InstructionStep

LEMMA ExpressionStepFresh ==
  ASSUME PInv, Fresh, ExpressionStep
  PROVE  Fresh'
<1>1. CASE \E t \in Type : Constant(t)
  <2>1. At("expression") /\ Become(<<>>) /\ UNCHANGED <<declarators, parameters, heap, symbol_table>>
    BY <1>1, Zenon DEF Constant, Push, lists, scopes
  <2> QED
    BY <2>1, ReducedFresh
<1>2. CASE \E x \in Names : Identifier(x) \/ RejectIdentifier(x)
  <2>1. PICK x \in Names : Identifier(x) \/ RejectIdentifier(x)
    BY <1>2
  <2>2. CASE Identifier(x)
    <3>1. At("expression") /\ Become(<<>>)
          /\ UNCHANGED <<declarators, parameters, heap, symbol_table>>
      BY <2>2, Zenon DEF Identifier, Push, lists, scopes
    <3> QED
      BY <3>1, ReducedFresh
  <2>3. CASE RejectIdentifier(x)
    <3>1. UNCHANGED <<expected, lists, last_function_, scopes>>
      BY <2>3, Zenon DEF RejectIdentifier, Reject, Refuse, globals
    <3> QED
      BY <3>1, HaltsFresh
  <2> QED
    BY <2>1, <2>2, <2>3
<1>3. CASE ExpandExpression
  <2>1. Quiet
    BY <1>3, ExpressionExpansions
  <2>2. At("expression") /\ UNCHANGED <<declarators, parameters, heap, symbol_table>>
    BY <1>3, Zenon DEF ExpandExpression, Expand, lists, scopes
  <2> QED
    BY <2>1, <2>2, ExpandedFresh
<1>4. CASE ReduceOperator
  <2>1. At("unary") \/ At("plus") \/ At("other")
    BY <1>4, Zenon DEF ReduceOperator, WellTyped
  <2>2. Become(<<>>) /\ UNCHANGED <<declarators, parameters, heap, symbol_table>>
    BY <1>4, Zenon DEF ReduceOperator, Make, lists, scopes
  <2> QED
    BY <2>1, <2>2, ReducedFresh
<1>5. CASE ReduceCall
  <2>1. At("call") /\ Become(<<>>) /\ UNCHANGED <<declarators, parameters, heap, symbol_table>>
    BY <1>5, Zenon DEF ReduceCall, lists, scopes
  <2> QED
    BY <2>1, ReducedFresh
<1>6. CASE RejectOperator \/ RejectCall
  <2>1. UNCHANGED <<expected, lists, last_function_, scopes>>
    BY <1>6, Zenon DEF RejectOperator, RejectCall, Reject, Refuse, globals
  <2> QED
    BY <2>1, HaltsFresh
<1> QED
  BY <1>1, <1>2, <1>3, <1>4, <1>5, <1>6 DEF ExpressionStep

LEMMA StepFresh ==
  ASSUME PInv, Fresh, [Next]_vars
  PROVE  Fresh'
<1>1. CASE DeclarationStep \/ InstructionStep \/ ExpressionStep
  BY <1>1, DeclarationStepFresh, InstructionStepFresh, ExpressionStepFresh
<1>2. CASE EndOfInput \/ SyntaxError \/ Stopped \/ UNCHANGED vars
  <2>1. UNCHANGED <<expected, lists, last_function_, scopes>>
    BY <1>2, Zenon DEF EndOfInput, SyntaxError, Reject, Refuse, Stopped, vars, globals
  <2> QED
    BY <2>1, HaltsFresh
<1> QED
  BY <1>1, <1>2 DEF Next

LEMMA BeginsFresh == Init => Fresh
<1> SUFFICES ASSUME Init
             PROVE  Fresh
  OBVIOUS
<1>1. /\ heap = <<>> /\ declarators = <<>> /\ parameters = <<>>
      /\ expected = <<Item("program")>> /\ DOMAIN heap = {}
  BY EmptySeq DEF Init
<1>2. Elements(declarators) = {} /\ Elements(parameters) = {}
  BY <1>1, ShortItems DEF Elements
<1>3. ~Ahead("decl_glb_fct")
  <2> DEFINE a == Item("program")
  <2>1. a.k = "program" /\ expected = <<a>>
    BY <1>1, Symbols
  <2> HIDE DEF a
  <2> QED
    BY <2>1 DEF Ahead, Top
<1> QED
  BY <1>1, <1>2, <1>3 DEF Fresh

LEMMA ObjectsStayFresh == Spec => [](PInv /\ Fresh)
<1>1. PInv /\ Fresh /\ [Next]_vars => Fresh'
  BY StepFresh
<1>2. Init => Fresh
  BY BeginsFresh
<1> QED
  BY <1>1, <1>2, Parsing, PTL DEF Spec

-----------------------------------------------------------------------------
(* Lexical scoping.  The environment of the n-th table of a chain gives a name *)
(* the meaning that the search from that table outwards finds.                *)

MeaningIn(s, n, x) ==
  IF \E k \in 1..n : x \in DOMAIN s[k] THEN s[InnermostIn(s, n, x)][x] ELSE 0

EnvironmentsOf(s) == [n \in DOMAIN s |-> [x \in Names |-> MeaningIn(s, n, x)]]
OwnOf(s) == [n \in DOMAIN s |-> DOMAIN s[n]]

LEMMA MeaningFound ==
  ASSUME NEW s, NEW n \in Nat, NEW x, NEW i \in 1..n, x \in DOMAIN s[i],
         \A j \in i + 1..n : x \notin DOMAIN s[j]
  PROVE  MeaningIn(s, n, x) = s[i][x]
<1> DEFINE m == InnermostIn(s, n, x)
<1>1. m \in 1..n /\ x \in DOMAIN s[m] /\ \A j \in m + 1..n : x \notin DOMAIN s[j]
  BY InnermostFoundIn
<1>2. MeaningIn(s, n, x) = s[m][x]
  BY DEF MeaningIn
<1> HIDE DEF m
<1>3. m = i
  <2>1. ASSUME m < i
        PROVE  FALSE
    <3>1. i \in m + 1..n
      BY <1>1, <2>1
    <3> QED
      BY <1>1, <3>1
  <2>2. ASSUME i < m
        PROVE  FALSE
    <3>1. m \in i + 1..n
      BY <1>1, <2>2
    <3> QED
      BY <1>1, <3>1
  <2> QED
    BY <1>1, <2>1, <2>2
<1> QED
  BY <1>2, <1>3

(* The search ends in a table, or goes on in the next one.                    *)
LEMMA Meanings ==
  ASSUME NEW s, NEW n \in Nat, n >= 1, NEW x
  PROVE  /\ x \in DOMAIN s[n] => MeaningIn(s, n, x) = s[n][x]
         /\ x \notin DOMAIN s[n] /\ n > 1 => MeaningIn(s, n, x) = MeaningIn(s, n - 1, x)
         /\ x \notin DOMAIN s[n] /\ n = 1 => MeaningIn(s, n, x) = 0
<1>1. ASSUME x \in DOMAIN s[n]
      PROVE  MeaningIn(s, n, x) = s[n][x]
  <2>1. n \in 1..n /\ \A j \in n + 1..n : x \notin DOMAIN s[j]
    OBVIOUS
  <2> QED
    BY <1>1, <2>1, MeaningFound
<1>2. ASSUME x \notin DOMAIN s[n], n > 1
      PROVE  MeaningIn(s, n, x) = MeaningIn(s, n - 1, x)
  <2>1. CASE \E k \in 1..n - 1 : x \in DOMAIN s[k]
    <3> DEFINE i == InnermostIn(s, n - 1, x)
    <3>1. /\ i \in 1..n - 1 /\ x \in DOMAIN s[i]
          /\ \A j \in i + 1..n - 1 : x \notin DOMAIN s[j]
      BY <2>1, InnermostFoundIn
    <3>2. MeaningIn(s, n - 1, x) = s[i][x]
      BY <2>1 DEF MeaningIn
    <3> HIDE DEF i
    <3>3. i \in 1..n /\ \A j \in i + 1..n : x \notin DOMAIN s[j]
      <4>1. \A j \in i + 1..n : j = n \/ j \in i + 1..n - 1
        BY <3>1
      <4> QED
        BY <1>2, <3>1, <4>1
    <3>4. MeaningIn(s, n, x) = s[i][x]
      BY <3>1, <3>3, MeaningFound
    <3> QED
      BY <3>2, <3>4
  <2>2. CASE ~\E k \in 1..n - 1 : x \in DOMAIN s[k]
    <3>1. \A k \in 1..n : k = n \/ k \in 1..n - 1
      OBVIOUS
    <3>2. ~\E k \in 1..n : x \in DOMAIN s[k]
      BY <1>2, <2>2, <3>1
    <3> QED
      BY <2>2, <3>2 DEF MeaningIn
  <2> QED
    BY <2>1, <2>2
<1>3. ASSUME x \notin DOMAIN s[n], n = 1
      PROVE  MeaningIn(s, n, x) = 0
  <2>1. \A k \in 1..n : k = 1
    BY <1>3
  <2> QED
    BY <1>3, <2>1 DEF MeaningIn
<1> QED
  BY <1>1, <1>2, <1>3

(* Inner tables do not matter.                                               *)
LEMMA SameMeanings ==
  ASSUME NEW s, NEW r, NEW n \in Nat, \A i \in 1..n : r[i] = s[i], NEW x
  PROVE  MeaningIn(r, n, x) = MeaningIn(s, n, x)
<1>1. CASE \E k \in 1..n : x \in DOMAIN s[k]
  <2> DEFINE i == InnermostIn(s, n, x)
  <2>1. /\ i \in 1..n /\ x \in DOMAIN s[i]
        /\ \A j \in i + 1..n : x \notin DOMAIN s[j]
    BY <1>1, InnermostFoundIn
  <2>2. MeaningIn(s, n, x) = s[i][x]
    BY <1>1 DEF MeaningIn
  <2> HIDE DEF i
  <2>3. x \in DOMAIN r[i] /\ \A j \in i + 1..n : x \notin DOMAIN r[j]
    BY <2>1
  <2>4. MeaningIn(r, n, x) = r[i][x]
    BY <2>1, <2>3, MeaningFound
  <2> QED
    BY <2>1, <2>2, <2>4
<1>2. CASE ~\E k \in 1..n : x \in DOMAIN s[k]
  BY <1>2 DEF MeaningIn
<1> QED
  BY <1>1, <1>2

LEMMA MeaningsInChain ==
  ASSUME NEW s, IsTuple(s), NEW n \in DOMAIN s, NEW x
  PROVE  MeaningIn(s, n, x) \in InChain(s) \union {0}
<1>1. n \in Nat /\ 1..n \subseteq DOMAIN s
  BY LenProperties DEF IsTuple
<1>2. CASE \E k \in 1..n : x \in DOMAIN s[k]
  <2> DEFINE i == InnermostIn(s, n, x)
  <2>1. i \in 1..n /\ x \in DOMAIN s[i]
    BY <1>1, <1>2, InnermostFoundIn
  <2>2. MeaningIn(s, n, x) = s[i][x]
    BY <1>2 DEF MeaningIn
  <2> HIDE DEF i
  <2>3. s[i][x] \in Elements(s[i])
    BY <2>1 DEF Elements
  <2> QED
    BY <1>1, <2>1, <2>2, <2>3 DEF InChain
<1>3. CASE ~\E k \in 1..n : x \in DOMAIN s[k]
  BY <1>3 DEF MeaningIn
<1> QED
  BY <1>2, <1>3

LEMMA Environments ==
  ASSUME NEW s, IsTuple(s), NEW e, NEW o, e = EnvironmentsOf(s), o = OwnOf(s)
  PROVE  /\ Len(s) \in Nat /\ DOMAIN s = 1..Len(s)
         /\ IsTuple(e) /\ Len(e) = Len(s) /\ IsTuple(o) /\ Len(o) = Len(s)
         /\ \A n \in 1..Len(s) : /\ \A x \in Names : e[n][x] = MeaningIn(s, n, x)
                                 /\ e[n] = [x \in Names |-> MeaningIn(s, n, x)]
                                 /\ o[n] = DOMAIN s[n]
<1>1. Len(s) \in Nat /\ DOMAIN s = 1..Len(s)
  BY LenProperties DEF IsTuple
<1> DEFINE A == {e[n] : n \in DOMAIN s}
           B == {o[n] : n \in DOMAIN s}
<1>2. e \in [1..Len(s) -> A] /\ o \in [1..Len(s) -> B]
  BY <1>1 DEF EnvironmentsOf, OwnOf
<1> HIDE DEF A, B
<1>3. e \in Seq(A) /\ Len(e) = Len(s) /\ o \in Seq(B) /\ Len(o) = Len(s)
  BY <1>1, <1>2, SeqFromFunction
<1>4. IsTuple(e) /\ IsTuple(o)
  BY <1>3, Tuples
<1>5. ASSUME NEW n \in 1..Len(s)
      PROVE  e[n] = [x \in Names |-> MeaningIn(s, n, x)] /\ o[n] = DOMAIN s[n]
  BY <1>1 DEF EnvironmentsOf, OwnOf
<1>6. ASSUME NEW n \in 1..Len(s), NEW x \in Names
      PROVE  e[n][x] = MeaningIn(s, n, x)
  BY <1>5
<1> QED
  BY <1>1, <1>3, <1>4, <1>5, <1>6

(* The innermost table of s declares D, which gives r or its first tables.     *)
Declares(s, r, D) ==
  /\ D \intersect DOMAIN s[Len(s)] = {}
  /\ DOMAIN r[Len(s)] = DOMAIN s[Len(s)] \union D
  /\ \A x \in Names :
       IF x \in D THEN MeaningIn(r, Len(s), x) \notin {0, MeaningIn(s, Len(s), x)}
                  ELSE MeaningIn(r, Len(s), x) = MeaningIn(s, Len(s), x)
  /\ \A k \in 1..Len(s) - 1 :
       /\ DOMAIN r[k] = DOMAIN s[k]
       /\ \A x \in Names : MeaningIn(r, k, x) = MeaningIn(s, k, x)

(* The table after those of s is new and has P.                               *)
Enters(s, r, P) ==
  /\ Len(r) = Len(s) + 1
  /\ DOMAIN r[Len(s) + 1] = P
  /\ \A x \in Names :
       IF x \in P THEN MeaningIn(r, Len(s) + 1, x) \notin {0, MeaningIn(r, Len(s), x)}
                  ELSE MeaningIn(r, Len(s) + 1, x) = MeaningIn(r, Len(s), x)

LEMMA DeclaresNew ==
  ASSUME NEW s, IsTuple(s), s # <<>>, NEW t, NEW D, D \intersect DOMAIN s[Len(s)] = {},
         DOMAIN t = DOMAIN s[Len(s)] \union D,
         \A x \in DOMAIN s[Len(s)] : t[x] = s[Len(s)][x],
         \A x \in D : t[x] \notin {0, MeaningIn(s, Len(s), x)},
         NEW r, r = WithLast(s, t)
  PROVE  Declares(s, r, D)
<1> DEFINE n == Len(s)
<1>1. /\ n \in Nat /\ n >= 1 /\ DOMAIN s = 1..n /\ DOMAIN r = 1..n
      /\ \A i \in 1..n : r[i] = IF i = n THEN t ELSE s[i]
  BY LastReplaced
<1> HIDE DEF n
<1>2. r[n] = t /\ \A i \in 1..n - 1 : r[i] = s[i]
  <2>1. n \in 1..n /\ \A i \in 1..n - 1 : i \in 1..n /\ i # n
    BY <1>1
  <2> QED
    BY <1>1, <2>1
<1>3. ASSUME NEW k \in 1..n - 1, NEW x
      PROVE  MeaningIn(r, k, x) = MeaningIn(s, k, x)
  <2>1. k \in Nat /\ \A i \in 1..k : r[i] = s[i]
    BY <1>1, <1>2
  <2> QED
    BY <2>1, SameMeanings
<1>4. ASSUME NEW x \in D
      PROVE  MeaningIn(r, n, x) \notin {0, MeaningIn(s, n, x)}
  <2>1. MeaningIn(r, n, x) = t[x]
    <3>1. x \in DOMAIN r[n]
      BY <1>2
    <3>2. MeaningIn(r, n, x) = r[n][x]
      BY <1>1, <3>1, Meanings
    <3> QED
      BY <1>2, <3>2
  <2> QED
    BY <2>1 DEF n
<1>5. ASSUME NEW x, x \notin D
      PROVE  MeaningIn(r, n, x) = MeaningIn(s, n, x)
  <2>1. CASE x \in DOMAIN s[n]
    <3>1. MeaningIn(s, n, x) = s[n][x]
      BY <1>1, <2>1, Meanings
    <3>2. MeaningIn(r, n, x) = t[x]
      <4>1. x \in DOMAIN r[n]
        BY <1>2, <2>1 DEF n
      <4>2. MeaningIn(r, n, x) = r[n][x]
        BY <1>1, <4>1, Meanings
      <4> QED
        BY <1>2, <4>2
    <3> QED
      BY <2>1, <3>1, <3>2 DEF n
  <2>2. CASE x \notin DOMAIN s[n]
    <3>1. x \notin DOMAIN r[n]
      BY <1>2, <1>5, <2>2 DEF n
    <3>2. CASE n = 1
      <4>1. MeaningIn(s, n, x) = 0
        BY <1>1, <2>2, <3>2, Meanings
      <4>2. MeaningIn(r, n, x) = 0
        BY <1>1, <3>1, <3>2, Meanings
      <4> QED
        BY <4>1, <4>2
    <3>3. CASE n > 1
      <4>1. MeaningIn(s, n, x) = MeaningIn(s, n - 1, x)
        BY <1>1, <2>2, <3>3, Meanings
      <4>2. MeaningIn(r, n, x) = MeaningIn(r, n - 1, x)
        BY <1>1, <3>1, <3>3, Meanings
      <4>3. n - 1 \in 1..n - 1
        BY <1>1, <3>3
      <4> QED
        BY <1>3, <4>1, <4>2, <4>3
    <3> QED
      BY <1>1, <3>2, <3>3
  <2> QED
    BY <2>1, <2>2
<1>6. \A k \in 1..n - 1 : DOMAIN r[k] = DOMAIN s[k]
  BY <1>2
<1> QED
  BY <1>2, <1>3, <1>4, <1>5, <1>6 DEF Declares, n

LEMMA DeclaresNothing ==
  ASSUME NEW s, NEW r, Len(s) \in Nat, Len(s) >= 1, \A i \in 1..Len(s) : r[i] = s[i]
  PROVE  Declares(s, r, {})
<1>1. ASSUME NEW k \in 1..Len(s), NEW x
      PROVE  MeaningIn(r, k, x) = MeaningIn(s, k, x)
  <2>1. k \in Nat /\ \A i \in 1..k : r[i] = s[i]
    OBVIOUS
  <2> QED
    BY <2>1, SameMeanings
<1>2. Len(s) \in 1..Len(s) /\ \A k \in 1..Len(s) - 1 : k \in 1..Len(s)
  OBVIOUS
<1> QED
  BY <1>1, <1>2 DEF Declares

LEMMA EntersNew ==
  ASSUME NEW s, IsTuple(s), s # <<>>, NEW t,
         \A x \in DOMAIN t : t[x] \notin InChain(s) \union {0},
         NEW r, Len(r) = Len(s) + 1, r[Len(s) + 1] = t, \A i \in 1..Len(s) : r[i] = s[i]
  PROVE  Enters(s, r, DOMAIN t)
<1> DEFINE n == Len(s)
           m == n + 1
<1>1. /\ n \in Nat /\ n >= 1 /\ DOMAIN s = 1..n /\ Len(r) = m
      /\ r[m] = t /\ \A i \in 1..n : r[i] = s[i]
  BY EmptySeq, LenProperties DEF IsTuple
<1> HIDE DEF n
<1>2. m \in Nat /\ m > 1 /\ m >= 1 /\ m - 1 = n
  BY <1>1
<1> HIDE DEF m
<1>3. ASSUME NEW x \in DOMAIN t
      PROVE  MeaningIn(r, m, x) \notin {0, MeaningIn(r, n, x)}
  <2>1. MeaningIn(r, m, x) = t[x]
    <3>1. x \in DOMAIN r[m]
      BY <1>1
    <3>2. MeaningIn(r, m, x) = r[m][x]
      BY <1>2, <3>1, Meanings
    <3> QED
      BY <1>1, <3>2
  <2>2. MeaningIn(r, n, x) = MeaningIn(s, n, x)
    <3>1. \A i \in 1..n : r[i] = s[i]
      BY <1>1
    <3> QED
      BY <1>1, <3>1, SameMeanings
  <2>3. MeaningIn(s, n, x) \in InChain(s) \union {0}
    <3>1. n \in DOMAIN s
      BY <1>1
    <3> QED
      BY <3>1, MeaningsInChain
  <2> QED
    BY <2>1, <2>2, <2>3
<1>4. ASSUME NEW x, x \notin DOMAIN t
      PROVE  MeaningIn(r, m, x) = MeaningIn(r, n, x)
  <2>1. x \notin DOMAIN r[m]
    BY <1>1, <1>4
  <2>2. MeaningIn(r, m, x) = MeaningIn(r, m - 1, x)
    BY <1>2, <2>1, Meanings
  <2> QED
    BY <1>2, <2>2
<1> QED
  BY <1>1, <1>3, <1>4 DEF Enters, n, m

(* The variables of Scoping, and its actions, in terms of the chain of tables. *)
LEMMA ScopingVariables ==
  /\ Scoping!vars = <<EnvironmentsOf(symbol_table), OwnOf(symbol_table)>>
  /\ Scoping!vars' = <<EnvironmentsOf(symbol_table'), OwnOf(symbol_table')>>
BY DEF Scoping!vars, EnvironmentsOf, OwnOf, MeaningIn, lookup_from, InnermostWith, InnermostIn

Rebound(e, D, f) ==
  \A x \in Names : IF x \in D THEN f[x] \notin {0, e[x]} ELSE f[x] = e[x]

DeclaredIn(e, o, f, p, D) ==
  /\ D \intersect o[Len(e)] = {}
  /\ p[Len(e)] = o[Len(e)] \union D
  /\ Rebound(e[Len(e)], D, f[Len(e)])
  /\ \A k \in 1..Len(e) - 1 : f[k] = e[k] /\ p[k] = o[k]

LEMMA ScopingActions ==
  ASSUME NEW CONSTANT e, NEW CONSTANT f, NEW CONSTANT o, NEW CONSTANT p,
         e = EnvironmentsOf(symbol_table), o = OwnOf(symbol_table),
         f = EnvironmentsOf(symbol_table'), p = OwnOf(symbol_table')
  PROVE  /\ Scoping!Init <=> e = <<[x \in Names |-> 0]>> /\ o = <<{}>>
         /\ \A D : Scoping!Declare(D) <=>
              Len(f) = Len(e) /\ Len(p) = Len(e) /\ DeclaredIn(e, o, f, p, D)
         /\ \A D, P : Scoping!Enter(D, P) <=>
              /\ Len(f) = Len(e) + 1 /\ Len(p) = Len(e) + 1 /\ DeclaredIn(e, o, f, p, D)
              /\ p[Len(e) + 1] = P /\ Rebound(f[Len(e)], P, f[Len(e) + 1])
         /\ Scoping!Leave <=>
              /\ Len(e) > 1 /\ f = SubSeq(e, 1, Len(e) - 1)
              /\ p = SubSeq(o, 1, Len(e) - 1)
<1>1. /\ e = [n \in DOMAIN symbol_table |->
                [x \in Names |->
                   IF \E k \in 1..n : x \in DOMAIN symbol_table[k]
                   THEN lookup_from(n, x) ELSE 0]]
      /\ o = [n \in DOMAIN symbol_table |-> DOMAIN symbol_table[n]]
  BY DEF EnvironmentsOf, OwnOf, MeaningIn, lookup_from, InnermostWith, InnermostIn
<1>2. /\ f = [n \in DOMAIN symbol_table |->
                [x \in Names |->
                   IF \E k \in 1..n : x \in DOMAIN symbol_table[k]
                   THEN lookup_from(n, x) ELSE 0]]'
      /\ p = [n \in DOMAIN symbol_table |-> DOMAIN symbol_table[n]]'
  BY DEF EnvironmentsOf, OwnOf, MeaningIn, lookup_from, InnermostWith, InnermostIn
<1>3. Scoping!Init <=> e = <<[x \in Names |-> 0]>> /\ o = <<{}>>
  BY <1>1 DEF Scoping!Init
<1>4. ASSUME NEW D
      PROVE  Scoping!DeclaredHere(D) <=> DeclaredIn(e, o, f, p, D)
  BY <1>1, <1>2 DEF Scoping!DeclaredHere, Scoping!Depth, Scoping!Rebinds, DeclaredIn, Rebound
<1>5. ASSUME NEW D
      PROVE  Scoping!Declare(D) <=>
               Len(f) = Len(e) /\ Len(p) = Len(e) /\ DeclaredIn(e, o, f, p, D)
  BY <1>1, <1>2, <1>4 DEF Scoping!Declare, Scoping!Depth
<1>6. ASSUME NEW D, NEW P
      PROVE  Scoping!Enter(D, P) <=>
              /\ Len(f) = Len(e) + 1 /\ Len(p) = Len(e) + 1 /\ DeclaredIn(e, o, f, p, D)
              /\ p[Len(e) + 1] = P /\ Rebound(f[Len(e)], P, f[Len(e) + 1])
  BY <1>1, <1>2, <1>4 DEF Scoping!Enter, Scoping!Depth, Scoping!Rebinds, Rebound
<1>7. Scoping!Leave <=>
        /\ Len(e) > 1 /\ f = SubSeq(e, 1, Len(e) - 1)
        /\ p = SubSeq(o, 1, Len(e) - 1)
  BY <1>1, <1>2 DEF Scoping!Leave, Scoping!Depth
<1> QED
  BY <1>3, <1>5, <1>6, <1>7

(* A declaration in the innermost table, and the end of a block.               *)
LEMMA ScopingStep ==
  ASSUME IsTuple(symbol_table), symbol_table # <<>>, IsTuple(symbol_table'),
         NEW s, s = symbol_table, NEW r, r = symbol_table',
         NEW D \in SUBSET Names, NEW P \in SUBSET Names
  PROVE  /\ Declares(s, r, D) /\ Len(r) = Len(s) => Scoping!Next
         /\ Declares(s, r, D) /\ Enters(s, r, P) => Scoping!Next
         /\ Len(s) > 1 /\ r = SubSeq(s, 1, Len(s) - 1) => Scoping!Next
<1> DEFINE e == EnvironmentsOf(s)
           o == OwnOf(s)
           f == EnvironmentsOf(r)
           p == OwnOf(r)
           n == Len(s)
<1>1. /\ n \in Nat /\ DOMAIN s = 1..n
      /\ IsTuple(e) /\ Len(e) = n /\ IsTuple(o) /\ Len(o) = n
      /\ \A k \in 1..n : /\ \A x \in Names : e[k][x] = MeaningIn(s, k, x)
                         /\ e[k] = [x \in Names |-> MeaningIn(s, k, x)]
                         /\ o[k] = DOMAIN s[k]
  BY Environments
<1>2. /\ Len(r) \in Nat /\ DOMAIN r = 1..Len(r)
      /\ IsTuple(f) /\ Len(f) = Len(r) /\ IsTuple(p) /\ Len(p) = Len(r)
      /\ \A k \in 1..Len(r) : /\ \A x \in Names : f[k][x] = MeaningIn(r, k, x)
                              /\ f[k] = [x \in Names |-> MeaningIn(r, k, x)]
                              /\ p[k] = DOMAIN r[k]
  BY Environments
<1>3. e = EnvironmentsOf(symbol_table) /\ o = OwnOf(symbol_table)
      /\ f = EnvironmentsOf(symbol_table') /\ p = OwnOf(symbol_table')
  OBVIOUS
<1>4. n >= 1
  BY <1>1, EmptySeq DEF IsTuple
<1> HIDE DEF e, o, f, p, n
<1>5. ASSUME Declares(s, r, D), Len(r) >= n
      PROVE  DeclaredIn(e, o, f, p, D)
  <2>1. n \in 1..n /\ n \in 1..Len(r)
    BY <1>1, <1>2, <1>4, <1>5
  <2>2. D \intersect o[n] = {} /\ p[n] = o[n] \union D
    BY <1>1, <1>2, <1>5, <2>1 DEF Declares, n
  <2>3. Rebound(e[n], D, f[n])
    <3>1. ASSUME NEW x \in Names
          PROVE  e[n][x] = MeaningIn(s, n, x) /\ f[n][x] = MeaningIn(r, n, x)
      BY <1>1, <1>2, <2>1
    <3> QED
      BY <1>5, <3>1 DEF Rebound, Declares, n
  <2>4. ASSUME NEW k \in 1..n - 1
        PROVE  f[k] = e[k] /\ p[k] = o[k]
    <3>1. k \in 1..n /\ k \in 1..Len(r)
      BY <1>1, <1>2, <1>5
    <3>2. /\ e[k] = [x \in Names |-> MeaningIn(s, k, x)] /\ o[k] = DOMAIN s[k]
          /\ f[k] = [x \in Names |-> MeaningIn(r, k, x)] /\ p[k] = DOMAIN r[k]
      BY <1>1, <1>2, <3>1
    <3>3. /\ DOMAIN r[k] = DOMAIN s[k]
          /\ \A x \in Names : MeaningIn(r, k, x) = MeaningIn(s, k, x)
      BY <1>5 DEF Declares, n
    <3> QED
      BY <3>2, <3>3
  <2> QED
    BY <1>1, <2>2, <2>3, <2>4 DEF DeclaredIn
<1>6. ASSUME Declares(s, r, D), Len(r) = n
      PROVE  Scoping!Next
  <2>1. DeclaredIn(e, o, f, p, D)
    BY <1>1, <1>5, <1>6
  <2>2. Scoping!Declare(D)
    BY <1>1, <1>2, <1>3, <1>6, <2>1, ScopingActions
  <2> QED
    BY <2>2 DEF Scoping!Next
<1>7. ASSUME Declares(s, r, D), Enters(s, r, P)
      PROVE  Scoping!Next
  <2>1. Len(r) = n + 1
    BY <1>7 DEF Enters, n
  <2>2. DeclaredIn(e, o, f, p, D)
    BY <1>1, <1>5, <1>7, <2>1
  <2>3. n \in 1..Len(r) /\ n + 1 \in 1..Len(r)
    BY <1>1, <1>4, <2>1
  <2>4. p[n + 1] = P
    BY <1>2, <1>7, <2>3 DEF Enters, n
  <2>5. Rebound(f[n], P, f[n + 1])
    <3>1. ASSUME NEW x \in Names
          PROVE  f[n][x] = MeaningIn(r, n, x) /\ f[n + 1][x] = MeaningIn(r, n + 1, x)
      BY <1>2, <2>3
    <3> QED
      BY <1>7, <3>1 DEF Rebound, Enters, n
  <2>6. Scoping!Enter(D, P)
    BY <1>1, <1>2, <1>3, <2>1, <2>2, <2>4, <2>5, ScopingActions
  <2> QED
    BY <2>6 DEF Scoping!Next
<1>8. ASSUME n > 1, r = SubSeq(s, 1, n - 1)
      PROVE  Scoping!Next
  <2>1. /\ IsTuple(r) /\ Len(r) = n - 1 /\ \A k \in 1..n - 1 : r[k] = s[k]
        /\ SubSeq(e, 1, n - 1) = [k \in 1..n - 1 |-> e[k]]
        /\ SubSeq(o, 1, n - 1) = [k \in 1..n - 1 |-> o[k]]
    <3>1. 1 \in 1..n + 1 /\ n - 1 \in 0..n
      BY <1>1, <1>8
    <3>2. ASSUME NEW t, IsTuple(t), Len(t) = n
          PROVE  SubSeq(t, 1, n - 1) = [k \in 1..n - 1 |-> t[k]]
      BY <1>1, <1>8, <3>2 DEF IsTuple
    <3>3. r = [k \in 1..n - 1 |-> s[k]]
      BY <1>8, <3>2 DEF n
    <3>4. Len(r) = n - 1
      BY <1>1, <1>2, <1>8, <3>3
    <3> QED
      BY <1>1, <1>2, <3>2, <3>3, <3>4
  <2>2. ASSUME NEW k \in 1..n - 1
        PROVE  f[k] = e[k] /\ p[k] = o[k]
    <3>1. k \in Nat /\ k \in 1..n /\ k \in 1..Len(r) /\ \A i \in 1..k : r[i] = s[i]
      BY <1>1, <2>1
    <3>2. /\ e[k] = [x \in Names |-> MeaningIn(s, k, x)] /\ o[k] = DOMAIN s[k]
          /\ f[k] = [x \in Names |-> MeaningIn(r, k, x)] /\ p[k] = DOMAIN r[k]
      BY <1>1, <1>2, <3>1
    <3>3. \A x \in Names : MeaningIn(r, k, x) = MeaningIn(s, k, x)
      BY <3>1, SameMeanings
    <3> QED
      BY <2>1, <3>2, <3>3
  <2>3. /\ f = [k \in 1..n - 1 |-> f[k]] /\ p = [k \in 1..n - 1 |-> p[k]]
    BY <1>2, <2>1 DEF EnvironmentsOf, OwnOf, f, p
  <2>4. f = SubSeq(e, 1, n - 1) /\ p = SubSeq(o, 1, n - 1)
    BY <2>1, <2>2, <2>3
  <2>5. Scoping!Leave
    <3>1. Scoping!Leave <=> /\ Len(e) > 1 /\ f = SubSeq(e, 1, Len(e) - 1)
                            /\ p = SubSeq(o, 1, Len(e) - 1)
      BY <1>3, ScopingActions
    <3> QED
      BY <1>1, <1>8, <2>4, <3>1
  <2> QED
    BY <2>5 DEF Scoping!Next
<1> QED
  BY <1>6, <1>7, <1>8 DEF n

LEMMA ObjectNamed ==
  ASSUME PInv, NEW i \in DOMAIN heap
  PROVE  heap[i].name \in Names
<1>1. GoodHeap(heap) /\ DOMAIN heap = 1..Len(heap)
  BY DataParts DEF PInv, Parts
<1>2. heap[i] \in Object(Len(heap))
  BY <1>1, ElementOfSeq DEF GoodHeap
<1> QED
  BY <1>2 DEF Object

LEMMA DeclarationScopes ==
  ASSUME PInv, Fresh, PInv', ReduceDeclaration
  PROVE  Scoping!Next
<1> DEFINE s == symbol_table
           E == Elements(declarators)
           D == {heap[i].name : i \in E}
           t == Added(Last(s), declarators)
           r == symbol_table'
<1>1. /\ At("declaration") /\ Running /\ ~Ahead("external_declaration")
      /\ ~Duplicate(declarators) /\ r = WithLast(s, t)
  BY DEF ReduceDeclaration, At, Ahead, Top, Last, WithLast
<1>2. /\ IsTuple(s) /\ s # <<>> /\ InTables = InChain(s) /\ Len(s) \in Nat /\ Len(s) >= 1
      /\ IsTuple(declarators) /\ InTables \subseteq 1..Len(heap) /\ E \subseteq 1..Len(heap)
  BY Chained, Objects, DataParts, Tuples DEF PInv, Parts
<1>3. E \intersect InChain(s) = {}
  BY <1>1, <1>2 DEF Fresh
<1>4. IsAdded(t, Last(s), declarators)
  BY <1>2, AddedFound
<1>5. ASSUME NEW x \in D
      PROVE  x \notin DOMAIN Last(s) /\ x \in Names
  <2>1. PICK i \in DOMAIN declarators : x = heap[declarators[i]].name
    BY DEF Elements
  <2>2. x \notin DOMAIN Last(s)
    BY <1>1, <2>1 DEF Duplicate, is_in_this_scope
  <2>3. declarators[i] \in DOMAIN heap
    BY <1>2, Objects DEF Elements
  <2>4. x \in Names
    BY <2>1, <2>3, ObjectNamed
  <2> QED
    BY <2>2, <2>4
<1>6. ASSUME NEW x \in D
      PROVE  t[x] \notin {0, MeaningIn(s, Len(s), x)}
  <2>1. x \in DOMAIN t \ DOMAIN Last(s)
    BY <1>4, <1>5 DEF IsAdded
  <2>2. t[x] \in E
    BY <1>4, <2>1 DEF IsAdded, Elements
  <2>3. MeaningIn(s, Len(s), x) \in InChain(s) \union {0}
    BY <1>2, Chained, MeaningsInChain
  <2> QED
    BY <1>2, <1>3, <2>2, <2>3
<1>7. DOMAIN t = DOMAIN Last(s) \union D /\ \A x \in DOMAIN Last(s) : t[x] = Last(s)[x]
  BY <1>4 DEF IsAdded
<1> HIDE DEF D, t, E
<1>8. Declares(s, r, D)
  BY <1>1, <1>2, <1>5, <1>6, <1>7, DeclaresNew DEF Last
<1>9. IsTuple(r) /\ Len(r) = Len(s)
  <2> HIDE DEF s, r
  <2> QED
    BY <1>1, <1>2, LastReplaced
<1>10. D \in SUBSET Names
  BY <1>5
<1> QED
  BY <1>2, <1>8, <1>9, <1>10, ScopingStep

LEMMA BlockEndScopes ==
  ASSUME PInv, PInv', BlockEnd
  PROVE  Scoping!Next
<1>1. /\ IsTuple(symbol_table) /\ symbol_table # <<>> /\ Len(symbol_table) \in Nat
      /\ Len(symbol_table) >= 1 /\ DOMAIN symbol_table = 1..Len(symbol_table)
  BY Chained
<1>2. IsTuple(symbol_table') /\ symbol_table' # <<>>
  BY DEF PInv, Data, Shaped, TypeOK
<1> DEFINE s == symbol_table
           r == symbol_table'
<1>3. r = SubSeq(s, 1, Len(s) - 1)
  BY DEF BlockEnd, Front
<1>4. Len(s) > 1
  <2>1. CASE Len(s) = 1
    <3>1. r = <<>>
      <4> DEFINE S == {s[i] : i \in DOMAIN s}
      <4>1. s \in Seq(S)
        BY <1>1 DEF IsTuple
      <4> HIDE DEF S, s
      <4> QED
        BY <1>3, <2>1, <4>1
    <3> QED
      BY <1>2, <3>1
  <2> QED
    BY <1>1, <2>1
<1> QED
  BY <1>1, <1>2, <1>3, <1>4, ScopingStep

LEMMA BlockStartScopes ==
  ASSUME PInv, PInv', BlockStart, ~new_function_definition_
  PROVE  Scoping!Next
<1> DEFINE s == symbol_table
           r == symbol_table'
           t == EmptyTable
<1>1. /\ IsTuple(s) /\ s # <<>> /\ Len(s) \in Nat /\ Len(s) >= 1 /\ r = Append(s, t)
  BY Chained DEF BlockStart
<1>2. DOMAIN t = {}
  BY DEF EmptyTable
<1> HIDE DEF s, r, t
<1>3. /\ IsTuple(r) /\ Len(r) = Len(s) + 1 /\ r[Len(s) + 1] = t
      /\ \A i \in 1..Len(s) : r[i] = s[i]
  BY <1>1, Appended
<1>4. Declares(s, r, {})
  BY <1>1, <1>3, DeclaresNothing
<1>5. Enters(s, r, DOMAIN t)
  BY <1>1, <1>2, <1>3, EntersNew
<1> QED
  BY <1>1, <1>2, <1>3, <1>4, <1>5, ScopingStep DEF s, r

(* A function's own table: its name is declared around it, if it is new.       *)
LEMMA FunctionScopes ==
  ASSUME PInv, Fresh, PInv', ReduceDeclGlbFct
  PROVE  Scoping!Next
<1> DEFINE f == last_function_
           x == heap[f].name
           args == heap[f].args
           a == Added(Last(symbol_table), <<f>>)
           s == symbol_table
           o == Outer(f)
           t == Added(EmptyTable, args)
           r == symbol_table'
           D == IF is_visible(x) THEN {} ELSE {x}
<1>1. /\ At("decl_glb_fct") /\ Ahead("decl_glb_fct") /\ r = Append(o, t)
  BY DEF ReduceDeclGlbFct, At, Ahead, Top, Outer, WithLast, Last
<1>2. /\ IsTuple(s) /\ s # <<>> /\ InTables = InChain(s) /\ Len(s) \in Nat /\ Len(s) >= 1
      /\ DOMAIN s = 1..Len(s) /\ InTables \subseteq 1..Len(heap)
  BY Chained, Objects
<1>3. f \in DOMAIN heap /\ f \in 1..Len(heap)
  BY <1>1, FunctionMet, Objects
<1>4. x \in Names /\ IsTuple(args)
  BY <1>3, ObjectNamed, Objects, Tuples
<1>5. /\ Elements(args) \intersect InTables = {} /\ Elements(args) \subseteq 1..Len(heap)
      /\ \A i \in Elements(args) : i < f
  BY <1>1, <1>3, Objects DEF Fresh
<1>6. IsAdded(t, EmptyTable, args) /\ DOMAIN EmptyTable = {}
  BY <1>4, AddedFound DEF EmptyTable
<1>7. DOMAIN t \subseteq Names /\ \A y \in DOMAIN t : t[y] \in Elements(args)
  <2>1. \A i \in Elements(args) : heap[i].name \in Names
    BY <1>5, Objects, ObjectNamed
  <2> HIDE DEF t, args
  <2>2. \A y \in DOMAIN t : t[y] \in Elements(args)
    BY <1>6 DEF IsAdded, Elements
  <2> QED
    BY <1>6, <2>1, <2>2 DEF IsAdded
<1> HIDE DEF t, args
<1>8. /\ IsTuple(o) /\ o # <<>> /\ Len(o) = Len(s) /\ Declares(s, o, D)
      /\ InChain(o) \subseteq InTables \union {f}
  <2>1. CASE is_visible(x)
    <3>1. o = s
      BY <2>1 DEF Outer
    <3> HIDE DEF s, o
    <3>2. Declares(s, o, {})
      BY <1>2, <3>1, DeclaresNothing
    <3> QED
      BY <1>2, <2>1, <3>1, <3>2
  <2>2. CASE ~is_visible(x)
    <3> DEFINE l == <<f>>
    <3>1. o = WithLast(s, a)
      BY <2>2 DEF Outer
    <3>2. Elements(l) = {f} /\ IsTuple(l)
      <4>1. Elements(l) = {f}
        BY DEF Elements
      <4> QED
        BY <4>1, ShortTuples
    <3> HIDE DEF l
    <3>3. x \notin DOMAIN Last(s)
      BY <1>2, <2>2 DEF is_visible, Last
    <3>4. IsAdded(a, Last(s), l) /\ Elements(a) \subseteq Elements(Last(s)) \union {f}
      BY <3>2, AddedFound, AddedElements DEF l
    <3> HIDE DEF a, o
    <3>5. /\ DOMAIN a = DOMAIN Last(s) \union {x} /\ \A y \in DOMAIN Last(s) : a[y] = Last(s)[y]
          /\ a[x] = f
      <4>1. DOMAIN a = DOMAIN Last(s) \union {x} /\ \A y \in DOMAIN Last(s) : a[y] = Last(s)[y]
        BY <3>2, <3>4 DEF IsAdded
      <4>2. PICK k \in DOMAIN l : a[x] = l[k]
        BY <3>3, <3>4, <4>1 DEF IsAdded
      <4>3. l[k] = f
        BY <3>2, <4>2 DEF Elements
      <4> QED
        BY <4>1, <4>2, <4>3
    <3>6. MeaningIn(s, Len(s), x) = 0 /\ f # 0
      BY <1>2, <1>3, <2>2 DEF is_visible, MeaningIn
    <3>7. Declares(s, o, {x})
      <4> HIDE DEF s, x, f
      <4> QED
        BY <1>2, <3>1, <3>3, <3>5, <3>6, DeclaresNew DEF Last
    <3>8. IsTuple(o) /\ o # <<>> /\ Len(o) = Len(s)
      <4> HIDE DEF s
      <4> QED
        BY <1>2, <3>1, LastReplaced
    <3>9. InChain(o) \subseteq InTables \union {f}
      <4>1. Elements(Last(s)) \subseteq InTables
        BY Chained
      <4>2. InChain(o) \subseteq InChain(s) \union Elements(a)
        BY <1>2, <3>1, ChainWithLast
      <4> QED
        BY <1>2, <3>4, <4>1, <4>2
    <3> QED
      BY <2>2, <3>7, <3>8, <3>9
  <2> QED
    BY <2>1, <2>2
<1> HIDE DEF o, f, s, D, r
<1>9. /\ IsTuple(r) /\ Len(r) = Len(s) + 1 /\ r[Len(s) + 1] = t
      /\ \A i \in 1..Len(s) : r[i] = o[i]
  BY <1>1, <1>8, Appended
<1>10. \A y \in DOMAIN t : t[y] \notin InChain(o) \union {0}
  BY <1>3, <1>5, <1>7, <1>8
<1>11. Enters(o, r, DOMAIN t)
  BY <1>8, <1>9, <1>10, EntersNew
<1>12. Enters(s, r, DOMAIN t)
  BY <1>8, <1>11 DEF Enters
<1>13. Declares(s, r, D)
  <2>1. ASSUME NEW k \in 1..Len(s), NEW y
        PROVE  MeaningIn(r, k, y) = MeaningIn(o, k, y)
    <3>1. k \in Nat /\ \A i \in 1..k : r[i] = o[i]
      BY <1>2, <1>9
    <3> QED
      BY <3>1, SameMeanings
  <2>2. Len(s) \in 1..Len(s) /\ \A k \in 1..Len(s) - 1 : k \in 1..Len(s)
    BY <1>2
  <2> QED
    BY <1>8, <1>9, <2>1, <2>2 DEF Declares
<1>14. D \in SUBSET Names /\ DOMAIN t \in SUBSET Names
  BY <1>4, <1>7 DEF D
<1> QED
  BY <1>2, <1>9, <1>12, <1>13, <1>14, ScopingStep DEF s, r

LEMMA ScopingInit == Init => Scoping!Init
<1> SUFFICES ASSUME Init
             PROVE  Scoping!Init
  OBVIOUS
<1> DEFINE t == EmptyTable
           s == symbol_table
           e == EnvironmentsOf(s)
           o == OwnOf(s)
<1>1. s = <<t>>
  BY DEF Init
<1>2. DOMAIN t = {}
  BY DEF EmptyTable
<1>3. e = EnvironmentsOf(symbol_table) /\ o = OwnOf(symbol_table)
  OBVIOUS
<1> HIDE DEF t, s
<1>4. DOMAIN s = {1} /\ s[1] = t
  BY <1>1
<1>5. \A x : MeaningIn(s, 1, x) = 0
  BY <1>2, <1>4, Meanings
<1>6. e = [n \in {1} |-> [x \in Names |-> 0]] /\ o = [n \in {1} |-> {}]
  BY <1>2, <1>4, <1>5 DEF EnvironmentsOf, OwnOf
<1>7. \A v : [n \in {1} |-> v] = <<v>>
  OBVIOUS
<1>8. e = <<[x \in Names |-> 0]>> /\ o = <<{}>>
  BY <1>6, <1>7
<1> HIDE DEF e, o
<1> QED
  BY <1>3, <1>8, ScopingActions

(* Only declarations and the ends of blocks change the chain.                 *)
LEMMA ScopesChange ==
  ASSUME [Next]_vars
  PROVE  \/ ReduceDeclaration \/ ReduceDeclGlbFct \/ BlockEnd
         \/ BlockStart /\ ~new_function_definition_
         \/ symbol_table' = symbol_table
<1>1. ASSUME Refuse
      PROVE  symbol_table' = symbol_table
  BY <1>1 DEF Refuse, scopes
<1>2. CASE DeclarationStep
  <2>1. CASE ReduceDeclaration \/ ReduceDeclGlbFct
    BY <2>1
  <2>2. CASE RejectDeclaration \/ RejectDeclGlbFct
    BY <1>1, <2>2 DEF RejectDeclaration, RejectDeclGlbFct, Reject
  <2>3. CASE \/ \E extern \in 0..1 : ExpandDeclaration(extern)
             \/ \E x \in Names : ExpandFunctionDefinition(x)
             \/ \E t \in Type : TypeSpecifier(t)
             \/ \E x \in Names : Declarator(x) \/ ExpandFunctionDeclarator(x)
             \/ \E more \in BOOLEAN : DeclaratorList(more) \/ ParameterList(more)
             \/ \E x \in Names : ParameterDeclaration(x)
    BY <2>3, Zenon DEF ExpandDeclaration, ExpandFunctionDefinition, TypeSpecifier, Declarator,
       ExpandFunctionDeclarator, DeclaratorList, ParameterList, ParameterDeclaration, scopes
  <2>4. CASE FunctionDeclarator \/ ReduceExternalDeclaration \/ ReduceFunctionDefinition
    BY <2>4, Zenon DEF FunctionDeclarator, ReduceExternalDeclaration, ReduceFunctionDefinition,
       scopes
  <2> QED
    BY <1>2, <2>1, <2>2, <2>3, <2>4 DEF DeclarationStep
<1>3. CASE InstructionStep
  <2>1. CASE BlockStart
    BY <2>1 DEF BlockStart
  <2>2. CASE \/ AppendInstruction \/ EmptyInstruction \/ ReduceInstruction \/ ReduceCondition
             \/ ReduceAssignment
    BY <2>2, Zenon DEF AppendInstruction, EmptyInstruction, ReduceInstruction,
       ReduceCondition, ReduceAssignment, Make, scopes
  <2>3. CASE \/ \E more \in BOOLEAN : DeclarationList(more) \/ InstructionList(more)
             \/ \E ordering \in 0..1 : ExpandCondition(ordering)
             \/ ExpandInstruction
    BY <2>3, Zenon DEF DeclarationList, InstructionList, ExpandCondition, ExpandInstruction,
       Expand, scopes
  <2>4. CASE RejectAssignment
    BY <1>1, <2>4 DEF RejectAssignment, Reject
  <2> QED
    BY <1>3, <2>1, <2>2, <2>3, <2>4 DEF InstructionStep
<1>4. CASE ExpressionStep
  <2>1. CASE \/ \E t \in Type : Constant(t)
             \/ \E x \in Names : Identifier(x)
             \/ ExpandExpression \/ ReduceOperator \/ ReduceCall
    BY <2>1, Zenon DEF Constant, Identifier, Push, ExpandExpression, Expand, ReduceOperator,
       Make, ReduceCall, scopes
  <2>2. CASE RejectOperator \/ RejectCall \/ \E x \in Names : RejectIdentifier(x)
    BY <1>1, <2>2 DEF RejectOperator, RejectCall, RejectIdentifier, Reject
  <2> QED
    BY <1>4, <2>1, <2>2 DEF ExpressionStep
<1>5. CASE EndOfInput \/ SyntaxError \/ Stopped \/ UNCHANGED vars
  BY <1>1, <1>5, Zenon DEF EndOfInput, SyntaxError, Reject, Stopped, vars, scopes
<1> QED
  BY <1>2, <1>3, <1>4, <1>5 DEF Next

(* The chain of tables (symbol_table.cpp), searched from the innermost one      *)
(* outwards, implements lexical scoping: entering a block copies the            *)
(* environment around it, a declaration gives a name a meaning it did not have, *)
(* once in a block, and leaving a block restores what was there.               *)
THEOREM TablesAlwaysScopeLexically == Spec => TablesScopeLexically
<1>1. ASSUME PInv, Fresh, PInv', [Next]_vars
      PROVE  [Scoping!Next]_(Scoping!vars)
  <2>1. CASE ReduceDeclaration \/ ReduceDeclGlbFct
    BY <1>1, <2>1, DeclarationScopes, FunctionScopes
  <2>2. CASE BlockEnd \/ (BlockStart /\ ~new_function_definition_)
    BY <1>1, <2>2, BlockEndScopes, BlockStartScopes
  <2>3. CASE symbol_table' = symbol_table
    BY <2>3, ScopingVariables
  <2> QED
    BY <1>1, <2>1, <2>2, <2>3, ScopesChange
<1> QED
  BY <1>1, ScopingInit, ObjectsStayFresh, PTL DEF Spec, TablesScopeLexically, Scoping!Spec

-----------------------------------------------------------------------------
(* Blocks and the symbols outside of them.  What declares in a block is        *)
(* followed by its end; no end of a block follows what belongs to no block.   *)

Local(it) == it.k = "declaration_list" \/ (it.k = "declaration" /\ it.name = "local")
Global(it) ==
  \/ it.k \in {"program", "decl_glb_fct", "external_declaration"}
  \/ it.k = "declaration" /\ it.name = "global"

EndsBlocks(s) == \E i \in DOMAIN s : s[i].k = "block_end"

Nested(s) ==
  \A i \in DOMAIN s :
    /\ Local(s[i]) => \E j \in DOMAIN s : j > i /\ s[j].k = "block_end"
    /\ Global(s[i]) => \A j \in DOMAIN s : j > i => s[j].k # "block_end"

LEMMA NestedFirst ==
  ASSUME NEW s, IsTuple(s), s # <<>>, Nested(s)
  PROVE  /\ Nested(Tail(s))
         /\ Local(Head(s)) => EndsBlocks(Tail(s))
         /\ Global(Head(s)) => ~EndsBlocks(s) /\ ~EndsBlocks(Tail(s))
<1> DEFINE h == <<Head(s)>>
           t == Tail(s)
<1>1. s = h \o t /\ IsTuple(h) /\ IsTuple(t) /\ Len(h) = 1 /\ h[1] = Head(s)
  BY HeadAndRest, ShortTuples
<1>2. IsJoined(h, t, s)
  BY <1>1, Joined
<1>3. /\ Len(t) \in Nat /\ DOMAIN t = 1..Len(t) /\ DOMAIN s = 1..Len(t) + 1
      /\ s[1] = Head(s) /\ \A i \in DOMAIN t : s[i + 1] = t[i]
      /\ \A i \in DOMAIN s : i = 1 \/ (i - 1 \in DOMAIN t /\ s[i] = t[i - 1])
  <2> HIDE DEF h, t
  <2>1. /\ Len(t) \in Nat /\ DOMAIN t = 1..Len(t) /\ DOMAIN h = 1..1
        /\ DOMAIN s = 1..1 + Len(t) /\ s[1] = Head(s)
    BY <1>1, <1>2 DEF IsJoined
  <2>2. \A i \in DOMAIN t : s[i + 1] = t[i]
    BY <1>1, <1>2, <2>1 DEF IsJoined
  <2>3. \A i \in DOMAIN s : i = 1 \/ (i - 1 \in DOMAIN t /\ s[i] = t[i - 1])
    BY <1>1, <1>2, <2>1 DEF IsJoined
  <2> QED
    BY <2>1, <2>2, <2>3
<1> HIDE DEF h, t
<1>4. ASSUME NEW i \in DOMAIN t
      PROVE  /\ Local(t[i]) => \E j \in DOMAIN t : j > i /\ t[j].k = "block_end"
             /\ Global(t[i]) => \A j \in DOMAIN t : j > i => t[j].k # "block_end"
  <2>1. i + 1 \in DOMAIN s /\ s[i + 1] = t[i] /\ i \in Nat
    BY <1>3
  <2>2. ASSUME Local(t[i])
        PROVE  \E j \in DOMAIN t : j > i /\ t[j].k = "block_end"
    <3>1. PICK j \in DOMAIN s : j > i + 1 /\ s[j].k = "block_end"
      BY <2>1, <2>2 DEF Nested
    <3>2. j - 1 \in DOMAIN t /\ s[j] = t[j - 1] /\ j - 1 > i
      BY <1>3, <2>1, <3>1
    <3> QED
      BY <3>1, <3>2
  <2>3. ASSUME Global(t[i]), NEW j \in DOMAIN t, j > i
        PROVE  t[j].k # "block_end"
    <3>1. j + 1 \in DOMAIN s /\ j + 1 > i + 1 /\ s[j + 1] = t[j]
      BY <1>3, <2>1, <2>3
    <3> QED
      BY <2>1, <2>3, <3>1 DEF Nested
  <2> QED
    BY <2>2, <2>3
<1>5. ASSUME Local(Head(s))
      PROVE  EndsBlocks(t)
  <2>1. PICK j \in DOMAIN s : j > 1 /\ s[j].k = "block_end"
    BY <1>3, <1>5 DEF Nested
  <2> QED
    BY <1>3, <2>1 DEF EndsBlocks
<1>6. ASSUME Global(Head(s))
      PROVE  ~EndsBlocks(s) /\ ~EndsBlocks(t)
  <2>1. Head(s).k # "block_end"
    BY <1>6 DEF Global
  <2>2. 1 \in DOMAIN s
    BY <1>3
  <2>3. ASSUME NEW j \in DOMAIN s
        PROVE  s[j].k # "block_end"
    BY <1>3, <1>6, <2>1, <2>2 DEF Nested
  <2>4. ASSUME NEW j \in DOMAIN t
        PROVE  t[j].k # "block_end"
    <3>1. j + 1 \in DOMAIN s /\ s[j + 1] = t[j]
      BY <1>3
    <3> QED
      BY <2>3, <3>1
  <2> QED
    BY <2>3, <2>4 DEF EndsBlocks
<1> QED
  BY <1>4, <1>5, <1>6 DEF Nested, t

LEMMA NestedJoined ==
  ASSUME NEW s, NEW t, IsTuple(s), IsTuple(t), Nested(t),
         \A i \in DOMAIN s : Local(s[i]) =>
           EndsBlocks(t) \/ \E j \in DOMAIN s : j > i /\ s[j].k = "block_end",
         (\E i \in DOMAIN s : Global(s[i])) => ~EndsBlocks(s) /\ ~EndsBlocks(t)
  PROVE  Nested(s \o t)
<1> DEFINE u == s \o t
           n == Len(s)
<1>1. IsJoined(s, t, u)
  BY Joined
<1> HIDE DEF u
<1>2. /\ n \in Nat /\ DOMAIN s = 1..n /\ Len(t) \in Nat /\ DOMAIN t = 1..Len(t)
      /\ DOMAIN u = 1..n + Len(t)
      /\ \A i \in DOMAIN s : u[i] = s[i]
      /\ \A i \in DOMAIN t : u[n + i] = t[i]
      /\ \A i \in DOMAIN u :
           \/ i \in DOMAIN s /\ u[i] = s[i]
           \/ i > n /\ i - n \in DOMAIN t /\ u[i] = t[i - n]
  BY <1>1 DEF IsJoined
<1> HIDE DEF n
<1>3. ASSUME NEW i \in DOMAIN u, Local(u[i])
      PROVE  \E j \in DOMAIN u : j > i /\ u[j].k = "block_end"
  <2>1. ASSUME i \in DOMAIN s, EndsBlocks(t)
        PROVE  \E j \in DOMAIN u : j > i /\ u[j].k = "block_end"
    <3>1. PICK j \in DOMAIN t : t[j].k = "block_end"
      BY <2>1 DEF EndsBlocks
    <3>2. n + j \in DOMAIN u /\ n + j > i /\ u[n + j] = t[j]
      BY <1>2, <2>1
    <3> QED
      BY <3>1, <3>2
  <2>2. ASSUME NEW j \in DOMAIN s, j > i, s[j].k = "block_end"
        PROVE  \E k \in DOMAIN u : k > i /\ u[k].k = "block_end"
    <3>1. j \in DOMAIN u /\ u[j] = s[j]
      BY <1>2
    <3> QED
      BY <2>2, <3>1
  <2>3. CASE i \in DOMAIN s
    BY <1>2, <1>3, <2>1, <2>2, <2>3
  <2>4. CASE i \notin DOMAIN s
    <3>1. i - n \in DOMAIN t /\ u[i] = t[i - n] /\ i \in Nat
      BY <1>2, <2>4
    <3>2. PICK j \in DOMAIN t : j > i - n /\ t[j].k = "block_end"
      BY <1>3, <3>1 DEF Nested
    <3>3. n + j \in DOMAIN u /\ n + j > i /\ u[n + j] = t[j]
      BY <1>2, <3>1, <3>2
    <3> QED
      BY <3>2, <3>3
  <2> QED
    BY <2>3, <2>4
<1>4. ASSUME NEW i \in DOMAIN u, Global(u[i]), NEW j \in DOMAIN u, j > i
      PROVE  u[j].k # "block_end"
  <2>1. CASE i \in DOMAIN s
    <3>1. ~EndsBlocks(s) /\ ~EndsBlocks(t)
      BY <1>2, <1>4, <2>1
    <3> QED
      BY <1>2, <3>1 DEF EndsBlocks
  <2>2. CASE i \notin DOMAIN s
    <3>1. i - n \in DOMAIN t /\ u[i] = t[i - n] /\ i \in Nat /\ j \in Nat /\ i > n
      BY <1>2, <2>2
    <3>2. j - n \in DOMAIN t /\ u[j] = t[j - n] /\ j - n > i - n
      BY <1>2, <1>4, <3>1
    <3> QED
      BY <1>4, <3>1, <3>2 DEF Nested
  <2> QED
    BY <2>1, <2>2
<1> QED
  BY <1>3, <1>4 DEF Nested, u

(* The symbols of a sequence, by what they are to a block.                    *)
Tag(it) ==
  IF Local(it) THEN "local" ELSE IF Global(it) THEN "global"
  ELSE IF it.k = "block_end" THEN "end" ELSE "plain"
Tagged(s, tags) == IsTuple(s) /\ \A i \in DOMAIN s : Tag(s[i]) \in tags

LEMMA TaggedJoined ==
  ASSUME NEW tags, NEW s, NEW t, Tagged(s, tags), Tagged(t, tags)
  PROVE  Tagged(s \o t, tags)
<1> DEFINE u == s \o t
<1>1. IsJoined(s, t, u)
  BY Joined DEF Tagged
<1> HIDE DEF u
<1>2. Tagged(u, tags)
  BY <1>1 DEF IsJoined, Tagged
<1> QED
  BY <1>2 DEF u

LEMMA TaggedShort ==
  ASSUME NEW tags
  PROVE  /\ Tagged(<<>>, tags)
         /\ \A a : Tag(a) \in tags => Tagged(<<a>>, tags)
         /\ \A a, b : Tag(a) \in tags /\ Tag(b) \in tags => Tagged(<<a, b>>, tags)
         /\ \A a, b, c :
              Tag(a) \in tags /\ Tag(b) \in tags /\ Tag(c) \in tags
                => Tagged(<<a, b, c>>, tags)
         /\ \A a, b, c, d :
              Tag(a) \in tags /\ Tag(b) \in tags /\ Tag(c) \in tags /\ Tag(d) \in tags
                => Tagged(<<a, b, c, d>>, tags)
<1>1. Tagged(<<>>, tags)
  BY ShortTuples, ShortItems DEF Tagged
<1>2. ASSUME NEW a, Tag(a) \in tags
      PROVE  Tagged(<<a>>, tags)
  BY <1>2, ShortTuples, ShortItems DEF Tagged
<1>3. ASSUME NEW a, NEW b, Tag(a) \in tags, Tag(b) \in tags
      PROVE  Tagged(<<a, b>>, tags)
  BY <1>3, ShortTuples, ShortItems DEF Tagged
<1>4. ASSUME NEW a, NEW b, NEW c, Tag(a) \in tags, Tag(b) \in tags, Tag(c) \in tags
      PROVE  Tagged(<<a, b, c>>, tags)
  <2>1. \A i \in DOMAIN <<a, b, c>> :
          <<a, b, c>>[i] = a \/ <<a, b, c>>[i] = b \/ <<a, b, c>>[i] = c
    OBVIOUS
  <2> QED
    BY <1>4, <2>1, ShortTuples DEF Tagged
<1>5. ASSUME NEW a, NEW b, NEW c, NEW d, Tag(a) \in tags, Tag(b) \in tags,
             Tag(c) \in tags, Tag(d) \in tags
      PROVE  Tagged(<<a, b, c, d>>, tags)
  <2>1. Tagged(<<a, b, c>>, tags) /\ Tagged(<<d>>, tags)
    BY <1>2, <1>4, <1>5
  <2>2. Tagged(<<a, b, c>> \o <<d>>, tags)
    BY <2>1, TaggedJoined
  <2> QED
    BY <2>2, ShortConcat
<1> QED
  BY <1>1, <1>2, <1>3, <1>4, <1>5

LEMMA Tags ==
  /\ \A k : k \notin {"declaration", "declaration_list", "block_end", "program",
                      "decl_glb_fct", "external_declaration"} =>
       /\ Tag(Item(k)) = "plain"
       /\ \A x : \A n \in Nat : Tag(Named(k, x, n)) = "plain"
  /\ Tag(Item("block_end")) = "end" /\ Tag(Item("declaration_list")) = "local"
  /\ Tag(Item("decl_glb_fct")) = "global"
  /\ \A x : \A n \in Nat : Tag(Named("external_declaration", x, n)) = "global"
  /\ Tag(Named("declaration", "local", 0)) = "local"
  /\ Tag(Named("declaration", "global", 0)) = "global"
<1>1. /\ \A k : Item(k).k = k
      /\ \A k, x : \A n \in Nat : Named(k, x, n).k = k /\ Named(k, x, n).name = x
  BY Symbols
<1> QED
  BY <1>1 DEF Tag, Local, Global

(* What the symbols of a program are to blocks.                               *)
LEMMA PlainExpansions ==
  LET Plain(items) == Tagged(items, {"plain"})
  IN  /\ Plain(<<>>)
      /\ \A x : Plain(<<Item("parameter_list"), Named("function_declarator", x, 1)>>)
      /\ Plain(<<Item("declarator"), Item("declarator_list")>>)
      /\ Plain(<<Item("type"), Item("parameter_declaration"), Item("parameter_list")>>)
      /\ Plain(<<Item("instruction"), Item("append"), Item("instruction_list")>>)
      /\ Plain(<<Item("compound")>>)
      /\ Plain(<<Item("expression"), Item("expression_instruction")>>)
      /\ \A k \in {"if", "while"} :
           Plain(<<Item("condition"), Item("instruction"), Item(k)>>)
      /\ Plain(<<Item("instruction"), Item("condition"), Item("do")>>)
      /\ Plain(<<Item("condition"), Item("instruction"), Item("instruction"),
                 Item("if_else")>>)
      /\ \A c : c.k = "comparison" =>
           Plain(<<Item("expression"), Item("expression"), c>>)
      /\ \A k \in {"plus", "other"} :
           Plain(<<Item("expression"), Item("expression"), Item(k)>>)
      /\ Plain(<<Item("expression"), Item("unary")>>)
      /\ \A x : Plain(Assignment(x))
<1> DEFINE P(items) == Tagged(items, {"plain"})
           Q(it) == Tag(it) \in {"plain"}
<1>1. ASSUME NEW k \in {"parameter_list", "declarator", "declarator_list", "instruction",
                        "append", "instruction_list", "compound", "expression",
                        "expression_instruction", "condition", "if", "while", "do",
                        "if_else", "unary", "plus", "other", "type", "parameter_declaration"}
      PROVE  Q(Item(k))
  BY Tags
<1>2. ASSUME NEW k \in {"function_declarator", "assignment"}
      PROVE  \A x : \A n \in Nat : Q(Named(k, x, n))
  BY Tags
<1>3. \A c : c.k = "comparison" => Q(c)
  BY DEF Tag, Local, Global
<1>4. /\ P(<<>>)
      /\ \A a : Q(a) => P(<<a>>)
      /\ \A a, b : Q(a) /\ Q(b) => P(<<a, b>>)
      /\ \A a, b, c : Q(a) /\ Q(b) /\ Q(c) => P(<<a, b, c>>)
      /\ \A a, b, c, d : Q(a) /\ Q(b) /\ Q(c) /\ Q(d) => P(<<a, b, c, d>>)
  BY TaggedShort
<1>5. 1 \in Nat /\ 0 \in Nat
  OBVIOUS
<1> HIDE DEF P, Q
<1>6. \A x : P(<<Item("parameter_list"), Named("function_declarator", x, 1)>>)
  BY <1>1, <1>2, <1>4, <1>5
<1>7. /\ P(<<Item("declarator"), Item("declarator_list")>>) /\ P(<<Item("compound")>>)
      /\ P(<<Item("expression"), Item("expression_instruction")>>)
      /\ P(<<Item("expression"), Item("unary")>>)
  BY <1>1, <1>4
<1>8. /\ P(<<Item("type"), Item("parameter_declaration"), Item("parameter_list")>>)
      /\ P(<<Item("instruction"), Item("append"), Item("instruction_list")>>)
  BY <1>1, <1>4
<1>9. /\ \A k \in {"if", "while"} : P(<<Item("condition"), Item("instruction"), Item(k)>>)
      /\ P(<<Item("instruction"), Item("condition"), Item("do")>>)
      /\ P(<<Item("condition"), Item("instruction"), Item("instruction"),
             Item("if_else")>>)
  BY <1>1, <1>4
<1>10. /\ \A c : c.k = "comparison" => P(<<Item("expression"), Item("expression"), c>>)
      /\ \A k \in {"plus", "other"} : P(<<Item("expression"), Item("expression"), Item(k)>>)
  BY <1>1, <1>4, <1>3
<1>11. \A x : P(Assignment(x))
  BY <1>1, <1>2, <1>4, <1>5 DEF Assignment
<1> QED
  BY <1>4, <1>6, <1>7, <1>8, <1>9, <1>10, <1>11 DEF P

LEMMA LongPlainExpansions ==
  LET Plain(items) == Tagged(items, {"plain"})
  IN  /\ \A x : Plain(Assignment(x) \o <<Item("expression_instruction")>>)
      /\ \A x, y : Plain(Assignment(x) \o <<Item("condition")>> \o Assignment(y)
                           \o <<Item("instruction"), Item("for")>>)
      /\ \A x : \A m \in Nat :
           Plain([i \in 1..m |-> Item("expression")] \o <<Named("call", x, m)>>)
<1> DEFINE P(items) == Tagged(items, {"plain"})
           Q(it) == Tag(it) \in {"plain"}
<1>1. ASSUME NEW k \in {"expression_instruction", "condition", "instruction", "for",
                        "expression"}
      PROVE  Q(Item(k))
  BY Tags
<1>2. \A s, t : P(s) /\ P(t) => P(s \o t)
  BY TaggedJoined
<1>3. \A a : Q(a) => P(<<a>>)
  BY TaggedShort
<1>4. \A a, b : Q(a) /\ Q(b) => P(<<a, b>>)
  BY TaggedShort
<1>5. \A x : P(Assignment(x))
  BY PlainExpansions
<1>6. ASSUME NEW x, NEW m \in Nat
      PROVE  P([i \in 1..m |-> Item("expression")] \o <<Named("call", x, m)>>)
  <2> DEFINE a == Item("expression")
             s == [i \in 1..m |-> a]
             b == Named("call", x, m)
  <2>1. Q(a) /\ Q(b)
    BY Tags
  <2> HIDE DEF a, b
  <2>2. s \in [1..m -> {a}]
    OBVIOUS
  <2>3. IsTuple(s) /\ \A i \in DOMAIN s : s[i] = a
    BY <2>2, SeqFromFunction, Tuples, ZenonT(30)
  <2>4. P(s)
    <3> HIDE DEF s
    <3> QED
      BY <2>1, <2>3 DEF Tagged
  <2>5. P(<<b>>)
    BY <1>3, <2>1
  <2> HIDE DEF P, Q, s
  <2>6. P(s \o <<b>>)
    BY <1>2, <2>4, <2>5
  <2> QED
    BY <2>6 DEF s, a, b
<1> HIDE DEF P, Q
<1>7. \A x : P(Assignment(x) \o <<Item("expression_instruction")>>)
  BY <1>1, <1>2, <1>3, <1>5
<1>8. ASSUME NEW x, NEW y
      PROVE  P(Assignment(x) \o <<Item("condition")>> \o Assignment(y)
                 \o <<Item("instruction"), Item("for")>>)
  <2>1. P(<<Item("condition")>>) /\ P(<<Item("instruction"), Item("for")>>)
    BY <1>1, <1>3, <1>4
  <2>2. P(Assignment(x) \o <<Item("condition")>> \o Assignment(y))
    BY <1>2, <1>5, <2>1
  <2> QED
    BY <1>2, <2>1, <2>2
<1> QED
  BY <1>6, <1>7, <1>8 DEF P

(* What a symbol is replaced with keeps the order of blocks.                  *)
LEMMA NestedKept ==
  ASSUME PInv, expected # <<>>, Nested(expected), NEW items, Become(items),
         \/ Tagged(items, {"plain"})
         \/ Tagged(items, {"plain", "local"}) /\ Local(Top)
  PROVE  Nested(expected')
<1> DEFINE t == Tail(expected)
<1>1. IsTuple(items) /\ IsTuple(t) /\ Nested(t) /\ expected' = items \o t
  BY HeadAndRest, NestedFirst DEF PInv, IsSentence, Tagged, Become
<1>2. (\A i \in DOMAIN items : ~Local(items[i])) \/ EndsBlocks(t)
  <2>1. CASE Tagged(items, {"plain"})
    BY <2>1 DEF Tagged, Tag
  <2>2. CASE Local(Top)
    BY <2>2, NestedFirst DEF PInv, IsSentence, Top
  <2> QED
    BY <2>1, <2>2
<1> HIDE DEF t
<1>3. \A i \in DOMAIN items : ~Global(items[i])
  BY DEF Tagged, Tag, Local, Global
<1>4. Nested(items \o t)
  BY <1>1, <1>2, <1>3, NestedJoined
<1> QED
  BY <1>1, <1>4

LEMMA ProgramNested ==
  ASSUME PInv, expected # <<>>, Nested(expected), Global(Top), NEW items,
         Tagged(items, {"plain", "global"}), expected' = items \o expected
  PROVE  Nested(expected')
<1>1. IsTuple(expected) /\ ~EndsBlocks(expected)
  BY NestedFirst DEF PInv, IsSentence, Top
<1>2. /\ IsTuple(items) /\ \A i \in DOMAIN items : ~Local(items[i])
      /\ ~EndsBlocks(items)
  BY DEF Tagged, Tag, EndsBlocks, Local, Global
<1>3. Nested(items \o expected)
  BY <1>1, <1>2, NestedJoined
<1> QED
  BY <1>3

LEMMA BlockNested ==
  ASSUME PInv, expected # <<>>, Nested(expected),
         Become(<<Item("declaration_list"), Item("instruction_list"), Item("block_end")>>)
  PROVE  Nested(expected')
<1> DEFINE a == Item("declaration_list")
           b == Item("instruction_list")
           c == Item("block_end")
           s == <<a, b, c>>
           t == Tail(expected)
<1>1. /\ a.k = "declaration_list" /\ b.k = "instruction_list" /\ c.k = "block_end"
      /\ expected' = s \o t
  BY Symbols DEF Become
<1>2. IsTuple(t) /\ Nested(t)
  BY HeadAndRest, NestedFirst DEF PInv, IsSentence
<1> HIDE DEF a, b, c, t
<1>3. IsTuple(s) /\ DOMAIN s = 1..3 /\ s[1] = a /\ s[2] = b /\ s[3] = c
  BY ShortTuples
<1> HIDE DEF s
<1>4. \A i \in DOMAIN s : ~Global(s[i])
  BY <1>1, <1>3 DEF Global
<1>5. \A i \in DOMAIN s : Local(s[i]) => i = 1
  BY <1>1, <1>3 DEF Local
<1>6. \A i \in DOMAIN s : Local(s[i]) => \E j \in DOMAIN s : j > i /\ s[j].k = "block_end"
  BY <1>1, <1>3, <1>5
<1>7. Nested(s \o t)
  BY <1>2, <1>3, <1>4, <1>6, NestedJoined
<1> QED
  BY <1>1, <1>7

(* How a step changes what is expected.                                       *)
Rewrites ==
  \/ expected' = expected
  \/ \E items : /\ expected # <<>> /\ Become(items)
                 /\ Tagged(items, {"plain"})
  \/ \E items : /\ expected # <<>> /\ Top.k = "program" /\ expected' = items \o expected
                 /\ Tagged(items, {"plain", "global"})
  \/ BlockStart \/ DeclarationList(TRUE)

LEMMA PlainRewrites ==
  ASSUME expected # <<>>, NEW items, Become(items), Tagged(items, {"plain"})
  PROVE  Rewrites
BY DEF Rewrites

LEMMA ProgramRewrites ==
  ASSUME expected # <<>>, Top.k = "program", NEW items,
         Tagged(items, {"plain", "global"}), expected' = items \o expected
  PROVE  Rewrites
BY DEF Rewrites

LEMMA ConsumedRewrites ==
  ASSUME NEW k, At(k), Become(<<>>)
  PROVE  Rewrites
<1>1. expected # <<>>
  BY DEF At
<1>2. Tagged(<<>>, {"plain"})
  BY TaggedShort
<1> QED
  BY <1>1, <1>2, PlainRewrites

LEMMA DeclarationStepRewrites ==
  ASSUME DeclarationStep
  PROVE  Rewrites
<1>1. ASSUME NEW extern \in 0..1, ExpandDeclaration(extern)
      PROVE  Rewrites
  <2> DEFINE e == Named("external_declaration", "", extern)
             d == Named("declaration", "global", 0)
             items == Declaration("global") \o <<e>>
             tags == {"plain", "global"}
  <2>1. expected # <<>> /\ Top.k = "program" /\ expected' = items \o expected
    BY <1>1, Zenon DEF ExpandDeclaration, At, Top
  <2>2. e.k = "external_declaration"
    BY Zenon DEF Named
  <2> HIDE DEF e
  <2>3. Tag(e) \in tags
    BY <2>2 DEF Tag, Local, Global
  <2>4. /\ Tag(Item("type")) \in tags /\ Tag(Item("declarator")) \in tags
        /\ Tag(Item("declarator_list")) \in tags
        /\ Tag(d) \in tags
    BY Tags
  <2> HIDE DEF d
  <2>5. Tagged(Declaration("global"), tags) /\ Tagged(<<e>>, tags)
    BY <2>4, <2>3, TaggedShort DEF Declaration, d
  <2>6. Tagged(items, tags)
    BY <2>5, TaggedJoined
  <2> HIDE DEF items
  <2> QED
    BY <2>1, <2>6, ProgramRewrites
<1>2. ASSUME NEW x \in Names, ExpandFunctionDefinition(x)
      PROVE  Rewrites
  <2> DEFINE a == Item("type")
             b == Item("parameter_list")
             c == Named("function_declarator", x, 0)
             d == Item("decl_glb_fct")
             e == Item("compound")
             f == Item("function_definition")
             tags == {"plain", "global"}
  <2>1. expected # <<>> /\ Top.k = "program" /\ expected' = <<a, b, c, d, e, f>> \o expected
    BY <1>2 DEF ExpandFunctionDefinition, At, Top
  <2>2. /\ Tag(a) \in tags /\ Tag(b) \in tags /\ Tag(c) \in tags /\ Tag(d) \in tags
        /\ Tag(e) \in tags /\ Tag(f) \in tags
    BY Tags
  <2> HIDE DEF a, b, c, d, e, f
  <2>3. Tagged(<<a, b, c>>, tags) /\ Tagged(<<d, e, f>>, tags)
    BY <2>2, TaggedShort
  <2>4. Tagged(<<a, b, c>> \o <<d, e, f>>, tags)
    BY <2>3, TaggedJoined
  <2>5. <<a, b, c>> \o <<d, e, f>> = <<a, b, c, d, e, f>>
    BY SixSymbols
  <2>6. Tagged(<<a, b, c, d, e, f>>, tags)
    BY <2>4, <2>5, Zenon
  <2> QED
    BY <2>1, <2>6, ProgramRewrites
<1>3. CASE \/ \E t \in Type : TypeSpecifier(t)
           \/ \E x \in Names : Declarator(x)
           \/ \E x \in Names : ParameterDeclaration(x)
           \/ FunctionDeclarator \/ ReduceDeclaration \/ ReduceExternalDeclaration
           \/ ReduceDeclGlbFct
  <2>1. Become(<<>>)
    BY <1>3, Zenon DEF TypeSpecifier, Declarator, ParameterDeclaration, FunctionDeclarator,
       ReduceDeclaration, ReduceExternalDeclaration, ReduceDeclGlbFct
  <2>2. \E k \in {"type", "declarator", "parameter_declaration", "function_declarator",
                  "declaration", "external_declaration", "decl_glb_fct"} : At(k)
    BY <1>3, Zenon DEF TypeSpecifier, Declarator, ParameterDeclaration, FunctionDeclarator,
       ReduceDeclaration, ReduceExternalDeclaration, ReduceDeclGlbFct
  <2> QED
    BY <2>1, <2>2, ConsumedRewrites
<1>4. CASE \E x \in Names : ExpandFunctionDeclarator(x)
  <2>1. PICK x \in Names :
          /\ expected # <<>>
          /\ Become(<<Item("parameter_list"), Named("function_declarator", x, 1)>>)
    BY <1>4, Zenon DEF ExpandFunctionDeclarator, At
  <2> QED
    BY <2>1, PlainExpansions, PlainRewrites
<1>5. CASE \E more \in BOOLEAN : DeclaratorList(more) \/ ParameterList(more)
  <2>1. /\ expected # <<>>
        /\ \/ Become(<<>>) \/ Become(<<Item("declarator"), Item("declarator_list")>>)
           \/ Become(<<Item("type"), Item("parameter_declaration"), Item("parameter_list")>>)
    BY <1>5 DEF DeclaratorList, ParameterList, At
  <2> QED
    BY <2>1, PlainExpansions, PlainRewrites
<1>6. CASE RejectDeclaration \/ RejectDeclGlbFct
  <2>1. expected' = expected
    BY <1>6, Zenon DEF RejectDeclaration, RejectDeclGlbFct, Reject, Refuse
  <2> QED
    BY <2>1 DEF Rewrites
<1>7. CASE ReduceFunctionDefinition
  <2>1. At("function_definition") /\ (Become(<<>>) \/ expected' = expected)
    BY <1>7, Zenon DEF ReduceFunctionDefinition
  <2> QED
    BY <2>1, ConsumedRewrites DEF Rewrites
<1> QED
  BY <1>1, <1>2, <1>3, <1>4, <1>5, <1>6, <1>7 DEF DeclarationStep

LEMMA InstructionStepRewrites ==
  ASSUME InstructionStep
  PROVE  Rewrites
<1>1. CASE BlockStart
  BY <1>1 DEF Rewrites
<1>2. CASE \/ BlockEnd \/ AppendInstruction \/ EmptyInstruction \/ ReduceInstruction
           \/ ReduceCondition \/ ReduceAssignment
  <2>1. Become(<<>>)
    BY <1>2, Zenon DEF BlockEnd, AppendInstruction, EmptyInstruction, ReduceInstruction,
       ReduceCondition, ReduceAssignment, Make
  <2>2. \E k \in {"block_end", "append", "instruction", "expression_instruction", "if",
                  "if_else", "while", "do", "for", "comparison", "assignment"} : At(k)
    BY <1>2, Zenon DEF BlockEnd, AppendInstruction, EmptyInstruction, ReduceInstruction,
       ReduceCondition, ReduceAssignment, Make
  <2> QED
    BY <2>1, <2>2, ConsumedRewrites
<1>3. ASSUME NEW more \in BOOLEAN, DeclarationList(more)
      PROVE  Rewrites
  <2>1. DeclarationList(TRUE) \/ (At("declaration_list") /\ Become(<<>>))
    BY <1>3 DEF DeclarationList
  <2> QED
    BY <2>1, ConsumedRewrites DEF Rewrites
<1>4. CASE \E more \in BOOLEAN : InstructionList(more)
  <2>1. /\ expected # <<>>
        /\ \/ Become(<<>>)
           \/ Become(<<Item("instruction"), Item("append"), Item("instruction_list")>>)
    BY <1>4 DEF InstructionList, At
  <2> QED
    BY <2>1, PlainExpansions, PlainRewrites
<1>5. CASE ExpandInstruction
  <2> DEFINE Keeps(items) == Expand("instruction", items) => Rewrites
  <2>1. ASSUME NEW items, Tagged(items, {"plain"})
        PROVE  Keeps(items)
    BY <2>1, PlainRewrites DEF Expand, At
  <2>2. /\ Keeps(<<Item("compound")>>)
        /\ Keeps(<<Item("expression"), Item("expression_instruction")>>)
    BY <2>1, PlainExpansions
  <2>3. /\ \A k \in {"if", "while"} :
             Keeps(<<Item("condition"), Item("instruction"), Item(k)>>)
        /\ Keeps(<<Item("instruction"), Item("condition"), Item("do")>>)
        /\ Keeps(<<Item("condition"), Item("instruction"), Item("instruction"),
                   Item("if_else")>>)
    BY <2>1, PlainExpansions
  <2>4. /\ \A x : Keeps(Assignment(x) \o <<Item("expression_instruction")>>)
        /\ \A x, y : Keeps(Assignment(x) \o <<Item("condition")>> \o Assignment(y)
                             \o <<Item("instruction"), Item("for")>>)
    BY <2>1, LongPlainExpansions
  <2> HIDE DEF Keeps
  <2>5. ASSUME NEW items, Keeps(items), Expand("instruction", items)
        PROVE  Rewrites
    BY <2>5 DEF Keeps
  <2> QED
    BY <1>5, <2>2, <2>3, <2>4, <2>5 DEF ExpandInstruction
<1>6. ASSUME NEW ordering \in 0..1, ExpandCondition(ordering)
      PROVE  Rewrites
  <2> DEFINE c == Named("comparison", "", ordering)
             items == <<Item("expression"), Item("expression"), c>>
  <2>1. expected # <<>> /\ Become(items)
    BY <1>6, Zenon DEF ExpandCondition, Expand, At
  <2>2. c.k = "comparison"
    BY Zenon DEF Named
  <2> HIDE DEF c
  <2>3. Tagged(items, {"plain"})
    BY <2>2, PlainExpansions
  <2> HIDE DEF items
  <2> QED
    BY <2>1, <2>3, PlainRewrites
<1>7. CASE RejectAssignment
  <2>1. expected' = expected
    BY <1>7, Zenon DEF RejectAssignment, Reject, Refuse
  <2> QED
    BY <2>1 DEF Rewrites
<1> QED
  BY <1>1, <1>2, <1>3, <1>4, <1>5, <1>6, <1>7 DEF InstructionStep

LEMMA ExpressionStepRewrites ==
  ASSUME ExpressionStep
  PROVE  Rewrites
<1>1. CASE \/ \E t \in Type : Constant(t)
           \/ \E x \in Names : Identifier(x)
           \/ ReduceOperator \/ ReduceCall
  <2>1. Become(<<>>)
    BY <1>1, Zenon DEF Constant, Identifier, Push, ReduceOperator, Make, ReduceCall
  <2>2. \E k \in {"expression", "unary", "plus", "other", "call"} : At(k)
    BY <1>1, Zenon DEF Constant, Identifier, ReduceOperator, WellTyped, ReduceCall
  <2> QED
    BY <2>1, <2>2, ConsumedRewrites
<1>2. CASE ExpandExpression
  <2>1. ASSUME NEW items, Tagged(items, {"plain"}), Expand("expression", items)
        PROVE  Rewrites
    BY <2>1, PlainRewrites DEF Expand, At
  <2>2. CASE Expand("expression", <<Item("expression"), Item("unary")>>)
    BY <2>1, <2>2, PlainExpansions
  <2>3. ASSUME NEW op \in {"plus", "other"},
               Expand("expression", <<Item("expression"), Item("expression"), Item(op)>>)
        PROVE  Rewrites
    BY <2>1, <2>3, PlainExpansions
  <2>4. ASSUME NEW x \in Names, NEW n \in 0..MaxArgs,
               Expand("expression", [i \in 1..n |-> Item("expression")]
                                      \o <<Named("call", x, n)>>)
        PROVE  Rewrites
    <3> DEFINE items == [i \in 1..n |-> Item("expression")] \o <<Named("call", x, n)>>
    <3>1. n \in Nat
      BY BoundsAssumption
    <3>2. Tagged(items, {"plain"}) /\ Expand("expression", items)
      BY <2>4, <3>1, LongPlainExpansions
    <3> HIDE DEF items
    <3> QED
      BY <2>1, <3>2
  <2> QED
    BY <1>2, <2>2, <2>3, <2>4 DEF ExpandExpression
<1>3. CASE RejectOperator \/ RejectCall \/ \E x \in Names : RejectIdentifier(x)
  <2>1. expected' = expected
    BY <1>3, Zenon DEF RejectOperator, RejectCall, RejectIdentifier, Reject, Refuse
  <2> QED
    BY <2>1 DEF Rewrites
<1> QED
  BY <1>1, <1>2, <1>3 DEF ExpressionStep

LEMMA StepRewrites ==
  ASSUME [Next]_vars
  PROVE  Rewrites
<1>1. CASE DeclarationStep \/ InstructionStep \/ ExpressionStep
  BY <1>1, DeclarationStepRewrites, InstructionStepRewrites, ExpressionStepRewrites
<1>2. CASE EndOfInput \/ SyntaxError \/ Stopped \/ UNCHANGED vars
  <2>1. expected' = expected
    BY <1>2, Zenon DEF EndOfInput, SyntaxError, Reject, Refuse, Stopped, vars
  <2> QED
    BY <2>1 DEF Rewrites
<1> QED
  BY <1>1, <1>2 DEF Next

LEMMA DeclarationListNested ==
  ASSUME PInv, Nested(expected), DeclarationList(TRUE)
  PROVE  Nested(expected')
<1> DEFINE d == Declaration("local")
           a == Item("declaration_list")
           tags == {"plain", "local"}
<1>1. expected # <<>> /\ Top.k = "declaration_list" /\ Become(Append(d, a))
  BY DEF DeclarationList, At, Top
<1>2. /\ Tag(Item("type")) \in tags /\ Tag(Item("declarator")) \in tags
      /\ Tag(Item("declarator_list")) \in tags
      /\ Tag(Named("declaration", "local", 0)) \in tags /\ Tag(a) \in tags
  BY Tags
<1>3. Tagged(d, tags)
  BY <1>2, TaggedShort DEF Declaration
<1> HIDE DEF d, a
<1>4. Tagged(Append(d, a), tags)
  <2> DEFINE s == Append(d, a)
  <2>1. /\ IsTuple(s) /\ Len(d) \in Nat /\ DOMAIN d = 1..Len(d) /\ DOMAIN s = 1..Len(d) + 1
        /\ s[Len(d) + 1] = a /\ \A i \in 1..Len(d) : s[i] = d[i]
    BY <1>3, Appended DEF Tagged
  <2> HIDE DEF s
  <2>2. ASSUME NEW i \in DOMAIN s
        PROVE  Tag(s[i]) \in tags
    <3>1. CASE i = Len(d) + 1
      BY <1>2, <2>1, <3>1
    <3>2. CASE i \in 1..Len(d)
      BY <1>3, <2>1, <3>2 DEF Tagged
    <3> QED
      BY <2>1, <3>1, <3>2
  <2> QED
    BY <2>1, <2>2 DEF Tagged, s
<1> DEFINE s == Append(d, a)
<1>5. Tagged(s, tags) /\ Become(s) /\ Local(Top)
  BY <1>1, <1>4 DEF Local
<1> HIDE DEF s
<1> QED
  BY <1>1, <1>5, NestedKept

LEMMA StepNested ==
  ASSUME PInv, Nested(expected), [Next]_vars
  PROVE  Nested(expected')
<1>1. CASE expected' = expected
  BY <1>1
<1>2. ASSUME NEW items, expected # <<>>, Become(items), Tagged(items, {"plain"})
      PROVE  Nested(expected')
  BY <1>2, NestedKept
<1>3. ASSUME NEW items, expected # <<>>, Top.k = "program", expected' = items \o expected,
             Tagged(items, {"plain", "global"})
      PROVE  Nested(expected')
  BY <1>3, ProgramNested DEF Global
<1>4. CASE BlockStart
  BY <1>4, BlockNested DEF BlockStart, At
<1>5. CASE DeclarationList(TRUE)
  BY <1>5, DeclarationListNested
<1> QED
  BY <1>1, <1>2, <1>3, <1>4, <1>5, StepRewrites DEF Rewrites

LEMMA BeginsNested == Init => Nested(expected)
<1> SUFFICES ASSUME Init
             PROVE  Nested(expected)
  OBVIOUS
<1> DEFINE a == Item("program")
<1>1. a.k = "program" /\ expected = <<a>>
  BY Symbols DEF Init
<1> HIDE DEF a
<1>2. DOMAIN expected = {1} /\ expected[1] = a
  BY <1>1
<1>3. ~Local(a)
  BY <1>1 DEF Local
<1> QED
  BY <1>2, <1>3 DEF Nested

-----------------------------------------------------------------------------
(* Global symbols.  How many tables are open where symbols are declared.       *)

LEMMA WrittenNext ==
  ASSUME PInv, Running, expected # <<>>, Become(<<>>), Ahead("external_declaration")'
  PROVE  Top.k = "declaration" /\ Top.name = "global"
<1> DEFINE t == Top
           e == expected'
           h == Head(e)
<1>1. PICK u, m \in Situation : Effect(t, u, m) /\ Leads(e, m, Start)
  <2>1. PICK u, m \in Situation :
          /\ Effect(Top, u, m)
          /\ \A items, x : (IsTuple(items) /\ Become(items) /\ Leads(items, x, m))
                             => Leads(expected', x, Start)
    BY Facing
  <2>2. Leads(expected', m, Start)
    BY <2>1, LeadsNone, ShortTuples
  <2> QED
    BY <2>1, <2>2
<1>2. e # <<>> /\ IsTuple(e) /\ h.k = "external_declaration"
  <2>1. IsSentence(<<>>)
    BY Sentences
  <2>2. IsSentence(expected')
    BY <2>1, NextSentence DEF PInv
  <2> QED
    BY <2>2 DEF Ahead, Top, IsSentence
<1> HIDE DEF t, e
<1>3. PICK n \in Situation : Effect(h, m, n)
  BY <1>1, <1>2, LeadsFirst
<1> HIDE DEF h
<1>4. m.stage = "written"
  BY <1>2, <1>3 DEF Effect, Passes, Works, Anywhere, InBody, Written, Sit
<1>5. t.k = "declaration" /\ t.name = "global"
  <2>1. CASE Passes(t, u, m)
    BY <1>4, <2>1 DEF Passes, Claimed, Sit, Start, Defined, Written
  <2>2. CASE Works(t, u, m)
    BY <1>4, <2>2 DEF Works, Sit
  <2> QED
    BY <1>1, <2>1, <2>2 DEF Effect
<1> QED
  BY <1>5 DEF t

LEMMA EndsCounted ==
  ASSUME NEW s, IsTuple(s)
  PROVE  Ends(s) \in Nat /\ (Ends(s) = 0 <=> ~EndsBlocks(s))
<1> DEFINE S == {i \in DOMAIN s : s[i].k \in {"block_end"}}
<1>1. Len(s) \in Nat /\ DOMAIN s = 1..Len(s)
  BY LenProperties DEF IsTuple
<1>2. IsFiniteSet(S)
  <2>1. IsFiniteSet(1..Len(s)) /\ S \subseteq 1..Len(s)
    BY <1>1, FS_Interval
  <2> QED
    BY <2>1, FS_Subset
<1>3. Cardinality(S) \in Nat /\ (Cardinality(S) = 0 <=> S = {})
  BY <1>2, FS_CardinalityType, FS_EmptySet
<1>4. S = {} <=> ~EndsBlocks(s)
  BY DEF EndsBlocks
<1> QED
  BY <1>3, <1>4 DEF Ends, PendingIn

(* What declares outside of blocks finds one table, and what declares in a      *)
(* block, or ends it, finds more.                                             *)
LEMMA TablesMet ==
  ASSUME PInv, Running, Nested(expected), expected # <<>>
  PROVE  /\ Top.k = "declaration" =>
              /\ Top.name = "global" => Len(symbol_table) = 1
              /\ Top.name # "global" => Len(symbol_table) > 1
         /\ Top.k = "decl_glb_fct" => Len(symbol_table) = 1
         /\ Top.k = "block_end" => Len(symbol_table) > 1
<1> DEFINE it == Top
           n == Ends(expected)
<1>1. IsTuple(expected) /\ it = expected[1] /\ 1 \in DOMAIN expected
  <2>1. IsTuple(expected) /\ Len(expected) \in Nat /\ DOMAIN expected = 1..Len(expected)
    BY LenProperties DEF PInv, IsSentence, IsTuple
  <2>2. Len(expected) # 0
    BY <2>1, EmptySeq DEF IsTuple
  <2> QED
    BY <2>1, <2>2 DEF Top
<1>2. n \in Nat /\ (n = 0 <=> ~EndsBlocks(expected))
  BY <1>1, EndsCounted
<1>3. Len(symbol_table) = 1 + n + (IF new_function_definition_ THEN 1 ELSE 0)
  BY Counted DEF PInv
<1>4. PICK u, m \in Situation : Matches(u) /\ Effect(it, u, m)
  BY Facing
<1>5. new_function_definition_ = (u.stage = "opened")
  BY <1>4 DEF Matches
<1>6. Global(it) => n = 0
  BY <1>1, <1>2, NestedFirst DEF Top
<1>7. Local(it) \/ it.k = "block_end" => n > 0
  <2>1. ASSUME Local(it)
        PROVE  EndsBlocks(expected)
    BY <1>1, <2>1 DEF Nested, EndsBlocks
  <2>2. ASSUME it.k = "block_end"
        PROVE  EndsBlocks(expected)
    BY <1>1, <2>2 DEF EndsBlocks
  <2> QED
    BY <1>2, <2>1, <2>2
<1> HIDE DEF it, n
<1>8. ASSUME it.k \in {"declaration", "decl_glb_fct"}
      PROVE  u.stage # "opened"
  <2>1. CASE Passes(it, u, m)
    BY <1>8, <2>1 DEF Passes, Claimed, Sit, Start, Defined, Written
  <2>2. CASE Works(it, u, m)
    BY <2>2 DEF Works
  <2> QED
    BY <1>4, <2>1, <2>2 DEF Effect
<1>9. it.k = "declaration" => it.name \in {"local", "global"}
  BY <1>4 DEF Effect, Passes, Works, Anywhere, InBody
<1>10. ASSUME it.k = "declaration", it.name = "global"
       PROVE  Len(symbol_table) = 1
  <2>1. n = 0 /\ new_function_definition_ = FALSE
    BY <1>5, <1>6, <1>8, <1>10 DEF Global
  <2> QED
    BY <1>3, <2>1
<1>11. ASSUME it.k = "declaration", it.name # "global"
       PROVE  Len(symbol_table) > 1
  BY <1>2, <1>3, <1>5, <1>7, <1>8, <1>9, <1>11 DEF Local
<1>12. ASSUME it.k = "decl_glb_fct"
       PROVE  Len(symbol_table) = 1
  <2>1. n = 0 /\ new_function_definition_ = FALSE
    BY <1>5, <1>6, <1>8, <1>12 DEF Global
  <2> QED
    BY <1>3, <2>1
<1>13. ASSUME it.k = "block_end"
       PROVE  Len(symbol_table) > 1
  BY <1>2, <1>3, <1>7, <1>13
<1> QED
  BY <1>10, <1>11, <1>12, <1>13 DEF it

Outermost == Elements(symbol_table[1])
IsGlobal(h, s) == "GLOBAL" \in h[s].attributes

(* The outermost table shares no symbol with another.  Of its variables, those  *)
(* of the external declaration that is about to end are not yet marked.        *)
Addressed ==
  /\ \A s \in DOMAIN heap : IsGlobal(heap, s) => s \in Outermost
  /\ \A s \in Outermost :
       \/ heap[s].function \/ IsGlobal(heap, s)
       \/ Ahead("external_declaration") /\ s \in Elements(declarators)
  /\ \A i \in DOMAIN symbol_table :
       i > 1 => Elements(symbol_table[i]) \intersect Outermost = {}
  /\ Ahead("external_declaration") => Elements(declarators) \subseteq Outermost
  /\ last_function_ \in DOMAIN heap => heap[last_function_].function

LEMMA StaysAddressed ==
  ASSUME Addressed, ~Ahead("external_declaration"), ~Ahead("external_declaration")',
         UNCHANGED <<heap, symbol_table, last_function_>>
  PROVE  Addressed'
<1>1. /\ heap' = heap /\ symbol_table' = symbol_table /\ last_function_' = last_function_
      /\ Outermost' = Outermost
  BY DEF Outermost
<1> QED
  BY <1>1 DEF Addressed, IsGlobal

LEMMA HaltsAddressed ==
  ASSUME Addressed, UNCHANGED <<expected, lists, last_function_, scopes>>
  PROVE  Addressed'
<1>1. /\ heap' = heap /\ symbol_table' = symbol_table /\ last_function_' = last_function_
      /\ Outermost' = Outermost /\ declarators' = declarators
      /\ (Ahead("external_declaration")' <=> Ahead("external_declaration"))
  BY DEF Outermost, Ahead, Top, lists, scopes
<1> QED
  BY <1>1 DEF Addressed, IsGlobal

LEMMA ReducedAddressed ==
  ASSUME PInv, Addressed, NEW k, At(k), k \notin {"external_declaration", "declaration"},
         Become(<<>>), UNCHANGED <<heap, symbol_table, last_function_>>
  PROVE  Addressed'
<1>1. Running /\ expected # <<>> /\ Top.k = k
  BY DEF At, Top
<1>2. ~Ahead("external_declaration") /\ ~Ahead("external_declaration")'
  BY <1>1, WrittenNext DEF Ahead
<1> QED
  BY <1>2, StaysAddressed

LEMMA ExpandedAddressed ==
  ASSUME Addressed, Quiet, NEW k, At(k), k # "external_declaration",
         UNCHANGED <<heap, symbol_table, last_function_>>
  PROVE  Addressed'
<1>1. ~Ahead("external_declaration")
  BY DEF At, Ahead, Top
<1> QED
  BY <1>1, StaysAddressed DEF Quiet

(* Symbols are made before they are global.                                  *)
LEMMA MadeAddressed ==
  ASSUME PInv, Addressed, NEW k, At(k), k \notin {"external_declaration", "declaration"},
         Become(<<>>), symbol_table' = symbol_table,
         DOMAIN heap' = 1..Len(heap) + 1, ~IsGlobal(heap', Len(heap) + 1),
         \A s \in 1..Len(heap) : /\ heap'[s].function = heap[s].function
                                 /\ IsGlobal(heap', s) <=> IsGlobal(heap, s),
         \/ last_function_' = last_function_
         \/ last_function_' = Len(heap) + 1 /\ heap'[last_function_'].function
  PROVE  Addressed'
<1> DEFINE n == Len(heap)
<1>1. Running /\ expected # <<>> /\ Top.k = k
  BY DEF At, Top
<1>2. ~Ahead("external_declaration") /\ ~Ahead("external_declaration")'
  BY <1>1, WrittenNext DEF Ahead
<1>3. n \in Nat /\ DOMAIN heap = 1..n /\ Outermost \subseteq 1..n
  <2>1. 1 \in DOMAIN symbol_table
    BY Chained
  <2> QED
    BY <2>1, Objects DEF Outermost, InTables
<1>4. last_function_ \in 0..n
  BY DataParts DEF PInv, Parts
<1>5. Outermost' = Outermost
  BY DEF Outermost
<1> HIDE DEF n
<1>6. \A s \in DOMAIN heap' : IsGlobal(heap', s) => s \in Outermost
  <2>1. ASSUME NEW s \in DOMAIN heap', IsGlobal(heap', s)
        PROVE  s \in Outermost
    <3>1. s \in 1..n /\ IsGlobal(heap, s)
      BY <1>3, <2>1 DEF n
    <3> QED
      BY <1>3, <3>1 DEF Addressed
  <2> QED
    BY <2>1
<1>7. \A s \in Outermost : heap'[s].function \/ IsGlobal(heap', s)
  BY <1>2, <1>3 DEF Addressed, n
<1>8. last_function_' \in DOMAIN heap' => heap'[last_function_'].function
  <2>1. CASE last_function_' = last_function_
    <3>1. ASSUME last_function_' \in DOMAIN heap'
          PROVE  last_function_ \in 1..n
      BY <1>3, <1>4, <2>1, <3>1 DEF n
    <3> QED
      BY <1>3, <2>1, <3>1 DEF Addressed, n
  <2> QED
    BY <2>1
<1>9. \A i \in DOMAIN symbol_table' :
        i > 1 => Elements(symbol_table'[i]) \intersect Outermost' = {}
  BY <1>5 DEF Addressed
<1> QED
  BY <1>2, <1>5, <1>6, <1>7, <1>8, <1>9 DEF Addressed

LEMMA AttributesGiven ==
  ASSUME NEW h, GoodHeap(h), NEW E,
         NEW A \in SUBSET {"GLOBAL", "EXTERN", "FUNCTION_PARAM"}, NEW g,
         g = Attributed(h, E, A)
  PROVE  \A i \in 1..Len(h) :
           IsGlobal(g, i) <=> IsGlobal(h, i) \/ (i \in E /\ "GLOBAL" \in A)
<1>1. /\ DOMAIN h = 1..Len(h) /\ \A i \in 1..Len(h) : h[i] \in Object(Len(h))
  BY LenProperties, ElementOfSeq DEF GoodHeap
<1>2. ASSUME NEW o \in Object(Len(h))
      PROVE  [o EXCEPT !.attributes = @ \union A].attributes = o.attributes \union A
  BY DEF Object
<1>3. ASSUME NEW i \in 1..Len(h)
      PROVE  IsGlobal(g, i) <=> IsGlobal(h, i) \/ (i \in E /\ "GLOBAL" \in A)
  <2>1. CASE i \in E
    <3>1. g[i] = [h[i] EXCEPT !.attributes = @ \union A]
      BY <1>1, <2>1 DEF Attributed
    <3>2. g[i].attributes = h[i].attributes \union A
      BY <1>1, <1>2, <3>1
    <3> QED
      BY <2>1, <3>2 DEF IsGlobal
  <2>2. CASE i \notin E
    <3>1. g[i] = h[i]
      BY <1>1, <2>2 DEF Attributed
    <3> QED
      BY <2>2, <3>1 DEF IsGlobal
  <2> QED
    BY <2>1, <2>2
<1> QED
  BY <1>3

LEMMA SymbolMade ==
  ASSUME PInv, Addressed, NEW x, NEW t, NEW k, At(k),
         k \notin {"external_declaration", "declaration"}, Become(<<>>),
         heap' = Append(heap, NewSymbol(x, t)), symbol_table' = symbol_table,
         last_function_' = last_function_
  PROVE  Addressed'
<1> DEFINE n == Len(heap)
           s == NewSymbol(x, t)
           r == Append(heap, s)
<1>1. s.attributes = {}
  BY DEF NewSymbol
<1> HIDE DEF s
<1>2. IsTuple(heap)
  BY DataParts, Tuples DEF PInv, Parts, GoodHeap
<1>3. heap' = r
  BY DEF s
<1>4. /\ DOMAIN r = 1..n + 1 /\ r[n + 1] = s /\ \A i \in 1..n : r[i] = heap[i]
  BY <1>2, Appended
<1> HIDE DEF r
<1>5. /\ DOMAIN heap' = 1..n + 1 /\ ~IsGlobal(heap', n + 1)
      /\ \A i \in 1..n : /\ heap'[i].function = heap[i].function
                         /\ IsGlobal(heap', i) <=> IsGlobal(heap, i)
  BY <1>1, <1>3, <1>4 DEF IsGlobal
<1> QED
  BY <1>5, MadeAddressed

LEMMA FunctionDeclaratorAddressed ==
  ASSUME PInv, Addressed, FunctionDeclarator
  PROVE  Addressed'
<1> DEFINE n == Len(heap)
           A == {"FUNCTION_PARAM"}
           E == Elements(parameters)
           g == Attributed(heap, E, A)
           s == NewFunction(Top.name, ReturnType, parameters)
           r == Append(g, s)
<1>1. /\ At("function_declarator") /\ Become(<<>>) /\ heap' = r
      /\ last_function_' = Len(heap') /\ symbol_table' = symbol_table
  BY DEF FunctionDeclarator, Attributed
<1>2. s.attributes = {} /\ s.function = TRUE
  BY DEF NewFunction, NewSymbol
<1> HIDE DEF s
<1>3. /\ IsTuple(g) /\ Len(g) = n
      /\ \A i \in 1..n : /\ g[i].function = heap[i].function
                         /\ IsGlobal(g, i) <=> IsGlobal(heap, i)
  <2>1. A \in SUBSET {"GLOBAL", "EXTERN", "FUNCTION_PARAM"} /\ GoodHeap(heap)
        /\ "GLOBAL" \notin A
    BY DataParts DEF PInv, Parts
  <2> HIDE DEF A, E
  <2>2. /\ GoodHeap(g) /\ Len(g) = n
        /\ \A i \in 1..n : g[i].function = heap[i].function
    BY <2>1, AttributesAdded
  <2>3. \A i \in 1..n : IsGlobal(g, i) <=> IsGlobal(heap, i)
    BY <2>1, AttributesGiven
  <2>4. IsTuple(g)
    BY <2>2, Tuples DEF GoodHeap
  <2> HIDE DEF g
  <2> QED
    BY <2>2, <2>3, <2>4
<1> HIDE DEF g
<1>4. /\ DOMAIN r = 1..n + 1 /\ Len(r) = n + 1 /\ r[n + 1] = s
      /\ \A i \in 1..n : r[i] = g[i]
  BY <1>3, Appended
<1> HIDE DEF r
<1>5. /\ DOMAIN heap' = 1..n + 1 /\ ~IsGlobal(heap', n + 1)
      /\ last_function_' = n + 1 /\ heap'[last_function_'].function
  BY <1>1, <1>2, <1>4 DEF IsGlobal
<1>6. ASSUME NEW i \in 1..n
      PROVE  /\ heap'[i].function = heap[i].function
             /\ IsGlobal(heap', i) <=> IsGlobal(heap, i)
  <2>1. heap'[i] = g[i]
    BY <1>1, <1>4
  <2> QED
    BY <1>3, <2>1 DEF IsGlobal
<1> QED
  BY <1>1, <1>5, <1>6, MadeAddressed

LEMMA ExternalDeclarationAddressed ==
  ASSUME PInv, Addressed, ReduceExternalDeclaration
  PROVE  Addressed'
<1> DEFINE n == Len(heap)
           E == Elements(declarators)
           A == AttributesOf(Top.n)
<1>1. /\ Become(<<>>) /\ Running /\ expected # <<>> /\ Top.k = "external_declaration"
      /\ heap' = Attributed(heap, E, A) /\ symbol_table' = symbol_table
      /\ last_function_' = last_function_
  BY DEF ReduceExternalDeclaration, At, Top, Attributed, globals
<1>2. Ahead("external_declaration") /\ ~Ahead("external_declaration")'
  BY <1>1, WrittenNext DEF Ahead
<1>3. n \in Nat /\ DOMAIN heap = 1..n /\ Outermost \subseteq 1..n
  <2>1. 1 \in DOMAIN symbol_table
    BY Chained
  <2> QED
    BY <2>1, Objects DEF Outermost, InTables
<1>4. /\ DOMAIN heap' = 1..n
      /\ \A i \in 1..n : /\ heap'[i].function = heap[i].function
                         /\ IsGlobal(heap', i) <=> IsGlobal(heap, i) \/ i \in E
  <2> DEFINE h == heap'
  <2>1. /\ A \in SUBSET {"GLOBAL", "EXTERN", "FUNCTION_PARAM"} /\ GoodHeap(heap)
        /\ h = Attributed(heap, E, A) /\ "GLOBAL" \in A
    BY <1>1, DataParts DEF PInv, Parts, AttributesOf
  <2> HIDE DEF A, E, h
  <2>2. DOMAIN h = 1..n /\ \A i \in 1..n : h[i].function = heap[i].function
    BY <2>1, AttributesAdded
  <2>3. \A i \in 1..n : IsGlobal(h, i) <=> IsGlobal(heap, i) \/ i \in E
    BY <2>1, AttributesGiven
  <2> QED
    BY <2>2, <2>3 DEF h
<1>5. Outermost' = Outermost
  BY <1>1 DEF Outermost
<1>6. E \subseteq Outermost
  BY <1>2 DEF Addressed
<1>7. \A s \in DOMAIN heap' : IsGlobal(heap', s) => s \in Outermost
  BY <1>3, <1>4, <1>6 DEF Addressed
<1>8. \A s \in Outermost : heap'[s].function \/ IsGlobal(heap', s)
  BY <1>3, <1>4 DEF Addressed
<1>9. last_function_' \in DOMAIN heap' => heap'[last_function_'].function
  BY <1>1, <1>3, <1>4 DEF Addressed
<1>10. \A i \in DOMAIN symbol_table' :
         i > 1 => Elements(symbol_table'[i]) \intersect Outermost' = {}
  BY <1>1, <1>5 DEF Addressed
<1> QED
  BY <1>2, <1>5, <1>7, <1>8, <1>9, <1>10 DEF Addressed

(* A declaration without duplicates puts all of its symbols into the table.    *)
LEMMA AllAdded ==
  ASSUME PInv, ~Duplicate(declarators)
  PROVE  Elements(Added(Last(symbol_table), declarators))
           = Elements(Last(symbol_table)) \union Elements(declarators)
<1> DEFINE l == Last(symbol_table)
           a == Added(l, declarators)
<1>1. IsTuple(declarators) /\ Len(declarators) \in Nat /\ DOMAIN declarators = 1..Len(declarators)
  BY DataParts, Tuples, LenProperties DEF PInv, Parts
<1>2. IsAdded(a, l, declarators) /\ Elements(a) \subseteq Elements(l) \union Elements(declarators)
  BY <1>1, AddedFound, AddedElements
<1>3. ASSUME NEW i \in DOMAIN declarators
      PROVE  /\ heap[declarators[i]].name \notin DOMAIN l
             /\ \A j \in 1..i - 1 : heap[declarators[j]].name # heap[declarators[i]].name
  BY DEF Duplicate, is_in_this_scope
<1> HIDE DEF a, l
<1>4. ASSUME NEW x \in DOMAIN l
      PROVE  l[x] \in Elements(a)
  <2>1. x \in DOMAIN a /\ a[x] = l[x]
    BY <1>2 DEF IsAdded
  <2> QED
    BY <2>1 DEF Elements
<1>5. ASSUME NEW i \in DOMAIN declarators
      PROVE  declarators[i] \in Elements(a)
  <2> DEFINE x == heap[declarators[i]].name
  <2>1. x \in DOMAIN a \ DOMAIN l
    <3>1. declarators[i] \in Elements(declarators)
      BY DEF Elements
    <3> QED
      BY <1>2, <1>3, <3>1 DEF IsAdded
  <2>2. PICK k \in DOMAIN declarators :
          /\ a[x] = declarators[k] /\ heap[declarators[k]].name = x
          /\ \A j \in 1..k - 1 : heap[declarators[j]].name # x
    BY <1>2, <2>1 DEF IsAdded
  <2>3. i = k
    <3>1. ASSUME i < k
          PROVE  FALSE
      <4>1. i \in 1..k - 1
        BY <1>1, <3>1
      <4> QED
        BY <2>2, <4>1
    <3>2. ASSUME k < i
          PROVE  FALSE
      <4>1. k \in 1..i - 1
        BY <1>1, <3>2
      <4> QED
        BY <1>3, <2>2, <4>1
    <3> QED
      BY <1>1, <3>1, <3>2
  <2>4. x \in DOMAIN a /\ a[x] = declarators[i]
    BY <2>1, <2>2, <2>3
  <2> HIDE DEF x
  <2> QED
    BY <2>4 DEF Elements
<1>6. Elements(l) \subseteq Elements(a) /\ Elements(declarators) \subseteq Elements(a)
  BY <1>4, <1>5 DEF Elements
<1> QED
  BY <1>2, <1>6 DEF a, l

LEMMA DeclarationAddressed ==
  ASSUME PInv, Fresh, Nested(expected), Addressed, ReduceDeclaration
  PROVE  Addressed'
<1> DEFINE n == Len(heap)
           s == symbol_table
           l == Len(s)
           E == Elements(declarators)
           t == Added(Last(s), declarators)
           r == symbol_table'
<1>1. /\ Become(<<>>) /\ Running /\ expected # <<>> /\ Top.k = "declaration"
      /\ ~Duplicate(declarators) /\ r = WithLast(s, t)
      /\ heap' = Retyped(heap, E, Last(values))
      /\ declarators' = (IF Top.name = "global" THEN declarators ELSE <<>>)
      /\ last_function_' = last_function_
      /\ values' = Front(values) /\ unclaimed_types_' = Front(unclaimed_types_)
  BY DEF ReduceDeclaration, At, Top, Retyped, Last, WithLast
<1>2. ~Ahead("external_declaration")
  BY <1>1 DEF Ahead
<1>3. /\ n \in Nat /\ DOMAIN heap = 1..n /\ InTables \subseteq 1..n /\ E \subseteq 1..n
      /\ IsTuple(s) /\ s # <<>> /\ l \in Nat /\ l >= 1 /\ DOMAIN s = 1..l
      /\ Outermost \subseteq InTables /\ Elements(Last(s)) \subseteq InTables
      /\ E \intersect InTables = {}
  <2>1. 1 \in DOMAIN s
    BY Chained
  <2>2. Outermost \subseteq InTables
    BY <2>1 DEF Outermost, InTables
  <2> QED
    BY <1>2, <2>2, Chained, Objects DEF Fresh
<1>4. /\ DOMAIN heap' = 1..n
      /\ \A i \in 1..n : /\ heap'[i].function = heap[i].function
                         /\ IsGlobal(heap', i) <=> IsGlobal(heap, i)
  <2> DEFINE v == Last(values)
             h == heap'
  <2>1. v \in Type /\ GoodHeap(heap) /\ h = Retyped(heap, E, v)
    BY <1>1, DeclarationMet, DataParts DEF PInv, Parts
  <2> HIDE DEF v, E, h
  <2>2. DOMAIN h = 1..n /\ \A i \in 1..n : /\ h[i].function = heap[i].function
                                           /\ h[i].attributes = heap[i].attributes
    BY <2>1, TypesTaken
  <2> QED
    BY <2>2 DEF h, IsGlobal
<1>5. Elements(t) = Elements(Last(s)) \union E
  BY <1>1, AllAdded
<1> HIDE DEF t, E
<1>6. /\ Len(r) = l /\ DOMAIN r = 1..l
      /\ \A i \in 1..l : r[i] = IF i = l THEN t ELSE s[i]
  <2>1. r = WithLast(s, t) /\ IsTuple(s) /\ s # <<>>
    BY <1>1, <1>3
  <2> HIDE DEF s, r
  <2> QED
    BY <2>1, LastReplaced
<1>7. last_function_' \in DOMAIN heap' => heap'[last_function_'].function
  BY <1>1, <1>3, <1>4 DEF Addressed
<1>8. CASE Top.name = "global"
  <2>1. l = 1 /\ Ahead("external_declaration")' /\ declarators' = declarators
    BY <1>1, <1>8, TablesMet, DeclarationEnds
  <2>2. Outermost' = Outermost \union E
    <3>1. Outermost' = Elements(r[1]) /\ Outermost = Elements(s[1])
      BY DEF Outermost
    <3>2. r[1] = t /\ s[1] = Last(s)
      BY <1>6, <2>1 DEF Last
    <3> HIDE DEF r, s
    <3> QED
      BY <1>5, <3>1, <3>2
  <2>3. Elements(declarators') = E
    BY <2>1 DEF E
  <2>4. \A i \in DOMAIN heap' : IsGlobal(heap', i) => i \in Outermost'
    BY <1>3, <1>4, <2>2 DEF Addressed
  <2>5. \A i \in Outermost' : heap'[i].function \/ IsGlobal(heap', i) \/ i \in E
    BY <1>2, <1>3, <1>4, <2>2 DEF Addressed
  <2>6. \A i \in DOMAIN r : ~(i > 1)
    BY <1>6, <2>1
  <2> QED
    BY <1>7, <2>1, <2>2, <2>3, <2>4, <2>5, <2>6 DEF Addressed
<1>9. CASE Top.name # "global"
  <2>1. l > 1 /\ ~Ahead("external_declaration")'
    BY <1>1, <1>9, TablesMet, WrittenNext
  <2>2. Outermost' = Outermost
    <3>1. Outermost' = Elements(r[1]) /\ Outermost = Elements(s[1])
      BY DEF Outermost
    <3>2. l \in Nat /\ l > 1 /\ \A i \in 1..l : r[i] = IF i = l THEN t ELSE s[i]
      BY <1>3, <1>6, <2>1
    <3> HIDE DEF r, s, l
    <3>3. 1 \in 1..l /\ 1 # l
      BY <3>2
    <3> QED
      BY <3>1, <3>2, <3>3
  <2>3. \A i \in DOMAIN heap' : IsGlobal(heap', i) => i \in Outermost
    BY <1>3, <1>4 DEF Addressed
  <2>4. \A i \in Outermost : heap'[i].function \/ IsGlobal(heap', i)
    BY <1>2, <1>3, <1>4 DEF Addressed
  <2>5. ASSUME NEW i \in DOMAIN r, i > 1
        PROVE  Elements(r[i]) \intersect Outermost = {}
    <3>1. l \in DOMAIN s /\ s[l] = Last(s) /\ i \in DOMAIN s
      <4>1. s[l] = Last(s)
        BY DEF Last
      <4>2. l \in Nat /\ l >= 1 /\ DOMAIN s = 1..l /\ DOMAIN r = 1..l
        BY <1>3, <1>6
      <4> HIDE DEF s, r, l
      <4> QED
        BY <2>5, <4>1, <4>2
    <3>2. CASE i = l
      <4>1. Elements(Last(s)) \intersect Outermost = {}
        BY <2>1, <3>1 DEF Addressed
      <4> QED
        BY <1>3, <1>5, <1>6, <3>2, <4>1
    <3>3. CASE i # l
      BY <1>6, <2>5, <3>1, <3>3 DEF Addressed
    <3> QED
      BY <3>2, <3>3
  <2> QED
    BY <1>7, <2>1, <2>2, <2>3, <2>4, <2>5 DEF Addressed
<1> QED
  BY <1>8, <1>9

(* The tables change and no object does.                                      *)
LEMMA TablesAddressed ==
  ASSUME PInv, Addressed, ~Ahead("external_declaration"), ~Ahead("external_declaration")',
         UNCHANGED <<heap, last_function_>>, Outermost \subseteq Outermost',
         \A s \in Outermost' : s \in Outermost \/ heap[s].function,
         \A i \in DOMAIN symbol_table' :
           i > 1 => Elements(symbol_table'[i]) \intersect Outermost' = {}
  PROVE  Addressed'
<1>1. \A s \in DOMAIN heap : IsGlobal(heap, s) => s \in Outermost'
  BY DEF Addressed
<1>2. \A s \in Outermost' : heap[s].function \/ IsGlobal(heap, s)
  BY DEF Addressed
<1>3. last_function_ \in DOMAIN heap => heap[last_function_].function
  BY DEF Addressed
<1> QED
  BY <1>1, <1>2, <1>3 DEF Addressed, IsGlobal

LEMMA FunctionAddressed ==
  ASSUME PInv, Fresh, Nested(expected), Addressed, ReduceDeclGlbFct
  PROVE  Addressed'
<1> DEFINE f == last_function_
           args == heap[f].args
           P == Elements(args)
           l == <<f>>
           s == symbol_table
           o == Outer(f)
           t == Added(EmptyTable, args)
           r == symbol_table'
<1>1. /\ At("decl_glb_fct") /\ Become(<<>>) /\ Running /\ expected # <<>>
      /\ Top.k = "decl_glb_fct" /\ r = Append(o, t)
      /\ heap' = heap /\ last_function_' = last_function_
  BY DEF ReduceDeclGlbFct, At, Top, Outer, WithLast, Last, lists
<1>2. /\ ~Ahead("external_declaration") /\ ~Ahead("external_declaration")'
      /\ Ahead("decl_glb_fct")
  BY <1>1, WrittenNext DEF Ahead
<1>3. /\ f \in DOMAIN heap /\ heap[f].function
      /\ IsTuple(s) /\ s # <<>> /\ Len(s) = 1 /\ DOMAIN s = 1..1
      /\ Outermost \subseteq InTables /\ Last(s) = s[1]
  <2>1. f \in DOMAIN heap
    BY <1>1, FunctionMet
  <2>2. Len(s) = 1
    BY <1>1, TablesMet
  <2>3. Outermost \subseteq InTables
    BY Chained DEF Outermost, InTables
  <2> QED
    BY <2>1, <2>2, <2>3, Chained DEF Addressed, Last
<1>4. Elements(l) = {f} /\ Elements(EmptyTable) = {} /\ IsTuple(l) /\ IsTuple(args)
  <2>1. Elements(l) = {f}
    BY DEF Elements
  <2>2. Elements(EmptyTable) = {}
    BY DEF Elements, EmptyTable
  <2>3. IsTuple(args)
    BY <1>3, Objects, Tuples
  <2> QED
    BY <2>1, <2>2, <2>3, ShortTuples
<1> HIDE DEF l
<1>5. /\ Elements(t) \subseteq P /\ P \intersect InTables = {} /\ f \notin P
  <2>1. Elements(t) \subseteq P
    BY <1>4, AddedElements
  <2>2. P \intersect InTables = {} /\ \A a \in P : a < f
    BY <1>2, <1>3 DEF Fresh
  <2>3. f \in Nat
    BY <1>3, Objects
  <2> QED
    BY <2>1, <2>2, <2>3
<1> HIDE DEF t, P, args
<1>6. /\ IsTuple(o) /\ Len(o) = 1 /\ Outermost \subseteq Elements(o[1])
      /\ Elements(o[1]) \subseteq Outermost \union {f}
  <2>1. CASE is_visible(heap[f].name)
    BY <1>3, <2>1 DEF Outer, Outermost
  <2>2. CASE ~is_visible(heap[f].name)
    <3> DEFINE a == Added(Last(s), l)
    <3>1. o = WithLast(s, a)
      BY <2>2 DEF Outer, l
    <3>2. IsAdded(a, Last(s), l) /\ Elements(a) \subseteq Elements(Last(s)) \union {f}
      BY <1>4, AddedFound, AddedElements
    <3> HIDE DEF a, o
    <3>3. IsTuple(o) /\ Len(o) = 1 /\ o[1] = a
      <4>1. IsTuple(o) /\ Len(o) = Len(s) /\ \A i \in 1..Len(s) : o[i] = IF i = Len(s) THEN a ELSE s[i]
        BY <1>3, <3>1, LastReplaced
      <4> QED
        BY <1>3, <4>1
    <3>4. Outermost = Elements(Last(s))
      BY <1>3 DEF Outermost
    <3>5. ASSUME NEW x \in DOMAIN Last(s)
          PROVE  Last(s)[x] \in Elements(a)
      <4>1. x \in DOMAIN a /\ a[x] = Last(s)[x]
        BY <3>2 DEF IsAdded
      <4> QED
        BY <4>1 DEF Elements
    <3>6. Elements(Last(s)) \subseteq Elements(a)
      BY <3>5 DEF Elements
    <3> QED
      BY <3>2, <3>3, <3>4, <3>6
  <2> QED
    BY <2>1, <2>2
<1> HIDE DEF o
<1>7. DOMAIN r = 1..2 /\ r[1] = o[1] /\ r[2] = t
  <2>1. /\ DOMAIN r = 1..Len(o) + 1 /\ r[Len(o) + 1] = t
        /\ \A i \in 1..Len(o) : r[i] = o[i]
    <3>1. r = Append(o, t) /\ IsTuple(o)
      BY <1>1, <1>6
    <3> HIDE DEF r
    <3> QED
      BY <3>1, Appended
  <2> QED
    BY <1>6, <2>1
<1>8. Outermost' = Elements(o[1])
  BY <1>7 DEF Outermost
<1>9. \A i \in Outermost' : i \in Outermost \/ heap[i].function
  BY <1>3, <1>6, <1>8
<1>10. \A i \in DOMAIN r : i > 1 => Elements(r[i]) \intersect Outermost' = {}
  <2>1. ASSUME NEW i \in DOMAIN r, i > 1
        PROVE  r[i] = t
    BY <1>7, <2>1
  <2>2. Elements(t) \intersect Outermost' = {}
    BY <1>3, <1>5, <1>6, <1>8
  <2> HIDE DEF r
  <2> QED
    BY <2>1, <2>2
<1> QED
  BY <1>1, <1>2, <1>6, <1>8, <1>9, <1>10, TablesAddressed

LEMMA BlockStartAddressed ==
  ASSUME PInv, Addressed, BlockStart
  PROVE  Addressed'
<1> DEFINE s == symbol_table
           r == symbol_table'
           e == EmptyTable
<1>1. /\ Running /\ expected # <<>> /\ Top.k = "compound"
      /\ heap' = heap /\ last_function_' = last_function_
      /\ r = s \/ r = Append(s, e)
  BY DEF BlockStart, At, Top
<1>2. ~Ahead("external_declaration")
  BY <1>1 DEF Ahead
<1>3. ~Ahead("external_declaration")'
  BY ListNext DEF BlockStart, At, Ahead
<1>4. IsTuple(s) /\ Len(s) \in Nat /\ Len(s) >= 1 /\ DOMAIN s = 1..Len(s)
  BY Chained
<1>5. Elements(e) = {}
  BY DEF Elements, EmptyTable
<1> HIDE DEF e
<1>6. r[1] = s[1] /\ \A i \in DOMAIN r : (i \in DOMAIN s /\ r[i] = s[i]) \/ Elements(r[i]) = {}
  <2>1. CASE r = s
    BY <2>1
  <2>2. CASE r = Append(s, e)
    <3> HIDE DEF s, r
    <3>1. /\ DOMAIN r = 1..Len(s) + 1 /\ r[Len(s) + 1] = e
          /\ \A i \in 1..Len(s) : r[i] = s[i]
      BY <1>4, <2>2, Appended
    <3> QED
      BY <1>4, <1>5, <3>1
  <2> QED
    BY <1>1, <2>1, <2>2
<1>7. Outermost' = Outermost
  BY <1>6 DEF Outermost
<1>8. \A i \in DOMAIN r : i > 1 => Elements(r[i]) \intersect Outermost = {}
  BY <1>6 DEF Addressed
<1> QED
  BY <1>1, <1>2, <1>3, <1>7, <1>8, TablesAddressed

LEMMA BlockEndAddressed ==
  ASSUME PInv, Nested(expected), Addressed, BlockEnd
  PROVE  Addressed'
<1> DEFINE s == symbol_table
           r == Pop(s, 1)
           l == Len(s)
<1>1. /\ Running /\ expected # <<>> /\ Top.k = "block_end" /\ Become(<<>>)
      /\ symbol_table' = r /\ heap' = heap /\ last_function_' = last_function_
  BY DEF BlockEnd, At, Top, Front, Pop, globals
<1>2. ~Ahead("external_declaration") /\ ~Ahead("external_declaration")'
  BY <1>1, WrittenNext DEF Ahead
<1>3. IsTuple(s) /\ l \in Nat /\ l > 1 /\ DOMAIN s = 1..l
  BY <1>1, Chained, TablesMet
<1>4. DOMAIN r = 1..l - 1 /\ \A i \in 1..l - 1 : r[i] = s[i]
  <2> DEFINE S == {s[i] : i \in DOMAIN s}
  <2>1. s \in Seq(S) /\ 1 \in 0..l
    BY <1>3 DEF IsTuple
  <2> HIDE DEF S
  <2>2. r \in Seq(S) /\ Len(r) = l - 1 /\ \A i \in 1..l - 1 : r[i] = s[i]
    BY <1>3, <2>1, PopProperties
  <2> HIDE DEF r
  <2> QED
    BY <2>2, LenProperties
<1> HIDE DEF r
<1>5. 1 \in 1..l - 1 /\ \A i \in DOMAIN r : i \in DOMAIN s /\ r[i] = s[i]
  BY <1>3, <1>4
<1>6. Outermost' = Outermost
  BY <1>1, <1>4, <1>5 DEF Outermost
<1>7. \A i \in DOMAIN r : i > 1 => Elements(r[i]) \intersect Outermost = {}
  BY <1>5 DEF Addressed
<1> QED
  BY <1>1, <1>2, <1>6, <1>7, TablesAddressed

LEMMA DeclarationStepAddressed ==
  ASSUME PInv, Fresh, Nested(expected), Addressed, DeclarationStep
  PROVE  Addressed'
<1>1. CASE \E extern \in 0..1 : ExpandDeclaration(extern)
  <2>1. /\ Quiet /\ At("program")
        /\ UNCHANGED <<heap, symbol_table, last_function_>>
    BY <1>1, DeclarationExpansions, Zenon DEF ExpandDeclaration, globals, scopes
  <2> QED
    BY <2>1, ExpandedAddressed
<1>2. CASE \E x \in Names : ExpandFunctionDefinition(x)
  <2>1. /\ Quiet /\ At("program")
        /\ UNCHANGED <<heap, symbol_table, last_function_>>
    BY <1>2, DeclarationExpansions, Zenon DEF ExpandFunctionDefinition, globals, scopes
  <2> QED
    BY <2>1, ExpandedAddressed
<1>3. CASE \E t \in Type : TypeSpecifier(t)
  <2>1. /\ At("type") /\ Become(<<>>)
        /\ UNCHANGED <<heap, symbol_table, last_function_>>
    BY <1>3, Zenon DEF TypeSpecifier, globals, scopes
  <2> QED
    BY <2>1, ReducedAddressed
<1>4. CASE \E x \in Names : Declarator(x) \/ ExpandFunctionDeclarator(x)
  <2>1. PICK x \in Names : Declarator(x) \/ ExpandFunctionDeclarator(x)
    BY <1>4
  <2>2. CASE Declarator(x)
    <3>1. /\ At("declarator") /\ Become(<<>>)
          /\ heap' = Append(heap, NewSymbol(x, "none"))
          /\ UNCHANGED <<symbol_table, last_function_>>
      BY <2>2, Zenon DEF Declarator, globals
    <3> QED
      BY <3>1, SymbolMade
  <2>3. CASE ExpandFunctionDeclarator(x)
    <3>1. /\ Quiet /\ At("declarator")
          /\ UNCHANGED <<heap, symbol_table, last_function_>>
      BY <2>3, DeclarationExpansions, Zenon DEF ExpandFunctionDeclarator, globals, scopes
    <3> QED
      BY <3>1, ExpandedAddressed
  <2> QED
    BY <2>1, <2>2, <2>3
<1>5. CASE \E more \in BOOLEAN : DeclaratorList(more) \/ ParameterList(more)
  <2>1. Quiet /\ (At("declarator_list") \/ At("parameter_list"))
    BY <1>5, DeclarationExpansions, Zenon DEF DeclaratorList, ParameterList
  <2>2. UNCHANGED <<heap, symbol_table, last_function_>>
    BY <1>5, Zenon DEF DeclaratorList, ParameterList, globals, scopes
  <2> QED
    BY <2>1, <2>2, ExpandedAddressed
<1>6. CASE \E x \in Names : ParameterDeclaration(x)
  <2>1. PICK x \in Names : ParameterDeclaration(x)
    BY <1>6
  <2>2. /\ At("parameter_declaration") /\ Become(<<>>)
        /\ heap' = Append(heap, NewSymbol(x, Last(values)))
        /\ UNCHANGED <<symbol_table, last_function_>>
    BY <2>1, Zenon DEF ParameterDeclaration
  <2> QED
    BY <2>2, SymbolMade
<1>7. CASE FunctionDeclarator
  BY <1>7, FunctionDeclaratorAddressed
<1>8. CASE ReduceDeclaration
  BY <1>8, DeclarationAddressed
<1>9. CASE RejectDeclaration \/ RejectDeclGlbFct
  <2>1. UNCHANGED <<expected, lists, last_function_, scopes>>
    BY <1>9, Zenon DEF RejectDeclaration, RejectDeclGlbFct, Reject, Refuse, globals
  <2> QED
    BY <2>1, HaltsAddressed
<1>10. CASE ReduceExternalDeclaration
  BY <1>10, ExternalDeclarationAddressed
<1>11. CASE ReduceDeclGlbFct
  BY <1>11, FunctionAddressed
<1>12. CASE ReduceFunctionDefinition
  <2>1. CASE Become(<<>>)
    <3>1. At("function_definition") /\ UNCHANGED <<heap, symbol_table, last_function_>>
      BY <1>12, Zenon DEF ReduceFunctionDefinition, globals, scopes
    <3> QED
      BY <2>1, <3>1, ReducedAddressed
  <2>2. CASE ~Become(<<>>)
    <3>1. UNCHANGED <<expected, lists, last_function_, scopes>>
      BY <1>12, <2>2 DEF ReduceFunctionDefinition, lists
    <3> QED
      BY <3>1, HaltsAddressed
  <2> QED
    BY <2>1, <2>2
<1> QED
  BY <1>1, <1>2, <1>3, <1>4, <1>5, <1>6, <1>7, <1>8, <1>9, <1>10, <1>11, <1>12
     DEF DeclarationStep

LEMMA InstructionStepAddressed ==
  ASSUME PInv, Fresh, Nested(expected), Addressed, InstructionStep
  PROVE  Addressed'
<1>1. CASE BlockStart \/ BlockEnd
  BY <1>1, BlockStartAddressed, BlockEndAddressed
<1>2. CASE \/ AppendInstruction \/ EmptyInstruction \/ ReduceInstruction \/ ReduceCondition
           \/ ReduceAssignment
  <2>1. UNCHANGED <<heap, symbol_table, last_function_>> /\ Become(<<>>)
    BY <1>2, Zenon DEF AppendInstruction, EmptyInstruction, ReduceInstruction,
       ReduceCondition, ReduceAssignment, Make, globals, scopes
  <2>2. \E k \in {"append", "instruction", "expression_instruction", "if", "if_else",
                  "while", "do", "for", "comparison", "assignment"} : At(k)
    BY <1>2, Zenon DEF AppendInstruction, EmptyInstruction, ReduceInstruction,
       ReduceCondition, ReduceAssignment, Make
  <2> QED
    BY <2>1, <2>2, ReducedAddressed
<1>3. CASE \E more \in BOOLEAN : DeclarationList(more) \/ InstructionList(more)
  <2>1. Quiet /\ (At("declaration_list") \/ At("instruction_list"))
    BY <1>3, BodyExpansions, Zenon DEF DeclarationList, InstructionList
  <2>2. UNCHANGED <<heap, symbol_table, last_function_>>
    BY <1>3, Zenon DEF DeclarationList, InstructionList, globals, scopes
  <2> QED
    BY <2>1, <2>2, ExpandedAddressed
<1>4. CASE ExpandInstruction
  <2>1. Quiet
    BY <1>4, InstructionExpansions
  <2>2. At("instruction") /\ UNCHANGED <<heap, symbol_table, last_function_>>
    BY <1>4, Zenon DEF ExpandInstruction, Expand, globals, scopes
  <2> QED
    BY <2>1, <2>2, ExpandedAddressed
<1>5. CASE \E ordering \in 0..1 : ExpandCondition(ordering)
  <2>1. /\ Quiet /\ At("condition")
        /\ UNCHANGED <<heap, symbol_table, last_function_>>
    BY <1>5, BodyExpansions, Zenon DEF ExpandCondition, Expand, globals, scopes
  <2> QED
    BY <2>1, ExpandedAddressed
<1>6. CASE RejectAssignment
  <2>1. UNCHANGED <<expected, lists, last_function_, scopes>>
    BY <1>6, Zenon DEF RejectAssignment, Reject, Refuse, globals
  <2> QED
    BY <2>1, HaltsAddressed
<1> QED
  BY <1>1, <1>2, <1>3, <1>4, <1>5, <1>6 DEF InstructionStep

LEMMA ExpressionStepAddressed ==
  ASSUME PInv, Fresh, Nested(expected), Addressed, ExpressionStep
  PROVE  Addressed'
<1>1. CASE \E t \in Type : Constant(t)
  <2>1. At("expression") /\ Become(<<>>) /\ UNCHANGED <<heap, symbol_table, last_function_>>
    BY <1>1, Zenon DEF Constant, Push, globals, scopes
  <2> QED
    BY <2>1, ReducedAddressed
<1>2. CASE \E x \in Names : Identifier(x) \/ RejectIdentifier(x)
  <2>1. PICK x \in Names : Identifier(x) \/ RejectIdentifier(x)
    BY <1>2
  <2>2. CASE Identifier(x)
    <3>1. At("expression") /\ Become(<<>>)
          /\ UNCHANGED <<heap, symbol_table, last_function_>>
      BY <2>2, Zenon DEF Identifier, Push, globals, scopes
    <3> QED
      BY <3>1, ReducedAddressed
  <2>3. CASE RejectIdentifier(x)
    <3>1. UNCHANGED <<expected, lists, last_function_, scopes>>
      BY <2>3, Zenon DEF RejectIdentifier, Reject, Refuse, globals
    <3> QED
      BY <3>1, HaltsAddressed
  <2> QED
    BY <2>1, <2>2, <2>3
<1>3. CASE ExpandExpression
  <2>1. Quiet
    BY <1>3, ExpressionExpansions
  <2>2. At("expression") /\ UNCHANGED <<heap, symbol_table, last_function_>>
    BY <1>3, Zenon DEF ExpandExpression, Expand, globals, scopes
  <2> QED
    BY <2>1, <2>2, ExpandedAddressed
<1>4. CASE ReduceOperator
  <2>1. At("unary") \/ At("plus") \/ At("other")
    BY <1>4, Zenon DEF ReduceOperator, WellTyped
  <2>2. Become(<<>>) /\ UNCHANGED <<heap, symbol_table, last_function_>>
    BY <1>4, Zenon DEF ReduceOperator, Make, globals, scopes
  <2> QED
    BY <2>1, <2>2, ReducedAddressed
<1>5. CASE ReduceCall
  <2>1. At("call") /\ Become(<<>>) /\ UNCHANGED <<heap, symbol_table, last_function_>>
    BY <1>5, Zenon DEF ReduceCall, globals, scopes
  <2> QED
    BY <2>1, ReducedAddressed
<1>6. CASE RejectOperator \/ RejectCall
  <2>1. UNCHANGED <<expected, lists, last_function_, scopes>>
    BY <1>6, Zenon DEF RejectOperator, RejectCall, Reject, Refuse, globals
  <2> QED
    BY <2>1, HaltsAddressed
<1> QED
  BY <1>1, <1>2, <1>3, <1>4, <1>5, <1>6 DEF ExpressionStep

LEMMA StepAddressed ==
  ASSUME PInv, Fresh, Nested(expected), Addressed, [Next]_vars
  PROVE  Addressed'
<1>1. CASE DeclarationStep \/ InstructionStep \/ ExpressionStep
  BY <1>1, DeclarationStepAddressed, InstructionStepAddressed, ExpressionStepAddressed
<1>2. CASE EndOfInput \/ SyntaxError \/ Stopped \/ UNCHANGED vars
  <2>1. UNCHANGED <<expected, lists, last_function_, scopes>>
    BY <1>2, Zenon DEF EndOfInput, SyntaxError, Reject, Refuse, Stopped, vars, globals
  <2> QED
    BY <2>1, HaltsAddressed
<1> QED
  BY <1>1, <1>2 DEF Next

LEMMA BeginsAddressed == Init => Addressed
<1> SUFFICES ASSUME Init
             PROVE  Addressed
  OBVIOUS
<1>1. /\ heap = <<>> /\ symbol_table = <<EmptyTable>> /\ last_function_ = 0
      /\ expected = <<Item("program")>> /\ DOMAIN heap = {}
  BY EmptySeq DEF Init
<1>2. DOMAIN symbol_table = {1} /\ Outermost = {}
  BY <1>1 DEF Outermost, Elements, EmptyTable
<1>3. ~Ahead("external_declaration")
  <2> DEFINE a == Item("program")
  <2>1. a.k = "program" /\ expected = <<a>>
    BY <1>1, Symbols
  <2> HIDE DEF a
  <2> QED
    BY <2>1 DEF Ahead, Top
<1> QED
  BY <1>1, <1>2, <1>3 DEF Addressed

LEMMA AddressesKept == Spec => [](PInv /\ Fresh /\ Nested(expected) /\ Addressed)
<1>1. /\ PInv /\ Fresh /\ Nested(expected) /\ Addressed /\ [Next]_vars
      => Nested(expected)' /\ Addressed'
  BY StepNested, StepAddressed
<1>2. Init => Nested(expected) /\ Addressed
  BY BeginsNested, BeginsAddressed
<1> QED
  BY <1>1, <1>2, ObjectsStayFresh, PTL DEF Spec

(* No external declaration is under way if none is to come.                   *)
LEMMA NonePending ==
  ASSUME PInv, Pending({"external_declaration"}) = 0
  PROVE  ~Ahead("external_declaration")
<1> DEFINE S == {i \in DOMAIN expected : expected[i].k \in {"external_declaration"}}
<1>1. IsTuple(expected) /\ Len(expected) \in Nat /\ DOMAIN expected = 1..Len(expected)
  BY LenProperties DEF PInv, IsSentence, IsTuple
<1>2. IsFiniteSet(S)
  <2>1. IsFiniteSet(1..Len(expected)) /\ S \subseteq 1..Len(expected)
    BY <1>1, FS_Interval
  <2> QED
    BY <2>1, FS_Subset
<1>3. S = {}
  BY <1>2, FS_EmptySet DEF Pending
<1>4. expected # <<>> => 1 \in DOMAIN expected /\ Top = expected[1]
  <2>1. expected # <<>> => Len(expected) # 0
    BY <1>1, EmptySeq DEF IsTuple
  <2> QED
    BY <1>1, <2>1 DEF Top
<1> QED
  BY <1>3, <1>4 DEF Ahead

(* Once an external declaration is complete, the variables that the code       *)
(* generator addresses as globals are those of the outermost table: a local     *)
(* variable never shares a record with a global one, and no variable declared  *)
(* outside of functions stays without its attribute.                          *)
THEOREM GlobalsAlwaysAddressed == Spec => []GlobalsAddressed
<1>1. PInv /\ Addressed => GlobalsAddressed
  <2> SUFFICES ASSUME PInv, Addressed, Pending({"external_declaration"}) = 0,
                      NEW i \in DOMAIN symbol_table, NEW s \in Elements(symbol_table[i]),
                      ~heap[s].function
               PROVE  i = 1 <=> "GLOBAL" \in heap[s].attributes
    BY DEF GlobalsAddressed
  <2>1. ~Ahead("external_declaration")
    BY NonePending
  <2>2. i \in Nat /\ i >= 1 /\ s \in DOMAIN heap
    BY Chained, Objects DEF InTables
  <2>3. CASE i = 1
    BY <2>1, <2>3 DEF Addressed, Outermost, IsGlobal
  <2>4. CASE i # 1
    <3>1. Elements(symbol_table[i]) \intersect Outermost = {}
      BY <2>2, <2>4 DEF Addressed
    <3> QED
      BY <2>2, <2>4, <3>1 DEF Addressed, IsGlobal
  <2> QED
    BY <2>3, <2>4
<1> QED
  BY <1>1, AddressesKept, PTL
-----------------------------------------------------------------------------
(* The lines of an external declaration.  Every declarator has a place of its  *)
(* own, and no place is free.                                                *)
LEMMA Placed ==
  ASSUME PInv
  PROVE  LET D == 1..Len(declarators)
         IN  /\ Len(declarators) \in Nat /\ DOMAIN declarators = D
             /\ \A k \in D : Place(k) \in D
             /\ \A j, k \in D : Place(j) = Place(k) => j = k
             /\ \A n \in D : \E k \in D : Place(k) = n
<1> DEFINE L == Len(declarators)
           D == 1..L
           is(i) == heap[declarators[i]].function
           P(k) == {j \in D : (is(j) /\ ~is(k)) \/ (is(j) = is(k) /\ j <= k)}
           f == [k \in D |-> Place(k)]
<1>1. L \in Nat /\ DOMAIN declarators = D
  BY DataParts, LenProperties DEF PInv, Parts
<1>2. \A k \in D : is(k) \in BOOLEAN
  <2>1. ASSUME NEW k \in D
        PROVE  is(k) \in BOOLEAN
    <3>1. declarators[k] \in 1..Len(heap)
      BY <1>1, DataParts, ElementOfSeq DEF PInv, Parts
    <3>2. heap[declarators[k]] \in Object(Len(heap))
      BY <3>1, DataParts, ElementOfSeq DEF PInv, Parts, GoodHeap
    <3> QED
      BY <3>2 DEF Object
  <2> QED
    BY <2>1
<1>3. \A k \in D : Place(k) = Cardinality(P(k))
  BY <1>1 DEF Place
<1> HIDE DEF is
<1>4. IsFiniteSet(D) /\ Cardinality(D) = L
  <2> HIDE DEF L
  <2>1. 1 \in Int /\ L \in Int
    BY <1>1
  <2>2. IsFiniteSet(1..L) /\ Cardinality(1..L) = IF 1 > L THEN 0 ELSE L - 1 + 1
    BY <2>1, FS_Interval
  <2> QED
    BY <1>1, <2>2
<1>5. ASSUME NEW k \in D
      PROVE  IsFiniteSet(P(k)) /\ Cardinality(P(k)) \in 1..L /\ k \in P(k)
  <2> DEFINE S == P(k)
  <2>1. S \in SUBSET D /\ k \in S
    BY <1>1
  <2> HIDE DEF S
  <2>2. IsFiniteSet(S) /\ Cardinality(S) <= L
    BY <1>4, <2>1, FS_Subset
  <2>3. Cardinality(S) \in Nat /\ Cardinality(S) # 0
    BY <2>1, <2>2, FS_CardinalityType, FS_EmptySet
  <2> QED
    BY <1>1, <2>1, <2>2, <2>3 DEF S
<1>6. ASSUME NEW j \in D, NEW k \in D, j \in P(k), j # k
      PROVE  Cardinality(P(j)) # Cardinality(P(k))
  <2> DEFINE S == P(j)
             U == P(k)
  <2>1. S \in SUBSET U
    BY <1>1, <1>2, <1>6
  <2>2. k \in U /\ k \notin S
    BY <1>1, <1>2, <1>6
  <2>3. IsFiniteSet(U)
    BY <1>5
  <2> HIDE DEF S, U
  <2>4. Cardinality(S) # Cardinality(U)
    BY <2>1, <2>2, <2>3, FS_Subset
  <2> QED
    BY <2>4 DEF S, U
<1>7. ASSUME NEW j \in D, NEW k \in D
      PROVE  j \in P(k) \/ k \in P(j)
  BY <1>1, <1>2
<1> HIDE DEF P
<1>8. \A j, k \in D : Place(j) = Place(k) => j = k
  BY <1>3, <1>6, <1>7
<1>9. f \in [D -> D] /\ \A k \in D : Place(k) \in D
  BY <1>3, <1>5
<1>10. f \in Injection(D, D)
  BY <1>8, <1>9 DEF Injection, IsInjective
<1>11. f \in Surjection(D, D)
  <2> HIDE DEF f, D
  <2> QED
    BY <1>4, <1>10, FS_Injection
<1>12. \A n \in D : \E k \in D : Place(k) = n
  BY <1>11 DEF Surjection
<1> QED
  BY <1>1, <1>8, <1>9, <1>12

LineOf(k) ==
  Line(IF heap[declarators[k]].function THEN "declare" ELSE "global", declarators[k], {})

LEMMA LinesOfDeclarators ==
  ASSUME PInv
  PROVE  /\ IsTuple(DeclarationLines) /\ DOMAIN DeclarationLines = 1..Len(declarators)
         /\ Len(DeclarationLines) = Len(declarators)
         /\ \A k \in DOMAIN declarators :
              /\ Place(k) \in DOMAIN DeclarationLines
              /\ DeclarationLines[Place(k)] = LineOf(k)
         /\ \A n \in DOMAIN DeclarationLines : \E k \in DOMAIN declarators : Place(k) = n
<1> DEFINE L == Len(declarators)
           d == DeclarationLines
           S == {d[n] : n \in 1..L}
<1>1. /\ L \in Nat /\ DOMAIN declarators = 1..L
      /\ \A k \in 1..L : Place(k) \in 1..L
      /\ \A j, k \in 1..L : Place(j) = Place(k) => j = k
      /\ \A n \in 1..L : \E k \in 1..L : Place(k) = n
  BY Placed
<1>2. DOMAIN d = 1..L
  BY <1>1 DEF DeclarationLines
<1>3. d \in [1..L -> S]
  BY <1>2 DEF DeclarationLines
<1>4. ASSUME NEW k \in 1..L
      PROVE  d[Place(k)] = LineOf(k)
  <2> DEFINE c == CHOOSE j \in DOMAIN declarators : Place(j) = Place(k)
  <2>1. c \in 1..L /\ Place(c) = Place(k)
    BY <1>1, <1>4
  <2>2. c = k
    <3> HIDE DEF c
    <3> QED
      BY <1>1, <2>1
  <2>3. d[Place(k)] = Line(IF heap[declarators[c]].function THEN "declare" ELSE "global",
                           declarators[c], {})
    BY <1>1, <1>4 DEF DeclarationLines
  <2> QED
    BY <2>2, <2>3 DEF LineOf
<1> HIDE DEF d, S
<1>5. d \in Seq(S) /\ Len(d) = L
  BY <1>1, <1>3, SeqFromFunction
<1>6. IsTuple(d)
  BY <1>5, Tuples
<1> QED
  BY <1>1, <1>2, <1>4, <1>5, <1>6 DEF d
-----------------------------------------------------------------------------
(* What is written agrees with what the outermost table says.                 *)

SignatureIn(h, s) ==
  [type |-> h[s].type, args |-> [i \in DOMAIN h[s].args |-> h[h[s].args[i]].type]]
HasLine(x) == \E i \in DOMAIN emitted : emitted[i].name = x
Apart == \A s \in DOMAIN heap : Elements(heap[s].args) \intersect Elements(declarators) = {}

(* A line is about a name of the outermost table.                             *)
LinesNamed ==
  \A i \in DOMAIN emitted :
    /\ emitted[i].name \in DOMAIN symbol_table[1]
    /\ emitted[i].signature = SignatureIn(heap, symbol_table[1][emitted[i].name])
    /\ emitted[i].op = "global" <=> ~heap[symbol_table[1][emitted[i].name]].function
GlobalsOnce ==
  \A i, j \in DOMAIN emitted :
    (i # j /\ emitted[i].op = "global" /\ emitted[j].op = "global")
      => emitted[i].name # emitted[j].name

(* The symbols of a declaration that is about to be written are in the table,  *)
(* and no line is about them.                                                *)
Announced ==
  Ahead("external_declaration") =>
    \A k \in DOMAIN declarators :
      LET x == heap[declarators[k]].name
      IN  /\ x \in DOMAIN symbol_table[1] /\ symbol_table[1][x] = declarators[k]
          /\ ~HasLine(x)
          /\ \A j \in DOMAIN declarators : heap[declarators[j]].name = x => j = k

(* Every other name of the table has a line, but for that of a function whose  *)
(* definition is under way.                                                  *)
IsAnnounced(x) ==
  /\ Ahead("external_declaration")
  /\ \E k \in DOMAIN declarators : heap[declarators[k]].name = x
NamesWritten ==
  \A x \in DOMAIN symbol_table[1] :
    HasLine(x) \/ IsAnnounced(x) \/ (definition # 0 /\ x = heap[definition].name)

DefinitionKnown ==
  (definition # 0 /\ ~Ahead("decl_glb_fct")) =>
    LET x == heap[definition].name
    IN  /\ x \in DOMAIN symbol_table[1] /\ heap[symbol_table[1][x]].function
        /\ SignatureIn(heap, symbol_table[1][x]) = SignatureIn(heap, definition)

Lined ==
  /\ IsTuple(emitted) /\ Apart
  /\ LinesNamed /\ GlobalsOnce /\ Announced /\ NamesWritten /\ DefinitionKnown

(* What the outermost table says stays.                                      *)
Same(h, g, s) ==
  s \in DOMAIN g /\ g[s].function = h[s].function /\ SignatureIn(g, s) = SignatureIn(h, s)
Grows ==
  /\ \A x \in DOMAIN symbol_table[1] :
       x \in DOMAIN symbol_table'[1] /\ symbol_table'[1][x] = symbol_table[1][x]
  /\ \A s \in Outermost : Same(heap, heap', s)

LEMMA SameLines ==
  ASSUME LinesNamed, GlobalsOnce, Grows, emitted' = emitted
  PROVE  LinesNamed' /\ GlobalsOnce'
<1>1. ASSUME NEW i \in DOMAIN emitted
      PROVE  LET x == emitted[i].name
             IN  /\ x \in DOMAIN symbol_table'[1]
                 /\ emitted[i].signature = SignatureIn(heap', symbol_table'[1][x])
                 /\ emitted[i].op = "global" <=> ~heap'[symbol_table'[1][x]].function
  <2> DEFINE x == emitted[i].name
             s == symbol_table[1][x]
  <2>1. /\ x \in DOMAIN symbol_table[1] /\ emitted[i].signature = SignatureIn(heap, s)
        /\ emitted[i].op = "global" <=> ~heap[s].function
    BY DEF LinesNamed
  <2>2. s \in Outermost
    BY <2>1 DEF Outermost, Elements
  <2>3. x \in DOMAIN symbol_table'[1] /\ symbol_table'[1][x] = s /\ Same(heap, heap', s)
    BY <2>1, <2>2 DEF Grows
  <2> HIDE DEF x, s
  <2> QED
    BY <2>1, <2>3 DEF Same, x
<1> QED
  BY <1>1 DEF LinesNamed, GlobalsOnce

(* A step that neither declares nor writes.                                   *)
LEMMA UnchangedGrows ==
  ASSUME PInv, UNCHANGED <<heap, symbol_table>>
  PROVE  Grows
<1>1. 1 \in DOMAIN symbol_table /\ Outermost \subseteq DOMAIN heap
  BY Chained, Objects DEF Outermost, InTables
<1> QED
  BY <1>1 DEF Grows, Same

LEMMA StaysLined ==
  ASSUME PInv, Lined, ~Ahead("external_declaration"), ~Ahead("decl_glb_fct"),
         ~Ahead("external_declaration")',
         UNCHANGED <<heap, symbol_table, declarators, definition, emitted>>
  PROVE  Lined' /\ Grows
<1>1. Grows
  BY UnchangedGrows
<1>2. LinesNamed' /\ GlobalsOnce'
  BY <1>1, SameLines DEF Lined
<1>3. Apart' /\ IsTuple(emitted')
  BY DEF Lined, Apart
<1>4. Announced'
  BY DEF Announced
<1>5. NamesWritten'
  BY DEF Lined, NamesWritten, HasLine, IsAnnounced
<1>6. DefinitionKnown'
  BY DEF Lined, DefinitionKnown
<1> QED
  BY <1>1, <1>2, <1>3, <1>4, <1>5, <1>6 DEF Lined

LEMMA HaltsLined ==
  ASSUME PInv, Lined, UNCHANGED <<expected, lists, scopes, emitted>>
  PROVE  Lined' /\ Grows
<1>1. /\ heap' = heap /\ symbol_table' = symbol_table /\ emitted' = emitted
      /\ declarators' = declarators /\ definition' = definition
      /\ \A k : Ahead(k)' <=> Ahead(k)
  BY DEF Ahead, Top, lists, scopes
<1>2. Grows
  BY <1>1, UnchangedGrows
<1>3. LinesNamed' /\ GlobalsOnce'
  BY <1>1, <1>2, SameLines DEF Lined
<1>4. Apart' /\ IsTuple(emitted')
  BY <1>1 DEF Lined, Apart
<1>5. Announced'
  BY <1>1 DEF Lined, Announced, HasLine
<1>6. NamesWritten'
  BY <1>1 DEF Lined, NamesWritten, HasLine, IsAnnounced
<1>7. DefinitionKnown'
  BY <1>1 DEF Lined, DefinitionKnown
<1> QED
  BY <1>2, <1>3, <1>4, <1>5, <1>6, <1>7 DEF Lined

LEMMA ReducedLined ==
  ASSUME PInv, Lined, NEW k, At(k),
         k \notin {"external_declaration", "declaration", "decl_glb_fct"}, Become(<<>>),
         UNCHANGED <<heap, symbol_table, declarators, definition, emitted>>
  PROVE  Lined' /\ Grows
<1>1. Running /\ expected # <<>> /\ Top.k = k
  BY DEF At, Top
<1>2. /\ ~Ahead("external_declaration") /\ ~Ahead("external_declaration")'
      /\ ~Ahead("decl_glb_fct")
  BY <1>1, WrittenNext DEF Ahead
<1> QED
  BY <1>2, StaysLined

LEMMA ExpandedLined ==
  ASSUME PInv, Lined, Quiet, NEW k, At(k), k \notin {"external_declaration", "decl_glb_fct"},
         UNCHANGED <<heap, symbol_table, declarators, definition, emitted>>
  PROVE  Lined' /\ Grows
<1>1. ~Ahead("external_declaration") /\ ~Ahead("decl_glb_fct")
  BY DEF At, Ahead, Top
<1> QED
  BY <1>1, StaysLined DEF Quiet

(* A symbol keeps its signature if it and its parameters keep their types.      *)
LEMMA SignatureKept ==
  ASSUME NEW h, NEW g, NEW s, g[s].type = h[s].type, g[s].args = h[s].args,
         \A i \in DOMAIN h[s].args : g[h[s].args[i]].type = h[h[s].args[i]].type
  PROVE  SignatureIn(g, s) = SignatureIn(h, s)
BY DEF SignatureIn

(* The first n objects keep all but their attributes.                         *)
KeepObjects(h, g, n) ==
  \A s \in 1..n : /\ g[s].name = h[s].name /\ g[s].function = h[s].function
                  /\ g[s].type = h[s].type /\ g[s].args = h[s].args

LEMMA ObjectsKept ==
  ASSUME PInv, NEW g, 1..Len(heap) \subseteq DOMAIN g, KeepObjects(heap, g, Len(heap))
  PROVE  \A s \in DOMAIN heap : Same(heap, g, s)
<1> DEFINE n == Len(heap)
<1>1. ASSUME NEW s \in 1..n
      PROVE  Same(heap, g, s)
  <2>1. ASSUME NEW i \in DOMAIN heap[s].args
        PROVE  heap[s].args[i] \in 1..n
    <3>1. heap[s].args[i] \in Elements(heap[s].args)
      BY DEF Elements
    <3> QED
      BY <3>1, Objects
  <2>2. \A i \in DOMAIN heap[s].args : g[heap[s].args[i]].type = heap[heap[s].args[i]].type
    BY <2>1 DEF KeepObjects
  <2>3. SignatureIn(g, s) = SignatureIn(heap, s)
    BY <2>2, SignatureKept DEF KeepObjects
  <2> QED
    BY <2>3 DEF Same, KeepObjects
<1> QED
  BY <1>1, Objects

(* A new object.  If it is the function of a definition, what comes next        *)
(* declares it.                                                              *)
LEMMA MadeLined ==
  ASSUME PInv, Lined, NEW k, At(k),
         k \notin {"external_declaration", "declaration", "decl_glb_fct"}, Become(<<>>),
         symbol_table' = symbol_table, emitted' = emitted,
         DOMAIN heap' = 1..Len(heap) + 1, KeepObjects(heap, heap', Len(heap)),
         LET a == Elements(heap'[Len(heap) + 1].args)
         IN  a \intersect Elements(declarators) = {} /\ Len(heap) + 1 \notin a,
         Elements(declarators') \subseteq Elements(declarators) \union {Len(heap) + 1},
         definition' = definition \/ (definition = 0 /\ Ahead("decl_glb_fct")')
  PROVE  Lined' /\ Grows
<1> DEFINE n == Len(heap)
<1>1. Running /\ expected # <<>> /\ Top.k = k
  BY DEF At, Top
<1>2. /\ ~Ahead("external_declaration") /\ ~Ahead("external_declaration")'
      /\ ~Ahead("decl_glb_fct")
  BY <1>1, WrittenNext DEF Ahead
<1>3. /\ n \in Nat /\ DOMAIN heap = 1..n /\ Elements(declarators) \subseteq 1..n
      /\ \A s \in 1..n : Elements(heap[s].args) \subseteq 1..n
      /\ Outermost \subseteq 1..n
  <2>1. 1 \in DOMAIN symbol_table
    BY Chained
  <2> QED
    BY <2>1, Objects DEF Outermost, InTables
<1>4. \A s \in 1..n : Same(heap, heap', s)
  <2> DEFINE g == heap'
  <2>1. 1..n \subseteq DOMAIN g /\ KeepObjects(heap, g, n)
    BY <1>3
  <2> HIDE DEF g
  <2>2. \A s \in DOMAIN heap : Same(heap, g, s)
    BY <2>1, ObjectsKept
  <2> QED
    BY <1>3, <2>2 DEF g
<1>5. Grows
  BY <1>3, <1>4 DEF Grows
<1>6. LinesNamed' /\ GlobalsOnce'
  BY <1>5, SameLines DEF Lined
<1>7. Apart'
  <2>1. ASSUME NEW s \in DOMAIN heap'
        PROVE  Elements(heap'[s].args) \intersect Elements(declarators') = {}
    <3>1. CASE s = n + 1
      BY <3>1
    <3>2. CASE s # n + 1
      <4>1. s \in 1..n
        BY <1>3, <3>2
      <4>2. heap'[s].args = heap[s].args
        BY <4>1 DEF KeepObjects
      <4>3. Elements(heap[s].args) \intersect Elements(declarators) = {}
        BY <1>3, <4>1 DEF Lined, Apart
      <4>4. n + 1 \notin 1..n
        BY <1>3
      <4> QED
        BY <1>3, <4>1, <4>2, <4>3, <4>4
    <3> QED
      BY <3>1, <3>2
  <2> QED
    BY <2>1 DEF Apart
<1>8. Announced' /\ IsTuple(emitted')
  BY <1>2 DEF Announced, Lined
<1>9. definition # 0 => definition \in 1..n
  BY DataParts DEF PInv, Parts
<1>10. NamesWritten'
  <2>1. ASSUME NEW x \in DOMAIN symbol_table[1]
        PROVE  HasLine(x) \/ (definition' # 0 /\ x = heap'[definition'].name)
    <3>1. HasLine(x) \/ (definition # 0 /\ x = heap[definition].name)
      BY <1>2 DEF Lined, NamesWritten, IsAnnounced
    <3>2. definition # 0 => heap'[definition].name = heap[definition].name
      BY <1>9 DEF KeepObjects
    <3> QED
      BY <3>1, <3>2
  <2>2. \A x : HasLine(x)' <=> HasLine(x)
    BY DEF HasLine
  <2> QED
    BY <2>1, <2>2 DEF NamesWritten
<1>11. DefinitionKnown'
  <2>1. ASSUME definition' # 0, ~Ahead("decl_glb_fct")'
        PROVE  LET x == heap'[definition'].name
               IN  /\ x \in DOMAIN symbol_table'[1]
                   /\ heap'[symbol_table'[1][x]].function
                   /\ SignatureIn(heap', symbol_table'[1][x]) = SignatureIn(heap', definition')
    <3> DEFINE y == heap[definition].name
               s == symbol_table[1][y]
    <3>1. definition' = definition
      BY <2>1
    <3>2. y \in DOMAIN symbol_table[1] /\ heap[s].function
          /\ SignatureIn(heap, s) = SignatureIn(heap, definition)
      BY <1>2, <2>1, <3>1 DEF Lined, DefinitionKnown
    <3>3. s \in 1..n
      BY <1>3, <3>2 DEF Outermost, Elements
    <3>4. Same(heap, heap', s) /\ Same(heap, heap', definition)
          /\ heap'[definition].name = y
      BY <1>4, <1>9, <2>1, <3>1, <3>3 DEF KeepObjects
    <3> HIDE DEF y, s
    <3> QED
      BY <3>1, <3>2, <3>4 DEF Same, s
  <2> QED
    BY <2>1 DEF DefinitionKnown
<1> QED
  BY <1>5, <1>6, <1>7, <1>8, <1>10, <1>11 DEF Lined

LEMMA NamingEnds ==
  ASSUME PInv, Running, expected # <<>>, Top.k = "function_declarator", Top.n # 1,
         Become(<<>>)
  PROVE  definition = 0 /\ Ahead("decl_glb_fct")'
<1> DEFINE t == Top
           e == expected'
           h == Head(e)
<1>1. PICK u, m \in Situation : Matches(u) /\ Effect(t, u, m) /\ Leads(e, m, Start)
  <2>1. PICK u, m \in Situation :
          /\ Matches(u) /\ Effect(Top, u, m)
          /\ \A items, x : (IsTuple(items) /\ Become(items) /\ Leads(items, x, m))
                             => Leads(expected', x, Start)
    BY Facing
  <2>2. Leads(expected', m, Start)
    BY <2>1, LeadsNone, ShortTuples
  <2> QED
    BY <2>1, <2>2
<1>2. t.k = "function_declarator" /\ t.n # 1
  OBVIOUS
<1>3. IsTuple(e)
  <2>1. IsSentence(<<>>)
    BY Sentences
  <2> QED
    BY <2>1, NextSentence DEF PInv, IsSentence
<1> HIDE DEF t
<1>4. u = Claimed("typed") /\ m = Claimed("named")
  BY <1>1, <1>2 DEF Effect, Passes, Works, Anywhere, InBody
<1>5. definition = 0
  BY <1>1, <1>4 DEF Matches, Claimed, Sit
<1>6. e # <<>>
  <2>1. ASSUME e = <<>>
        PROVE  m = Start
    <3>1. Leads(<<>>, m, Start)
      BY <1>1, <2>1
    <3>2. Len(<<>>) = 0
      BY EmptySeq
    <3> QED
      BY <3>1, <3>2 DEF Leads
  <2> QED
    BY <1>4, <2>1 DEF Start, Claimed, Sit
<1> HIDE DEF e
<1>7. PICK n \in Situation : Effect(h, m, n)
  BY <1>1, <1>3, <1>6, LeadsFirst
<1>8. h.k = "decl_glb_fct"
  <2> HIDE DEF h
  <2>1. m.stage = "named"
    BY <1>4 DEF Claimed, Sit
  <2> QED
    BY <1>7, <2>1 DEF Effect, Passes, Works, Sit, Start, Claimed, Defined, Written
<1> QED
  BY <1>5, <1>6, <1>8 DEF Ahead, Top, e, h

LEMMA SymbolLined ==
  ASSUME PInv, Lined, NEW x, NEW t, NEW k, At(k),
         k \notin {"external_declaration", "declaration", "decl_glb_fct"}, Become(<<>>),
         heap' = Append(heap, NewSymbol(x, t)),
         UNCHANGED <<symbol_table, definition, emitted>>,
         Elements(declarators') \subseteq Elements(declarators) \union {Len(heap) + 1}
  PROVE  Lined' /\ Grows
<1> DEFINE n == Len(heap)
           s == NewSymbol(x, t)
           r == Append(heap, s)
<1>1. s.args = <<>> /\ Elements(<<>>) = {}
  BY ShortItems DEF NewSymbol, Elements
<1> HIDE DEF s
<1>2. IsTuple(heap)
  BY DataParts, Tuples DEF PInv, Parts, GoodHeap
<1>3. heap' = r
  BY DEF s
<1>4. /\ DOMAIN r = 1..n + 1 /\ r[n + 1] = s /\ \A i \in 1..n : r[i] = heap[i]
  BY <1>2, Appended
<1> HIDE DEF r
<1>5. /\ DOMAIN heap' = 1..n + 1 /\ KeepObjects(heap, heap', n)
      /\ Elements(heap'[n + 1].args) = {}
  BY <1>1, <1>3, <1>4 DEF KeepObjects
<1> QED
  BY <1>5, MadeLined

LEMMA FunctionDeclaratorLined ==
  ASSUME PInv, Fresh, Lined, FunctionDeclarator
  PROVE  Lined' /\ Grows
<1> DEFINE n == Len(heap)
           A == {"FUNCTION_PARAM"}
           E == Elements(parameters)
           g == Attributed(heap, E, A)
           s == NewFunction(Top.name, ReturnType, parameters)
           r == Append(g, s)
<1>1. /\ At("function_declarator") /\ Become(<<>>) /\ heap' = r
      /\ symbol_table' = symbol_table /\ emitted' = emitted
      /\ Running /\ expected # <<>> /\ Top.k = "function_declarator"
      /\ IF Top.n = 1 THEN /\ declarators' = Append(declarators, Len(heap'))
                           /\ definition' = definition
                      ELSE declarators' = declarators
  BY DEF FunctionDeclarator, Attributed, At, Top
<1>2. s.args = parameters
  BY DEF NewFunction, NewSymbol
<1> HIDE DEF s
<1>3. /\ n \in Nat /\ E \subseteq 1..n /\ E \intersect Elements(declarators) = {}
  BY Objects DEF Fresh
<1>4. IsTuple(g) /\ Len(g) = n /\ KeepObjects(heap, g, n)
  <2>1. A \in SUBSET {"GLOBAL", "EXTERN", "FUNCTION_PARAM"} /\ GoodHeap(heap)
    BY DataParts DEF PInv, Parts
  <2> HIDE DEF A, E
  <2>2. /\ GoodHeap(g) /\ Len(g) = n
        /\ \A i \in 1..n : /\ g[i].type = heap[i].type /\ g[i].args = heap[i].args
                           /\ g[i].name = heap[i].name /\ g[i].function = heap[i].function
    BY <2>1, AttributesAdded
  <2>3. IsTuple(g)
    BY <2>2, Tuples DEF GoodHeap
  <2> HIDE DEF g
  <2> QED
    BY <2>2, <2>3 DEF KeepObjects
<1> HIDE DEF g
<1>5. /\ DOMAIN r = 1..n + 1 /\ Len(r) = n + 1 /\ r[n + 1] = s
      /\ \A i \in 1..n : r[i] = g[i]
  BY <1>4, Appended
<1> HIDE DEF r
<1>6. /\ DOMAIN heap' = 1..n + 1 /\ Len(heap') = n + 1 /\ heap'[n + 1] = s
      /\ KeepObjects(heap, heap', n)
  BY <1>1, <1>4, <1>5 DEF KeepObjects
<1>7. LET a == Elements(heap'[n + 1].args)
      IN  a \intersect Elements(declarators) = {} /\ n + 1 \notin a
  BY <1>2, <1>3, <1>6
<1>8. Elements(declarators') \subseteq Elements(declarators) \union {n + 1}
  <2>1. declarators \in Seq(1..n)
    BY DataParts DEF PInv, Parts
  <2>2. Elements(Append(declarators, n + 1)) = Elements(declarators) \union {n + 1}
    BY <1>3, <2>1, ListAppended
  <2>3. declarators' = declarators \/ declarators' = Append(declarators, n + 1)
    BY <1>1, <1>6
  <2> QED
    BY <2>2, <2>3
<1>9. definition' = definition \/ (definition = 0 /\ Ahead("decl_glb_fct")')
  <2>1. CASE Top.n = 1
    BY <1>1, <2>1
  <2>2. CASE Top.n # 1
    BY <1>1, <2>2, NamingEnds
  <2> QED
    BY <2>1, <2>2
<1> HIDE DEF n
<1>10. definition' = definition \/ (definition = 0 /\ Ahead("decl_glb_fct")')
  BY <1>9
<1> QED
  BY <1>1, <1>6, <1>7, <1>8, <1>10, MadeLined DEF n

(* A declaration without duplicates: each of its names means its symbol.       *)
LEMMA NamesAdded ==
  ASSUME PInv, ~Duplicate(declarators)
  PROVE  LET t == Added(Last(symbol_table), declarators)
         IN  /\ \A x \in DOMAIN Last(symbol_table) :
                  x \in DOMAIN t /\ t[x] = Last(symbol_table)[x]
             /\ \A x \in DOMAIN t : \/ x \in DOMAIN Last(symbol_table)
                                    \/ \E k \in DOMAIN declarators : heap[declarators[k]].name = x
             /\ \A i \in DOMAIN declarators :
                  LET x == heap[declarators[i]].name
                  IN  /\ x \notin DOMAIN Last(symbol_table)
                      /\ x \in DOMAIN t /\ t[x] = declarators[i]
                      /\ \A j \in DOMAIN declarators :
                           heap[declarators[j]].name = x => j = i
<1> DEFINE l == Last(symbol_table)
           a == Added(l, declarators)
<1>1. IsTuple(declarators) /\ Len(declarators) \in Nat /\ DOMAIN declarators = 1..Len(declarators)
  BY DataParts, Tuples, LenProperties DEF PInv, Parts
<1>2. IsAdded(a, l, declarators)
  BY <1>1, AddedFound
<1>3. ASSUME NEW i \in DOMAIN declarators
      PROVE  /\ heap[declarators[i]].name \notin DOMAIN l
             /\ \A j \in 1..i - 1 : heap[declarators[j]].name # heap[declarators[i]].name
  BY DEF Duplicate, is_in_this_scope
<1> HIDE DEF a, l
<1>4. ASSUME NEW i \in DOMAIN declarators, NEW j \in DOMAIN declarators,
             heap[declarators[i]].name = heap[declarators[j]].name
      PROVE  i = j
  <2>1. ASSUME i < j
        PROVE  FALSE
    <3>1. i \in 1..j - 1
      BY <1>1, <2>1
    <3> QED
      BY <1>3, <1>4, <3>1
  <2>2. ASSUME j < i
        PROVE  FALSE
    <3>1. j \in 1..i - 1
      BY <1>1, <2>2
    <3> QED
      BY <1>3, <1>4, <3>1
  <2> QED
    BY <1>1, <2>1, <2>2
<1>5. ASSUME NEW i \in DOMAIN declarators
      PROVE  heap[declarators[i]].name \in DOMAIN a /\ a[heap[declarators[i]].name] = declarators[i]
  <2> DEFINE x == heap[declarators[i]].name
  <2>1. x \in DOMAIN a \ DOMAIN l
    <3>1. declarators[i] \in Elements(declarators)
      BY DEF Elements
    <3> QED
      BY <1>2, <1>3, <3>1 DEF IsAdded
  <2>2. PICK k \in DOMAIN declarators :
          a[x] = declarators[k] /\ heap[declarators[k]].name = x
    BY <1>2, <2>1 DEF IsAdded
  <2>3. i = k
    BY <1>4, <2>2
  <2> QED
    BY <2>1, <2>2, <2>3
<1>6. ASSUME NEW x \in DOMAIN a
      PROVE  x \in DOMAIN l \/ \E k \in DOMAIN declarators : heap[declarators[k]].name = x
  BY <1>2 DEF IsAdded
<1>7. \A x \in DOMAIN l : x \in DOMAIN a /\ a[x] = l[x]
  BY <1>2 DEF IsAdded
<1> QED
  BY <1>3, <1>4, <1>5, <1>6, <1>7 DEF a, l

LEMMA GlobalDeclares ==
  ASSUME PInv, Running, expected # <<>>, Top.k = "declaration", Top.name = "global"
  PROVE  definition = 0
<1> DEFINE t == Top
<1>1. PICK u, m \in Situation : Matches(u) /\ Effect(t, u, m)
  BY Facing
<1>2. t.k = "declaration" /\ t.name = "global"
  OBVIOUS
<1> HIDE DEF t
<1>3. u = Claimed("typed")
  BY <1>1, <1>2 DEF Effect, Passes, Works, Anywhere, InBody
<1> QED
  BY <1>1, <1>3 DEF Matches, Claimed, Sit

LEMMA DeclarationLined ==
  ASSUME PInv, Fresh, Nested(expected), Lined, ReduceDeclaration
  PROVE  Lined' /\ Grows
<1> DEFINE n == Len(heap)
           s == symbol_table
           l == Len(s)
           E == Elements(declarators)
           t == Added(Last(s), declarators)
           r == symbol_table'
<1>1. /\ Become(<<>>) /\ Running /\ expected # <<>> /\ Top.k = "declaration"
      /\ ~Duplicate(declarators) /\ r = WithLast(s, t)
      /\ heap' = Retyped(heap, E, Last(values))
      /\ declarators' = (IF Top.name = "global" THEN declarators ELSE <<>>)
      /\ definition' = definition /\ emitted' = emitted
      /\ values' = Front(values) /\ unclaimed_types_' = Front(unclaimed_types_)
  BY DEF ReduceDeclaration, At, Top, Retyped, Last, WithLast
<1>2. ~Ahead("external_declaration") /\ ~Ahead("decl_glb_fct")
  BY <1>1 DEF Ahead
<1>3. /\ n \in Nat /\ DOMAIN heap = 1..n /\ InTables \subseteq 1..n /\ E \subseteq 1..n
      /\ IsTuple(s) /\ s # <<>> /\ l \in Nat /\ l >= 1 /\ DOMAIN s = 1..l
      /\ Outermost \subseteq InTables /\ E \intersect InTables = {}
      /\ \A i \in 1..n : Elements(heap[i].args) \subseteq 1..n
  <2>1. 1 \in DOMAIN s
    BY Chained
  <2>2. Outermost \subseteq InTables
    BY <2>1 DEF Outermost, InTables
  <2> QED
    BY <1>2, <2>2, Chained, Objects DEF Fresh
<1>4. /\ DOMAIN heap' = 1..n
      /\ \A i \in 1..n : /\ heap'[i].name = heap[i].name
                         /\ heap'[i].function = heap[i].function
                         /\ heap'[i].args = heap[i].args
                         /\ i \notin E => heap'[i].type = heap[i].type
  <2> DEFINE v == Last(values)
             h == heap'
  <2>1. v \in Type /\ GoodHeap(heap) /\ h = Retyped(heap, E, v)
    BY <1>1, DeclarationMet, DataParts DEF PInv, Parts
  <2> HIDE DEF v, E, h
  <2>2. DOMAIN h = 1..n /\ \A i \in 1..n : /\ h[i].name = heap[i].name
                                           /\ h[i].function = heap[i].function
                                           /\ h[i].args = heap[i].args
                                           /\ i \notin E => h[i].type = heap[i].type
    BY <2>1, TypesTaken
  <2> QED
    BY <2>2 DEF h
<1>5. definition # 0 => definition \in 1..n /\ definition \notin E /\ Top.name # "global"
  <2>1. definition \in 0..n
    BY DataParts DEF PInv, Parts
  <2>2. definition # 0 => definition \notin E
    BY <1>1, DeclarationMet
  <2>3. Top.name = "global" => definition = 0
    BY <1>1, GlobalDeclares
  <2> QED
    BY <1>3, <2>1, <2>2, <2>3
<1>6. /\ \A x \in DOMAIN Last(s) : x \in DOMAIN t /\ t[x] = Last(s)[x]
      /\ \A x \in DOMAIN t : \/ x \in DOMAIN Last(s)
                             \/ \E k \in DOMAIN declarators : heap[declarators[k]].name = x
      /\ \A i \in DOMAIN declarators :
           LET x == heap[declarators[i]].name
           IN  /\ x \notin DOMAIN Last(s) /\ x \in DOMAIN t /\ t[x] = declarators[i]
               /\ \A j \in DOMAIN declarators : heap[declarators[j]].name = x => j = i
  BY <1>1, NamesAdded
<1> HIDE DEF t, E
<1>7. /\ Len(r) = l /\ DOMAIN r = 1..l
      /\ \A i \in 1..l : r[i] = IF i = l THEN t ELSE s[i]
  <2>1. r = WithLast(s, t) /\ IsTuple(s) /\ s # <<>>
    BY <1>1, <1>3
  <2> HIDE DEF s, r
  <2> QED
    BY <2>1, LastReplaced
<1>8. Top.name = "global" =>
        /\ r[1] = t /\ Last(s) = s[1] /\ Ahead("external_declaration")'
        /\ declarators' = declarators
  <2>1. ASSUME Top.name = "global"
        PROVE  /\ l = 1 /\ Ahead("external_declaration")' /\ declarators' = declarators
    BY <1>1, <2>1, TablesMet, DeclarationEnds
  <2>2. ASSUME l = 1
        PROVE  r[1] = t /\ Last(s) = s[1]
    BY <1>7, <2>2 DEF Last
  <2> QED
    BY <2>1, <2>2
<1>9. Top.name # "global" => r[1] = s[1] /\ ~Ahead("external_declaration")'
  <2>1. ASSUME Top.name # "global"
        PROVE  l > 1 /\ ~Ahead("external_declaration")'
    BY <1>1, <2>1, TablesMet, WrittenNext
  <2>2. l > 1 => 1 \in 1..l /\ 1 # l
    BY <1>3
  <2> HIDE DEF l, r, s
  <2> QED
    BY <1>7, <2>1, <2>2
<1> HIDE DEF r, l
<1>10. \A i \in 1..n : i \notin E => Same(heap, heap', i)
  <2>1. ASSUME NEW i \in 1..n, i \notin E
        PROVE  Same(heap, heap', i)
    <3>1. ASSUME NEW j \in DOMAIN heap[i].args
          PROVE  heap'[heap[i].args[j]].type = heap[heap[i].args[j]].type
      <4>1. heap[i].args[j] \in Elements(heap[i].args)
        BY DEF Elements
      <4>2. Elements(heap[i].args) \intersect E = {}
        BY <1>3 DEF Lined, Apart, E
      <4>3. heap[i].args[j] \in 1..n /\ heap[i].args[j] \notin E
        BY <1>3, <4>1, <4>2
      <4> QED
        BY <1>4, <4>3
    <3>2. SignatureIn(heap', i) = SignatureIn(heap, i)
      <4> DEFINE g == heap'
      <4>1. /\ g[i].type = heap[i].type /\ g[i].args = heap[i].args
            /\ \A j \in DOMAIN heap[i].args : g[heap[i].args[j]].type = heap[heap[i].args[j]].type
        BY <1>4, <2>1, <3>1
      <4> HIDE DEF g
      <4>2. SignatureIn(g, i) = SignatureIn(heap, i)
        BY <4>1, SignatureKept
      <4> QED
        BY <4>2 DEF g
    <3> QED
      BY <1>4, <3>2 DEF Same
  <2> QED
    BY <2>1
<1>11. /\ \A x \in DOMAIN s[1] : x \in DOMAIN r[1] /\ r[1][x] = s[1][x]
       /\ \A x \in DOMAIN r[1] : \/ x \in DOMAIN s[1]
                                 \/ /\ Top.name = "global"
                                    /\ \E k \in DOMAIN declarators : heap[declarators[k]].name = x
  <2>1. CASE Top.name = "global"
    BY <1>6, <1>8, <2>1
  <2>2. CASE Top.name # "global"
    BY <1>9, <2>2
  <2> QED
    BY <2>1, <2>2
<1>12. Grows
  <2>1. \A i \in Outermost : Same(heap, heap', i)
    BY <1>3, <1>10
  <2> QED
    BY <1>11, <2>1 DEF Grows, r
<1>13. LinesNamed' /\ GlobalsOnce'
  BY <1>1, <1>12, SameLines DEF Lined
<1>14. \A i \in DOMAIN declarators : /\ declarators[i] \in 1..n
                                     /\ heap'[declarators[i]].name = heap[declarators[i]].name
  <2>1. ASSUME NEW i \in DOMAIN declarators
        PROVE  declarators[i] \in 1..n
    <3>1. declarators[i] \in E
      BY DEF E, Elements
    <3> QED
      BY <1>3, <3>1
  <2> QED
    BY <1>4, <2>1
<1>15. Apart'
  <2>1. Elements(declarators') \subseteq E
    <3>1. Elements(<<>>) = {}
      BY ShortItems DEF Elements
    <3> QED
      BY <1>1, <3>1 DEF E
  <2>2. \A i \in 1..n : Elements(heap'[i].args) \intersect E = {}
    BY <1>3, <1>4 DEF Lined, Apart, E
  <2> QED
    BY <1>4, <2>1, <2>2 DEF Apart
<1>16. Announced'
  <2>1. ASSUME Ahead("external_declaration")', NEW k \in DOMAIN declarators'
        PROVE  LET x == heap'[declarators'[k]].name
               IN  /\ x \in DOMAIN r[1] /\ r[1][x] = declarators'[k]
                   /\ ~(\E i \in DOMAIN emitted' : emitted'[i].name = x)
                   /\ \A j \in DOMAIN declarators' : heap'[declarators'[j]].name = x => j = k
    <3> DEFINE x == heap[declarators[k]].name
    <3>1. /\ r[1] = t /\ Last(s) = s[1] /\ declarators' = declarators
          /\ k \in DOMAIN declarators
      BY <1>8, <1>9, <2>1
    <3>2. heap'[declarators'[k]].name = x
      BY <1>14, <3>1
    <3>3. /\ x \notin DOMAIN s[1] /\ x \in DOMAIN r[1] /\ r[1][x] = declarators[k]
          /\ \A j \in DOMAIN declarators : heap[declarators[j]].name = x => j = k
      BY <1>6, <3>1
    <3>4. ~(\E i \in DOMAIN emitted : emitted[i].name = x)
      BY <3>3 DEF Lined, LinesNamed
    <3> HIDE DEF x
    <3> QED
      BY <1>1, <1>14, <3>1, <3>2, <3>3, <3>4
  <2> QED
    BY <2>1 DEF Announced, HasLine, r
<1>17. NamesWritten'
  <2>1. ASSUME NEW x \in DOMAIN r[1]
        PROVE  HasLine(x)' \/ IsAnnounced(x)' \/ (definition' # 0 /\ x = heap'[definition'].name)
    <3>1. CASE x \in DOMAIN s[1]
      <4>1. HasLine(x) \/ (definition # 0 /\ x = heap[definition].name)
        BY <1>2, <3>1 DEF Lined, NamesWritten, IsAnnounced
      <4>2. definition # 0 => heap'[definition].name = heap[definition].name
        BY <1>4, <1>5
      <4>3. HasLine(x)' <=> HasLine(x)
        BY <1>1 DEF HasLine
      <4> QED
        BY <1>1, <4>1, <4>2, <4>3
    <3>2. CASE x \notin DOMAIN s[1]
      <4>1. Top.name = "global" /\ \E k \in DOMAIN declarators : heap[declarators[k]].name = x
        BY <1>11, <2>1, <3>2
      <4>2. IsAnnounced(x)'
        BY <1>8, <1>14, <4>1 DEF IsAnnounced
      <4> QED
        BY <4>2
    <3> QED
      BY <3>1, <3>2
  <2> QED
    BY <2>1 DEF NamesWritten, r
<1>18. DefinitionKnown'
  <2>1. ASSUME definition # 0
        PROVE  LET x == heap'[definition].name
               IN  /\ x \in DOMAIN r[1] /\ heap'[r[1][x]].function
                   /\ SignatureIn(heap', r[1][x]) = SignatureIn(heap', definition)
    <3> DEFINE y == heap[definition].name
               b == symbol_table[1][y]
    <3>1. y \in DOMAIN symbol_table[1] /\ heap[b].function
          /\ SignatureIn(heap, b) = SignatureIn(heap, definition)
      BY <1>2, <2>1 DEF Lined, DefinitionKnown
    <3>2. b \in Outermost
      BY <3>1 DEF Outermost, Elements
    <3>3. Same(heap, heap', b) /\ Same(heap, heap', definition) /\ heap'[definition].name = y
      BY <1>4, <1>5, <1>10, <1>12, <2>1, <3>2 DEF Grows
    <3>4. y \in DOMAIN r[1] /\ r[1][y] = b
      BY <1>11, <3>1
    <3> HIDE DEF y, b
    <3> QED
      BY <3>1, <3>3, <3>4 DEF Same
  <2> QED
    BY <1>1, <2>1 DEF DefinitionKnown, r
<1> QED
  BY <1>1, <1>12, <1>13, <1>15, <1>16, <1>17, <1>18 DEF Lined

LEMMA LineWritten ==
  ASSUME NEW op, NEW f, NEW callees
  PROVE  /\ Line(op, f, callees).op = op /\ Line(op, f, callees).name = heap[f].name
         /\ Line(op, f, callees).signature = SignatureIn(heap, f)
         /\ Line(op, f, callees).calls = callees
BY DEF Line, Signature, ArgTypes, SignatureIn

LEMMA ExternalDeclarationLined ==
  ASSUME PInv, Lined, ReduceExternalDeclaration
  PROVE  Lined' /\ Grows
<1> DEFINE n == Len(heap)
           E == Elements(declarators)
           A == AttributesOf(Top.n)
           D == DeclarationLines
           e == emitted
           r == emitted'
           L == Len(e)
           T1 == symbol_table[1]
<1>1. /\ Become(<<>>) /\ Running /\ expected # <<>> /\ Top.k = "external_declaration"
      /\ heap' = Attributed(heap, E, A) /\ symbol_table' = symbol_table
      /\ r = e \o D /\ declarators' = <<>> /\ definition' = definition
  BY DEF ReduceExternalDeclaration, At, Top, Attributed
<1>2. /\ Ahead("external_declaration") /\ ~Ahead("external_declaration")'
      /\ ~Ahead("decl_glb_fct")
  BY <1>1, WrittenNext DEF Ahead
<1>3. n \in Nat /\ DOMAIN heap = 1..n /\ E \subseteq 1..n /\ Outermost \subseteq 1..n
  <2>1. 1 \in DOMAIN symbol_table
    BY Chained
  <2> QED
    BY <2>1, Objects DEF Outermost, InTables
<1>4. DOMAIN heap' = 1..n /\ KeepObjects(heap, heap', n)
  <2> DEFINE h == heap'
  <2>1. /\ A \in SUBSET {"GLOBAL", "EXTERN", "FUNCTION_PARAM"} /\ GoodHeap(heap)
        /\ h = Attributed(heap, E, A)
    BY <1>1, DataParts DEF PInv, Parts, AttributesOf
  <2> HIDE DEF A, E, h
  <2>2. DOMAIN h = 1..n /\ KeepObjects(heap, h, n)
    BY <2>1, AttributesAdded DEF KeepObjects
  <2> QED
    BY <2>2 DEF h
<1> HIDE DEF E, A
<1>5. \A s \in 1..n : Same(heap, heap', s)
  <2> DEFINE g == heap'
  <2>1. 1..n \subseteq DOMAIN g /\ KeepObjects(heap, g, n)
    BY <1>4
  <2> HIDE DEF g
  <2>2. \A s \in DOMAIN heap : Same(heap, g, s)
    BY <2>1, ObjectsKept
  <2> QED
    BY <1>3, <2>2 DEF g
<1>6. Grows
  BY <1>1, <1>3, <1>5 DEF Grows
<1>7. /\ IsTuple(e) /\ IsTuple(D)
      /\ \A k \in DOMAIN declarators : Place(k) \in DOMAIN D /\ D[Place(k)] = LineOf(k)
      /\ \A m \in DOMAIN D : \E k \in DOMAIN declarators : Place(k) = m
  BY LinesOfDeclarators DEF Lined
<1> HIDE DEF D
<1>8. IsJoined(e, D, r)
  <2>1. IsJoined(e, D, e \o D)
    BY <1>7, Joined
  <2> HIDE DEF r, e
  <2> QED
    BY <1>1, <2>1
<1>9. \A k \in DOMAIN declarators :
        LET b == declarators[k]
            x == heap[b].name
        IN  /\ x \in DOMAIN T1 /\ T1[x] = b /\ ~HasLine(x) /\ b \in 1..n
            /\ \A j \in DOMAIN declarators : heap[declarators[j]].name = x => j = k
  <2>1. ASSUME NEW k \in DOMAIN declarators
        PROVE  declarators[k] \in 1..n
    <3>1. declarators[k] \in E
      BY DEF E, Elements
    <3> QED
      BY <1>3, <3>1
  <2> QED
    BY <1>2, <2>1 DEF Lined, Announced
<1>10. \A k \in DOMAIN declarators :
         LET b == declarators[k]
         IN  /\ LineOf(k).name = heap[b].name /\ LineOf(k).signature = SignatureIn(heap, b)
             /\ (LineOf(k).op = "global") <=> ~heap[b].function
  <2>1. ASSUME NEW k \in DOMAIN declarators
        PROVE  LET b == declarators[k]
               IN  /\ LineOf(k).name = heap[b].name /\ LineOf(k).signature = SignatureIn(heap, b)
                   /\ LineOf(k).op = IF heap[b].function THEN "declare" ELSE "global"
    BY LineWritten DEF LineOf
  <2> QED
    BY <2>1
<1>11. ASSUME NEW i \in DOMAIN r
       PROVE  \/ i \in DOMAIN e /\ r[i] = e[i]
              \/ \E k \in DOMAIN declarators :
                   i > L /\ Place(k) = i - L /\ r[i] = LineOf(k)
  <2>1. CASE i \in DOMAIN e /\ r[i] = e[i]
    BY <2>1
  <2>2. CASE i > L /\ i - L \in DOMAIN D /\ r[i] = D[i - L]
    BY <1>7, <2>2
  <2> HIDE DEF r, e
  <2> QED
    BY <1>8, <2>1, <2>2 DEF IsJoined
<1>12. L \in Nat /\ DOMAIN e = 1..L /\ DOMAIN r \subseteq Nat
  <2> HIDE DEF r, e, L
  <2>1. /\ Len(e) \in Nat /\ DOMAIN e = 1..Len(e) /\ Len(D) \in Nat
        /\ DOMAIN r = 1..Len(e) + Len(D)
    BY <1>8 DEF IsJoined
  <2> QED
    BY <2>1 DEF L, e
<1> HIDE DEF r, e, L
<1>13. \A i \in DOMAIN r :
         /\ r[i].name \in DOMAIN T1 /\ r[i].signature = SignatureIn(heap', T1[r[i].name])
         /\ (r[i].op = "global") <=> ~heap'[T1[r[i].name]].function
  <2>1. ASSUME NEW i \in DOMAIN r
        PROVE  /\ r[i].name \in DOMAIN T1 /\ T1[r[i].name] \in 1..n
               /\ r[i].signature = SignatureIn(heap, T1[r[i].name])
               /\ (r[i].op = "global") <=> ~heap[T1[r[i].name]].function
    <3>1. CASE i \in DOMAIN e /\ r[i] = e[i]
      <4>1. /\ e[i].name \in DOMAIN T1
            /\ e[i].signature = SignatureIn(heap, T1[e[i].name])
            /\ (e[i].op = "global") <=> ~heap[T1[e[i].name]].function
        BY <3>1 DEF Lined, LinesNamed, e
      <4>2. T1[e[i].name] \in Outermost
        BY <4>1 DEF Outermost, Elements
      <4> QED
        BY <1>3, <3>1, <4>1, <4>2
    <3>2. CASE \E k \in DOMAIN declarators : r[i] = LineOf(k)
      BY <1>9, <1>10, <3>2
    <3> QED
      BY <1>11, <3>1, <3>2
  <2>2. ASSUME NEW i \in DOMAIN r
        PROVE  /\ r[i].name \in DOMAIN T1
               /\ r[i].signature = SignatureIn(heap', T1[r[i].name])
               /\ (r[i].op = "global") <=> ~heap'[T1[r[i].name]].function
    BY <1>5, <2>1 DEF Same
  <2> QED
    BY <2>2
<1>14. LinesNamed'
  BY <1>1, <1>13 DEF LinesNamed, r
<1>15. GlobalsOnce'
  <2>1. ASSUME NEW i \in DOMAIN r, NEW j \in DOMAIN r, i # j, r[i].name = r[j].name,
               i \in DOMAIN e, r[i] = e[i], r[j].op = "global", r[i].op = "global"
        PROVE  FALSE
    <3>1. CASE j \in DOMAIN e /\ r[j] = e[j]
      BY <2>1, <3>1 DEF Lined, GlobalsOnce, e
    <3>2. CASE \E k \in DOMAIN declarators : r[j] = LineOf(k)
      <4>1. PICK k \in DOMAIN declarators : r[j] = LineOf(k)
        BY <3>2
      <4>2. ~HasLine(r[j].name)
        BY <1>9, <1>10, <4>1
      <4>3. HasLine(r[i].name)
        BY <2>1 DEF HasLine, e
      <4> QED
        BY <2>1, <4>2, <4>3
    <3> QED
      BY <1>11, <3>1, <3>2
  <2>2. ASSUME NEW i \in DOMAIN r, NEW j \in DOMAIN r, i # j, r[i].name = r[j].name,
               NEW k \in DOMAIN declarators, NEW m \in DOMAIN declarators,
               i > L, j > L, Place(k) = i - L, r[i] = LineOf(k),
               Place(m) = j - L, r[j] = LineOf(m)
        PROVE  FALSE
    <3>1. k = m
      BY <1>9, <1>10, <2>2
    <3>2. i \in Nat /\ j \in Nat
      BY <1>12, <2>2
    <3> QED
      BY <1>12, <2>2, <3>1, <3>2
  <2>3. ASSUME NEW i \in DOMAIN r, NEW j \in DOMAIN r, i # j, r[i].name = r[j].name,
               r[j].op = "global", r[i].op = "global"
        PROVE  FALSE
    BY <1>11, <2>1, <2>2, <2>3
  <2> QED
    BY <2>3 DEF GlobalsOnce, r
<1>16. Apart' /\ Announced' /\ IsTuple(emitted')
  <2>1. Elements(<<>>) = {}
    BY ShortItems DEF Elements
  <2>2. IsTuple(r)
    BY <1>8 DEF IsJoined
  <2> QED
    BY <1>1, <1>2, <2>1, <2>2 DEF Apart, Announced, r
<1>17. NamesWritten'
  <2>1. ASSUME NEW x, HasLine(x)
        PROVE  HasLine(x)'
    <3>1. PICK i \in DOMAIN e : e[i].name = x
      BY <2>1 DEF HasLine, e
    <3>2. i \in DOMAIN r /\ r[i] = e[i]
      <4>1. /\ Len(e) \in Nat /\ DOMAIN e = 1..Len(e) /\ Len(D) \in Nat
            /\ DOMAIN r = 1..Len(e) + Len(D) /\ r[i] = e[i]
        BY <1>8 DEF IsJoined
      <4> QED
        BY <4>1
    <3> QED
      BY <3>1, <3>2 DEF HasLine, r
  <2>2. ASSUME NEW x, IsAnnounced(x)
        PROVE  HasLine(x)'
    <3>1. PICK k \in DOMAIN declarators : heap[declarators[k]].name = x
      BY <2>2 DEF IsAnnounced
    <3>2. Place(k) \in DOMAIN D /\ D[Place(k)].name = x
      BY <1>7, <1>10, <3>1
    <3>3. Len(e) + Place(k) \in DOMAIN r /\ r[Len(e) + Place(k)] = D[Place(k)]
      <4>1. /\ Len(e) \in Nat /\ DOMAIN e = 1..Len(e) /\ Len(D) \in Nat
            /\ DOMAIN r = 1..Len(e) + Len(D) /\ DOMAIN D = 1..Len(D)
            /\ r[Len(e) + Place(k)] = D[Place(k)]
        BY <1>8, <3>2 DEF IsJoined
      <4> QED
        BY <3>2, <4>1
    <3> QED
      BY <3>2, <3>3 DEF HasLine, r
  <2>3. definition # 0 => heap'[definition].name = heap[definition].name
    <3>1. definition \in 0..n
      BY DataParts DEF PInv, Parts
    <3> QED
      BY <1>3, <1>4, <3>1 DEF KeepObjects
  <2>4. ASSUME NEW x \in DOMAIN T1
        PROVE  HasLine(x)' \/ (definition # 0 /\ x = heap'[definition].name)
    BY <2>1, <2>2, <2>3 DEF Lined, NamesWritten
  <2> QED
    BY <1>1, <2>4 DEF NamesWritten
<1>18. DefinitionKnown'
  <2>1. ASSUME definition # 0
        PROVE  LET x == heap'[definition].name
               IN  /\ x \in DOMAIN T1 /\ heap'[T1[x]].function
                   /\ SignatureIn(heap', T1[x]) = SignatureIn(heap', definition)
    <3> DEFINE y == heap[definition].name
               b == T1[y]
    <3>1. y \in DOMAIN T1 /\ heap[b].function
          /\ SignatureIn(heap, b) = SignatureIn(heap, definition)
      BY <1>2, <2>1 DEF Lined, DefinitionKnown
    <3>2. b \in Outermost
      BY <3>1 DEF Outermost, Elements
    <3>3. definition \in 1..n
      <4>1. definition \in 0..n
        BY DataParts DEF PInv, Parts
      <4> QED
        BY <1>3, <2>1, <4>1
    <3>4. Same(heap, heap', b) /\ Same(heap, heap', definition) /\ heap'[definition].name = y
      BY <1>3, <1>4, <1>5, <3>2, <3>3 DEF KeepObjects
    <3> QED
      <4> HIDE DEF b, y
      <4>1. heap'[b].function /\ SignatureIn(heap', b) = SignatureIn(heap', definition)
        BY <3>1, <3>4 DEF Same
      <4> QED
        BY <3>1, <3>4, <4>1 DEF b
  <2> QED
    BY <1>1, <2>1 DEF DefinitionKnown
<1> QED
  BY <1>6, <1>14, <1>15, <1>16, <1>17, <1>18 DEF Lined

LEMMA DefinitionNamed ==
  ASSUME PInv, At("decl_glb_fct")
  PROVE  definition = last_function_ /\ definition \in DOMAIN heap
<1>1. PICK u, m \in Situation : Matches(u) /\ Effect(Top, u, m)
  BY Facing DEF At
<1>2. u = Claimed("named")
  <2> DEFINE it == Top
  <2>1. it.k = "decl_glb_fct" /\ Effect(it, u, m)
    BY <1>1 DEF At, Top
  <2> HIDE DEF it
  <2> QED
    BY <2>1 DEF Effect, Passes, Works, Anywhere, InBody
<1>3. u.stage = "named"
  BY <1>2 DEF Claimed, Sit
<1> QED
  BY <1>1, <1>3 DEF Matches

(* What an outermost table says of a name is all that is visible of it.        *)
LEMMA OnlyMeaning ==
  ASSUME PInv, Len(symbol_table) = 1, NEW x
  PROVE  /\ is_visible(x) <=> x \in DOMAIN symbol_table[1]
         /\ is_visible(x) => lookup(x) = symbol_table[1][x]
<1>1. DOMAIN symbol_table = 1..1
  BY Chained
<1>2. is_visible(x) <=> x \in DOMAIN symbol_table[1]
  BY <1>1 DEF is_visible
<1>3. ASSUME is_visible(x)
      PROVE  InnermostWith(x, 1) = 1
  <2>1. InnermostWith(x, 1) \in 1..1
    BY <1>1, <1>3, InnermostFound DEF is_visible
  <2> QED
    BY <2>1
<1> QED
  BY <1>2, <1>3 DEF lookup, lookup_from

LEMMA FunctionLined ==
  ASSUME PInv, Nested(expected), Addressed, Lined, ReduceDeclGlbFct
  PROVE  Lined' /\ Grows
<1> DEFINE f == last_function_
           x == heap[f].name
           l == <<f>>
           s == symbol_table
           o == Outer(f)
           t == Added(EmptyTable, heap[f].args)
           r == symbol_table'
<1>1. /\ At("decl_glb_fct") /\ Become(<<>>) /\ Running /\ expected # <<>>
      /\ Top.k = "decl_glb_fct" /\ r = Append(o, t)
      /\ heap' = heap /\ declarators' = declarators /\ definition' = definition
      /\ emitted' = emitted
      /\ is_visible(x) => Agrees(f, lookup(x))
  BY DEF ReduceDeclGlbFct, At, Top, Outer, WithLast, Last, lists
<1>2. ~Ahead("external_declaration") /\ ~Ahead("external_declaration")'
  BY <1>1, WrittenNext DEF Ahead
<1>3. /\ definition = f /\ f \in DOMAIN heap /\ heap[f].function /\ f # 0
      /\ IsTuple(s) /\ s # <<>> /\ Len(s) = 1 /\ DOMAIN s = 1..1 /\ Last(s) = s[1]
      /\ Outermost \subseteq DOMAIN heap
  <2>1. definition = f /\ f \in DOMAIN heap /\ f # 0
    BY <1>1, DefinitionNamed, Objects
  <2>2. Len(s) = 1
    BY <1>1, TablesMet
  <2>3. Outermost \subseteq DOMAIN heap
    BY Chained, Objects DEF Outermost, InTables
  <2> QED
    BY <2>1, <2>2, <2>3, Chained DEF Addressed, Last
<1>4. /\ is_visible(x) <=> x \in DOMAIN s[1]
      /\ is_visible(x) => lookup(x) = s[1][x]
  BY <1>3, OnlyMeaning
<1> HIDE DEF t
<1>5. /\ IsTuple(o) /\ Len(o) = 1
      /\ \A y \in DOMAIN s[1] : y \in DOMAIN o[1] /\ o[1][y] = s[1][y]
      /\ \A y \in DOMAIN o[1] : y \in DOMAIN s[1] \/ y = x
      /\ x \in DOMAIN o[1] /\ heap[o[1][x]].function
      /\ SignatureIn(heap, o[1][x]) = SignatureIn(heap, f)
  <2>1. CASE is_visible(x)
    <3>1. o = s
      BY <2>1 DEF Outer
    <3>2. x \in DOMAIN s[1] /\ Agrees(f, s[1][x])
      BY <1>1, <1>4, <2>1
    <3>3. /\ heap[s[1][x]].function
          /\ SignatureIn(heap, s[1][x]) = SignatureIn(heap, f)
      BY <3>2 DEF Agrees, ArgTypes, SignatureIn
    <3> HIDE DEF x, o, s
    <3> QED
      BY <1>3, <3>1, <3>2, <3>3
  <2>2. CASE ~is_visible(x)
    <3> DEFINE a == Added(Last(s), l)
    <3>1. o = WithLast(s, a)
      BY <2>2 DEF Outer
    <3>2. l \in Seq({f}) /\ IsTuple(l) /\ Elements(l) = {f} /\ \A k \in DOMAIN l : l[k] = f
      BY ShortTuples DEF Elements
    <3> HIDE DEF l
    <3>3. IsAdded(a, Last(s), l)
      BY <3>2, AddedFound
    <3> HIDE DEF a, o
    <3>4. IsTuple(o) /\ Len(o) = 1 /\ o[1] = a
      <4>1. IsTuple(o) /\ Len(o) = Len(s) /\ \A i \in 1..Len(s) : o[i] = IF i = Len(s) THEN a ELSE s[i]
        BY <1>3, <3>1, LastReplaced
      <4> QED
        BY <1>3, <4>1
    <3>5. /\ DOMAIN a = DOMAIN s[1] \union {x} /\ \A y \in DOMAIN s[1] : a[y] = s[1][y]
      BY <1>3, <3>2, <3>3 DEF IsAdded
    <3>6. a[x] = f
      <4>1. x \in DOMAIN a \ DOMAIN Last(s)
        BY <1>3, <1>4, <2>2, <3>5
      <4> QED
        BY <3>2, <3>3, <4>1 DEF IsAdded
    <3> HIDE DEF x, s
    <3> QED
      BY <1>3, <3>4, <3>5, <3>6
  <2> QED
    BY <2>1, <2>2
<1> HIDE DEF o
<1>6. r[1] = o[1]
  <2>1. r = Append(o, t) /\ IsTuple(o) /\ Len(o) = 1
    BY <1>1, <1>5
  <2> HIDE DEF r
  <2>2. \A i \in 1..Len(o) : r[i] = o[i]
    BY <2>1, Appended
  <2> QED
    BY <2>1, <2>2
<1> HIDE DEF r
<1>7. Grows
  <2>1. \A b \in Outermost : Same(heap, heap', b)
    BY <1>1, <1>3 DEF Same
  <2> QED
    BY <1>5, <1>6, <2>1 DEF Grows, r
<1>8. LinesNamed' /\ GlobalsOnce'
  BY <1>1, <1>7, SameLines DEF Lined
<1>9. Apart' /\ IsTuple(emitted') /\ Announced'
  BY <1>1, <1>2 DEF Lined, Apart, Announced
<1>10. NamesWritten'
  <2>1. ASSUME NEW y \in DOMAIN r[1]
        PROVE  HasLine(y) \/ (definition # 0 /\ y = heap[definition].name)
    <3>1. CASE y \in DOMAIN s[1]
      BY <1>2, <3>1 DEF Lined, NamesWritten, IsAnnounced
    <3>2. CASE y = x
      BY <1>3, <3>2
    <3> QED
      BY <1>5, <1>6, <2>1, <3>1, <3>2
  <2>2. \A y : HasLine(y)' <=> HasLine(y)
    BY <1>1 DEF HasLine
  <2> QED
    BY <1>1, <2>1, <2>2 DEF NamesWritten, r
<1>11. DefinitionKnown'
  BY <1>1, <1>3, <1>5, <1>6 DEF DefinitionKnown, r
<1> QED
  BY <1>7, <1>8, <1>9, <1>10, <1>11 DEF Lined

LEMMA BlocksLined ==
  ASSUME PInv, Lined, ~Ahead("external_declaration"), ~Ahead("decl_glb_fct"),
         ~Ahead("external_declaration")', symbol_table'[1] = symbol_table[1],
         UNCHANGED <<heap, declarators, definition, emitted>>
  PROVE  Lined' /\ Grows
<1>1. Grows
  <2>1. Outermost \subseteq DOMAIN heap
    BY Chained, Objects DEF Outermost, InTables
  <2> QED
    BY <2>1 DEF Grows, Same
<1>2. LinesNamed' /\ GlobalsOnce'
  BY <1>1, SameLines DEF Lined
<1>3. Apart' /\ IsTuple(emitted')
  BY DEF Lined, Apart
<1>4. Announced'
  BY DEF Announced
<1>5. NamesWritten'
  BY DEF Lined, NamesWritten, HasLine, IsAnnounced
<1>6. DefinitionKnown'
  BY DEF Lined, DefinitionKnown
<1> QED
  BY <1>1, <1>2, <1>3, <1>4, <1>5, <1>6 DEF Lined

LEMMA BlockStartLined ==
  ASSUME PInv, Lined, BlockStart
  PROVE  Lined' /\ Grows
<1> DEFINE s == symbol_table
           r == symbol_table'
           e == EmptyTable
<1>1. /\ Running /\ expected # <<>> /\ Top.k = "compound"
      /\ heap' = heap /\ emitted' = emitted
      /\ declarators' = declarators /\ definition' = definition
      /\ r = s \/ r = Append(s, e)
  BY DEF BlockStart, At, Top, lists
<1>2. ~Ahead("external_declaration") /\ ~Ahead("decl_glb_fct")
  BY <1>1 DEF Ahead
<1>3. ~Ahead("external_declaration")'
  BY ListNext DEF BlockStart, At, Ahead
<1>4. IsTuple(s) /\ Len(s) \in Nat /\ Len(s) >= 1 /\ DOMAIN s = 1..Len(s)
  BY Chained
<1> HIDE DEF e
<1>5. r[1] = s[1]
  <2>1. CASE r = s
    BY <2>1
  <2>2. CASE r = Append(s, e)
    <3> HIDE DEF s, r
    <3>1. \A i \in 1..Len(s) : r[i] = s[i]
      BY <1>4, <2>2, Appended
    <3> QED
      BY <1>4, <3>1
  <2> QED
    BY <1>1, <2>1, <2>2
<1> QED
  BY <1>1, <1>2, <1>3, <1>5, BlocksLined

LEMMA BlockEndLined ==
  ASSUME PInv, Nested(expected), Lined, BlockEnd
  PROVE  Lined' /\ Grows
<1> DEFINE s == symbol_table
           r == Pop(s, 1)
           l == Len(s)
<1>1. /\ Running /\ expected # <<>> /\ Top.k = "block_end" /\ Become(<<>>)
      /\ symbol_table' = r /\ heap' = heap /\ emitted' = emitted
      /\ declarators' = declarators /\ definition' = definition
  BY DEF BlockEnd, At, Top, Front, Pop, lists
<1>2. /\ ~Ahead("external_declaration") /\ ~Ahead("external_declaration")'
      /\ ~Ahead("decl_glb_fct")
  BY <1>1, WrittenNext DEF Ahead
<1>3. IsTuple(s) /\ l \in Nat /\ l > 1
  BY <1>1, Chained, TablesMet
<1>4. r[1] = s[1]
  <2> DEFINE S == {s[i] : i \in DOMAIN s}
  <2>1. s \in Seq(S) /\ 1 \in 0..l
    BY <1>3 DEF IsTuple
  <2> HIDE DEF S
  <2>2. \A i \in 1..l - 1 : r[i] = s[i]
    BY <2>1, PopProperties
  <2> HIDE DEF r, l
  <2> QED
    BY <1>3, <2>2
<1> QED
  BY <1>1, <1>2, <1>4, BlocksLined

(* A function's line is about what its declaration, or its definition, put      *)
(* into the table.                                                           *)
LEMMA DefinitionLined ==
  ASSUME PInv, Lined, ReduceFunctionDefinition, Become(<<>>),
         emitted' = Append(emitted, DefinitionLine), definition' = 0
  PROVE  Lined' /\ Grows
<1> DEFINE T1 == symbol_table[1]
           e == emitted
           r == emitted'
           L == Len(e)
           a == DefinitionLine
           x == heap[definition].name
<1>1. /\ At("function_definition") /\ Running /\ expected # <<>>
      /\ Top.k = "function_definition"
      /\ heap' = heap /\ symbol_table' = symbol_table /\ declarators' = declarators
  BY DEF ReduceFunctionDefinition, At, Top, scopes
<1>2. /\ ~Ahead("external_declaration") /\ ~Ahead("external_declaration")'
      /\ ~Ahead("decl_glb_fct")
  BY <1>1, WrittenNext DEF Ahead
<1>3. definition \in DOMAIN heap /\ definition # 0
  BY <1>1, DefinitionMet, Objects
<1>4. /\ x \in DOMAIN T1 /\ heap[T1[x]].function
      /\ SignatureIn(heap, T1[x]) = SignatureIn(heap, definition)
  BY <1>2, <1>3 DEF Lined, DefinitionKnown
<1>5. a.op = "define" /\ a.name = x /\ a.signature = SignatureIn(heap, definition)
  BY LineWritten DEF DefinitionLine
<1> HIDE DEF a, x
<1>6. /\ IsTuple(r) /\ L \in Nat /\ DOMAIN e = 1..L /\ DOMAIN r = 1..L + 1
      /\ r[L + 1] = a /\ \A i \in 1..L : r[i] = e[i]
  <2>1. r = Append(e, a) /\ IsTuple(e)
    BY DEF a, Lined
  <2> HIDE DEF r, e
  <2> QED
    BY <2>1, Appended
<1> HIDE DEF r, e
<1>7. Grows
  BY <1>1, UnchangedGrows
<1>8. \A i \in DOMAIN r : (i \in DOMAIN e /\ r[i] = e[i]) \/ r[i] = a
  BY <1>6
<1>9. LinesNamed'
  <2>1. ASSUME NEW i \in DOMAIN r
        PROVE  /\ r[i].name \in DOMAIN T1
               /\ r[i].signature = SignatureIn(heap, T1[r[i].name])
               /\ r[i].op = "global" <=> ~heap[T1[r[i].name]].function
    <3>1. CASE i \in DOMAIN e /\ r[i] = e[i]
      BY <3>1 DEF Lined, LinesNamed, e
    <3>2. CASE r[i] = a
      BY <1>4, <1>5, <3>2
    <3> QED
      BY <1>8, <3>1, <3>2
  <2> QED
    BY <1>1, <2>1 DEF LinesNamed, r
<1>10. GlobalsOnce'
  <2>1. \A i \in DOMAIN r : r[i].op = "global" => i \in DOMAIN e /\ r[i] = e[i]
    BY <1>5, <1>8
  <2>2. ASSUME NEW i \in DOMAIN r, NEW j \in DOMAIN r, i # j,
               r[i].op = "global", r[j].op = "global"
        PROVE  r[i].name # r[j].name
    BY <2>1, <2>2 DEF Lined, GlobalsOnce, e
  <2> QED
    BY <2>2 DEF GlobalsOnce, r
<1>11. Apart' /\ Announced' /\ IsTuple(emitted')
  BY <1>1, <1>2, <1>6 DEF Lined, Apart, Announced, r
<1>12. NamesWritten'
  <2>1. ASSUME NEW y, HasLine(y)
        PROVE  \E i \in DOMAIN r : r[i].name = y
    BY <1>6, <2>1 DEF HasLine, e
  <2>2. \E i \in DOMAIN r : r[i].name = x
    <3>1. L + 1 \in DOMAIN r
      BY <1>6
    <3> QED
      BY <1>5, <1>6, <3>1
  <2>3. ASSUME NEW y \in DOMAIN T1
        PROVE  \E i \in DOMAIN r : r[i].name = y
    <3>1. HasLine(y) \/ y = x
      BY <1>2, <2>3 DEF Lined, NamesWritten, IsAnnounced, x
    <3> QED
      BY <2>1, <2>2, <3>1
  <2> QED
    BY <1>1, <2>3 DEF NamesWritten, HasLine, r
<1>13. DefinitionKnown'
  BY DEF DefinitionKnown
<1> QED
  BY <1>7, <1>9, <1>10, <1>11, <1>12, <1>13 DEF Lined

LEMMA DeclaratorLined ==
  ASSUME PInv, Lined, NEW x \in Names, Declarator(x)
  PROVE  Lined' /\ Grows
<1> DEFINE n == Len(heap)
           s == NewSymbol(x, "none")
<1>1. /\ At("declarator") /\ Become(<<>>) /\ heap' = Append(heap, NewSymbol(x, "none"))
      /\ declarators' = Append(declarators, Len(heap'))
      /\ UNCHANGED <<symbol_table, definition, emitted>>
  BY DEF Declarator
<1>2. Len(heap') = n + 1
  <2>1. IsTuple(heap) /\ heap' = Append(heap, s)
    BY <1>1, DataParts, Tuples DEF PInv, Parts, GoodHeap
  <2> HIDE DEF s
  <2> QED
    BY <2>1, Appended
<1>3. Elements(declarators') = Elements(declarators) \union {n + 1}
  <2>1. declarators \in Seq(1..n) /\ n \in Nat
    BY DataParts DEF PInv, Parts
  <2> QED
    BY <1>1, <1>2, <2>1, ListAppended
<1> QED
  BY <1>1, <1>3, SymbolLined

LEMMA DeclarationStepLined ==
  ASSUME PInv, Fresh, Nested(expected), Addressed, Lined, DeclarationStep
  PROVE  Lined' /\ Grows
<1>1. CASE \E extern \in 0..1 : ExpandDeclaration(extern)
  <2>1. /\ Quiet /\ At("program")
        /\ UNCHANGED <<heap, symbol_table, declarators, definition, emitted>>
    BY <1>1, DeclarationExpansions, Zenon DEF ExpandDeclaration, lists, scopes
  <2> QED
    BY <2>1, ExpandedLined
<1>2. CASE \E x \in Names : ExpandFunctionDefinition(x)
  <2>1. /\ Quiet /\ At("program")
        /\ UNCHANGED <<heap, symbol_table, declarators, definition, emitted>>
    BY <1>2, DeclarationExpansions, Zenon DEF ExpandFunctionDefinition, lists, scopes
  <2> QED
    BY <2>1, ExpandedLined
<1>3. CASE \E t \in Type : TypeSpecifier(t)
  <2>1. /\ At("type") /\ Become(<<>>)
        /\ UNCHANGED <<heap, symbol_table, declarators, definition, emitted>>
    BY <1>3, Zenon DEF TypeSpecifier, lists, scopes
  <2> QED
    BY <2>1, ReducedLined
<1>4. CASE \E x \in Names : Declarator(x) \/ ExpandFunctionDeclarator(x)
  <2>1. PICK x \in Names : Declarator(x) \/ ExpandFunctionDeclarator(x)
    BY <1>4
  <2>2. CASE Declarator(x)
    BY <2>2, DeclaratorLined
  <2>3. CASE ExpandFunctionDeclarator(x)
    <3>1. /\ Quiet /\ At("declarator")
          /\ UNCHANGED <<heap, symbol_table, declarators, definition, emitted>>
      BY <2>3, DeclarationExpansions, Zenon DEF ExpandFunctionDeclarator, lists, scopes
    <3> QED
      BY <3>1, ExpandedLined
  <2> QED
    BY <2>1, <2>2, <2>3
<1>5. CASE \E more \in BOOLEAN : DeclaratorList(more) \/ ParameterList(more)
  <2>1. Quiet /\ (At("declarator_list") \/ At("parameter_list"))
    BY <1>5, DeclarationExpansions, Zenon DEF DeclaratorList, ParameterList
  <2>2. UNCHANGED <<heap, symbol_table, declarators, definition, emitted>>
    BY <1>5, Zenon DEF DeclaratorList, ParameterList, lists, scopes
  <2> QED
    BY <2>1, <2>2, ExpandedLined
<1>6. CASE \E x \in Names : ParameterDeclaration(x)
  <2>1. PICK x \in Names : ParameterDeclaration(x)
    BY <1>6
  <2>2. /\ At("parameter_declaration") /\ Become(<<>>)
        /\ heap' = Append(heap, NewSymbol(x, Last(values)))
        /\ declarators' = declarators
        /\ UNCHANGED <<symbol_table, definition, emitted>>
    BY <2>1, Zenon DEF ParameterDeclaration
  <2>3. Elements(declarators') \subseteq Elements(declarators) \union {Len(heap) + 1}
    BY <2>2
  <2> QED
    BY <2>2, <2>3, SymbolLined
<1>7. CASE FunctionDeclarator
  BY <1>7, FunctionDeclaratorLined
<1>8. CASE ReduceDeclaration
  BY <1>8, DeclarationLined
<1>9. CASE RejectDeclaration \/ RejectDeclGlbFct
  <2>1. UNCHANGED <<expected, lists, scopes, emitted>>
    BY <1>9, Zenon DEF RejectDeclaration, RejectDeclGlbFct, Reject, Refuse
  <2> QED
    BY <2>1, HaltsLined
<1>10. CASE ReduceExternalDeclaration
  BY <1>10, ExternalDeclarationLined
<1>11. CASE ReduceDeclGlbFct
  BY <1>11, FunctionLined
<1>12. CASE ReduceFunctionDefinition
  <2>1. \/ /\ Become(<<>>) /\ definition' = 0
           /\ emitted' = Append(emitted, DefinitionLine)
        \/ UNCHANGED <<expected, lists, scopes, emitted>>
    BY <1>12 DEF ReduceFunctionDefinition, lists
  <2> QED
    BY <1>12, <2>1, DefinitionLined, HaltsLined
<1> QED
  BY <1>1, <1>2, <1>3, <1>4, <1>5, <1>6, <1>7, <1>8, <1>9, <1>10, <1>11, <1>12
     DEF DeclarationStep

LEMMA InstructionStepLined ==
  ASSUME PInv, Nested(expected), Lined, InstructionStep
  PROVE  Lined' /\ Grows
<1>1. CASE BlockStart \/ BlockEnd
  BY <1>1, BlockStartLined, BlockEndLined
<1>2. CASE \/ AppendInstruction \/ EmptyInstruction \/ ReduceInstruction \/ ReduceCondition
           \/ ReduceAssignment
  <2>1. UNCHANGED <<heap, symbol_table, declarators, definition, emitted>> /\ Become(<<>>)
    BY <1>2, Zenon DEF AppendInstruction, EmptyInstruction, ReduceInstruction,
       ReduceCondition, ReduceAssignment, Make, lists, scopes
  <2>2. \E k \in {"append", "instruction", "expression_instruction", "if", "if_else",
                  "while", "do", "for", "comparison", "assignment"} : At(k)
    BY <1>2, Zenon DEF AppendInstruction, EmptyInstruction, ReduceInstruction,
       ReduceCondition, ReduceAssignment, Make
  <2> QED
    BY <2>1, <2>2, ReducedLined
<1>3. CASE \E more \in BOOLEAN : DeclarationList(more) \/ InstructionList(more)
  <2>1. Quiet /\ (At("declaration_list") \/ At("instruction_list"))
    BY <1>3, BodyExpansions, Zenon DEF DeclarationList, InstructionList
  <2>2. UNCHANGED <<heap, symbol_table, declarators, definition, emitted>>
    BY <1>3, Zenon DEF DeclarationList, InstructionList, lists, scopes
  <2> QED
    BY <2>1, <2>2, ExpandedLined
<1>4. CASE ExpandInstruction
  <2>1. Quiet
    BY <1>4, InstructionExpansions
  <2>2. At("instruction") /\ UNCHANGED <<heap, symbol_table, declarators, definition, emitted>>
    BY <1>4, Zenon DEF ExpandInstruction, Expand, lists, scopes
  <2> QED
    BY <2>1, <2>2, ExpandedLined
<1>5. CASE \E ordering \in 0..1 : ExpandCondition(ordering)
  <2>1. /\ Quiet /\ At("condition")
        /\ UNCHANGED <<heap, symbol_table, declarators, definition, emitted>>
    BY <1>5, BodyExpansions, Zenon DEF ExpandCondition, Expand, lists, scopes
  <2> QED
    BY <2>1, ExpandedLined
<1>6. CASE RejectAssignment
  <2>1. UNCHANGED <<expected, lists, scopes, emitted>>
    BY <1>6, Zenon DEF RejectAssignment, Reject, Refuse
  <2> QED
    BY <2>1, HaltsLined
<1> QED
  BY <1>1, <1>2, <1>3, <1>4, <1>5, <1>6 DEF InstructionStep

LEMMA ExpressionStepLined ==
  ASSUME PInv, Nested(expected), Lined, ExpressionStep
  PROVE  Lined' /\ Grows
<1>1. CASE \/ \E t \in Type : Constant(t)
           \/ \E x \in Names : Identifier(x)
  <2>1. /\ At("expression") /\ Become(<<>>)
        /\ UNCHANGED <<heap, symbol_table, declarators, definition, emitted>>
    BY <1>1, Zenon DEF Constant, Identifier, Push, lists, scopes
  <2> QED
    BY <2>1, ReducedLined
<1>2. CASE ExpandExpression
  <2>1. Quiet
    BY <1>2, ExpressionExpansions
  <2>2. At("expression") /\ UNCHANGED <<heap, symbol_table, declarators, definition, emitted>>
    BY <1>2, Zenon DEF ExpandExpression, Expand, lists, scopes
  <2> QED
    BY <2>1, <2>2, ExpandedLined
<1>3. CASE ReduceOperator
  <2>1. At("unary") \/ At("plus") \/ At("other")
    BY <1>3, Zenon DEF ReduceOperator, WellTyped
  <2>2. Become(<<>>) /\ UNCHANGED <<heap, symbol_table, declarators, definition, emitted>>
    BY <1>3, Zenon DEF ReduceOperator, Make, lists, scopes
  <2> QED
    BY <2>1, <2>2, ReducedLined
<1>4. CASE ReduceCall
  <2>1. /\ At("call") /\ Become(<<>>)
        /\ UNCHANGED <<heap, symbol_table, declarators, definition, emitted>>
    BY <1>4, Zenon DEF ReduceCall, lists, scopes
  <2> QED
    BY <2>1, ReducedLined
<1>5. CASE RejectOperator \/ RejectCall \/ \E x \in Names : RejectIdentifier(x)
  <2>1. UNCHANGED <<expected, lists, scopes, emitted>>
    BY <1>5, Zenon DEF RejectOperator, RejectCall, RejectIdentifier, Reject, Refuse
  <2> QED
    BY <2>1, HaltsLined
<1> QED
  BY <1>1, <1>2, <1>3, <1>4, <1>5 DEF ExpressionStep

LEMMA StepLined ==
  ASSUME PInv, Fresh, Nested(expected), Addressed, Lined, [Next]_vars
  PROVE  Lined' /\ Grows
<1>1. CASE DeclarationStep \/ InstructionStep \/ ExpressionStep
  BY <1>1, DeclarationStepLined, InstructionStepLined, ExpressionStepLined
<1>2. CASE EndOfInput \/ SyntaxError \/ Stopped \/ UNCHANGED vars
  <2>1. UNCHANGED <<expected, lists, scopes, emitted>>
    BY <1>2, Zenon DEF EndOfInput, SyntaxError, Reject, Refuse, Stopped, vars
  <2> QED
    BY <2>1, HaltsLined
<1> QED
  BY <1>1, <1>2 DEF Next

LEMMA BeginsLined == Init => Lined
<1> SUFFICES ASSUME Init
             PROVE  Lined
  OBVIOUS
<1>1. /\ heap = <<>> /\ symbol_table = <<EmptyTable>> /\ definition = 0
      /\ emitted = <<>> /\ declarators = <<>>
      /\ expected = <<Item("program")>> /\ DOMAIN heap = {} /\ DOMAIN emitted = {}
  BY EmptySeq, ShortItems DEF Init
<1>2. DOMAIN symbol_table[1] = {}
  BY <1>1 DEF EmptyTable
<1>3. ~Ahead("external_declaration")
  <2> DEFINE a == Item("program")
  <2>1. a.k = "program" /\ expected = <<a>>
    BY <1>1, Symbols
  <2> HIDE DEF a
  <2> QED
    BY <2>1 DEF Ahead, Top
<1>4. IsTuple(emitted)
  BY <1>1, ShortTuples
<1>5. Apart /\ LinesNamed /\ GlobalsOnce
  BY <1>1 DEF Apart, LinesNamed, GlobalsOnce
<1>6. Announced /\ NamesWritten /\ DefinitionKnown
  BY <1>1, <1>2, <1>3 DEF Announced, NamesWritten, DefinitionKnown
<1> QED
  BY <1>4, <1>5, <1>6 DEF Lined

LEMMA LinesKept == Spec => [](PInv /\ Fresh /\ Nested(expected) /\ Addressed /\ Lined)
<1>1. PInv /\ Fresh /\ Nested(expected) /\ Addressed /\ Lined /\ [Next]_vars => Lined'
  BY StepLined
<1>2. Init => Lined
  BY BeginsLined
<1> QED
  BY <1>1, <1>2, AddressesKept, PTL DEF Spec

(* A variable has one line in the output, and all the lines of a function have  *)
(* one signature: what a declaration or a definition adds was compared with     *)
(* the table, in which the first line's symbol stays.                         *)
THEOREM LinesAlwaysAgree == Spec => []LinesAgree
<1>1. Lined => LinesAgree
  <2> SUFFICES ASSUME Lined, NEW i \in DOMAIN emitted, NEW j \in DOMAIN emitted,
                      i # j, emitted[i].name = emitted[j].name
               PROVE  /\ "global" \notin {emitted[i].op, emitted[j].op}
                      /\ emitted[i].signature = emitted[j].signature
    BY DEF LinesAgree
  <2> DEFINE s == symbol_table[1][emitted[i].name]
  <2>1. /\ emitted[i].signature = SignatureIn(heap, s)
        /\ emitted[i].op = "global" <=> ~heap[s].function
        /\ emitted[j].signature = SignatureIn(heap, s)
        /\ emitted[j].op = "global" <=> ~heap[s].function
    BY DEF Lined, LinesNamed
  <2>2. ~(emitted[i].op = "global" /\ emitted[j].op = "global")
    BY DEF Lined, GlobalsOnce
  <2> HIDE DEF s
  <2> QED
    BY <2>1, <2>2
<1> QED
  BY <1>1, LinesKept, PTL

LEMMA NoneDefined ==
  ASSUME PInv, At("program")
  PROVE  definition = 0
<1>1. PICK u, m \in Situation : Matches(u) /\ Effect(Top, u, m)
  BY Facing DEF At
<1>2. u = Start
  <2> DEFINE it == Top
  <2>1. it.k = "program" /\ Effect(it, u, m)
    BY <1>1 DEF At, Top
  <2> HIDE DEF it
  <2> QED
    BY <2>1 DEF Effect, Passes, Works, Anywhere, InBody
<1> QED
  BY <1>1, <1>2 DEF Matches, Start, Sit

(* Between external declarations every global name has a line with its         *)
(* signature, and no other name has one: what is added to the table is written  *)
(* at the end of its declaration, or of its definition, and nothing else is.     *)
THEOREM TableAlwaysMatchesOutput == Spec => []TableMatchesOutput
<1>1. PInv /\ Lined => TableMatchesOutput
  <2> SUFFICES ASSUME PInv, Lined, At("program")
               PROVE  /\ \A x \in DOMAIN symbol_table[1] : \E i \in DOMAIN emitted :
                           /\ emitted[i].name = x
                           /\ emitted[i].signature = Signature(symbol_table[1][x])
                      /\ \A i \in DOMAIN emitted : emitted[i].name \in DOMAIN symbol_table[1]
    BY DEF TableMatchesOutput
  <2>1. definition = 0 /\ ~Ahead("external_declaration")
    BY NoneDefined DEF At, Ahead, Top
  <2>2. ASSUME NEW x \in DOMAIN symbol_table[1]
        PROVE  \E i \in DOMAIN emitted :
                 /\ emitted[i].name = x
                 /\ emitted[i].signature = Signature(symbol_table[1][x])
    <3>1. PICK i \in DOMAIN emitted : emitted[i].name = x
      BY <2>1, <2>2 DEF Lined, NamesWritten, IsAnnounced, HasLine
    <3>2. emitted[i].signature = SignatureIn(heap, symbol_table[1][x])
      BY <3>1 DEF Lined, LinesNamed
    <3> QED
      BY <3>1, <3>2 DEF SignatureIn, Signature, ArgTypes
  <2> QED
    BY <2>2 DEF Lined, LinesNamed
<1> QED
  BY <1>1, LinesKept, PTL

(* What a step adds to the output.                                           *)
LEMMA StepWrites ==
  ASSUME [Next]_vars
  PROVE  \/ UNCHANGED <<emitted, calls>>
         \/ ReduceCall \/ ReduceExternalDeclaration \/ ReduceFunctionDefinition
<1>1. CASE \/ \E extern \in 0..1 : ExpandDeclaration(extern)
           \/ \E x \in Names : ExpandFunctionDefinition(x)
           \/ \E t \in Type : TypeSpecifier(t)
           \/ \E x \in Names : Declarator(x) \/ ExpandFunctionDeclarator(x)
           \/ \E more \in BOOLEAN : DeclaratorList(more) \/ ParameterList(more)
           \/ \E x \in Names : ParameterDeclaration(x)
           \/ FunctionDeclarator \/ ReduceDeclaration \/ RejectDeclaration
           \/ ReduceDeclGlbFct \/ RejectDeclGlbFct
  <2>1. UNCHANGED <<emitted, calls>>
    BY <1>1, Zenon DEF ExpandDeclaration, ExpandFunctionDefinition, TypeSpecifier,
       Declarator, ExpandFunctionDeclarator, DeclaratorList, ParameterList,
       ParameterDeclaration, FunctionDeclarator, ReduceDeclaration, RejectDeclaration,
       ReduceDeclGlbFct, RejectDeclGlbFct, Reject, Refuse
  <2> QED
    BY <2>1
<1>2. CASE InstructionStep
  <2>1. UNCHANGED <<emitted, calls>>
    BY <1>2, Zenon DEF InstructionStep, BlockStart, BlockEnd, AppendInstruction,
       DeclarationList, InstructionList, EmptyInstruction, ExpandInstruction,
       ReduceInstruction, ExpandCondition, ReduceCondition, ReduceAssignment,
       RejectAssignment, Expand, Make, Reject, Refuse
  <2> QED
    BY <2>1
<1>3. CASE \/ \E t \in Type : Constant(t)
           \/ \E x \in Names : Identifier(x) \/ RejectIdentifier(x)
           \/ ExpandExpression \/ ReduceOperator \/ RejectOperator \/ RejectCall
  <2>1. UNCHANGED <<emitted, calls>>
    BY <1>3, Zenon DEF Constant, Identifier, RejectIdentifier, ExpandExpression,
       ReduceOperator, RejectOperator, RejectCall, Push, Expand, Make, Reject, Refuse
  <2> QED
    BY <2>1
<1>4. CASE EndOfInput \/ SyntaxError \/ Stopped \/ UNCHANGED vars
  <2>1. UNCHANGED <<emitted, calls>>
    BY <1>4, Zenon DEF EndOfInput, SyntaxError, Reject, Refuse, Stopped, vars
  <2> QED
    BY <2>1
<1> QED
  BY <1>1, <1>2, <1>3, <1>4
     DEF Next, DeclarationStep, ExpressionStep

-----------------------------------------------------------------------------
(* Calls.  The functions in the tables are in the outermost one: none is        *)
(* declared inside a block.                                                  *)
FunctionsOutermost ==
  \A i \in DOMAIN symbol_table :
    i > 1 => \A s \in Elements(symbol_table[i]) : ~heap[s].function

(* The calls of the function being parsed agree with the outermost table.      *)
CallsKnown ==
  \A c \in calls : /\ c.name \in DOMAIN symbol_table[1]
                   /\ c.signature = SignatureIn(heap, symbol_table[1][c.name])

LEMMA KnownCallsStay ==
  ASSUME CallsKnown, Grows, calls' = calls
  PROVE  CallsKnown'
<1>1. ASSUME NEW c \in calls
      PROVE  /\ c.name \in DOMAIN symbol_table'[1]
             /\ c.signature = SignatureIn(heap', symbol_table'[1][c.name])
  <2> DEFINE s == symbol_table[1][c.name]
  <2>1. c.name \in DOMAIN symbol_table[1] /\ c.signature = SignatureIn(heap, s)
    BY DEF CallsKnown
  <2>2. s \in Outermost
    BY <2>1 DEF Outermost, Elements
  <2>3. /\ c.name \in DOMAIN symbol_table'[1] /\ symbol_table'[1][c.name] = s
        /\ SignatureIn(heap', s) = SignatureIn(heap, s)
    BY <2>1, <2>2 DEF Grows, Same
  <2> HIDE DEF s
  <2> QED
    BY <2>1, <2>3
<1> QED
  BY <1>1 DEF CallsKnown

LEMMA CallKnown ==
  ASSUME PInv, FunctionsOutermost, CallsKnown, ReduceCall
  PROVE  CallsKnown'
<1> DEFINE x == Top.name
           n == Len(symbol_table)
           i == InnermostWith(x, n)
           s == symbol_table[i][x]
           c == CallLine(x, Top.n)
<1>1. /\ is_visible(x) /\ heap[s].function /\ ArgTypes(s) = Arguments(Top.n)
      /\ calls' = calls \union {c} /\ heap' = heap /\ symbol_table' = symbol_table
  BY DEF ReduceCall, Callable, lookup, lookup_from, scopes
<1>2. i \in DOMAIN symbol_table /\ x \in DOMAIN symbol_table[i] /\ i \in Nat /\ i >= 1
  <2>1. n \in Nat /\ DOMAIN symbol_table = 1..n
    BY Chained
  <2>2. \E k \in 1..n : x \in DOMAIN symbol_table[k]
    BY <1>1, <2>1 DEF is_visible
  <2>3. i \in 1..n /\ x \in DOMAIN symbol_table[i]
    BY <2>1, <2>2, InnermostFound
  <2> HIDE DEF i
  <2> QED
    BY <2>1, <2>3
<1>3. c.name = x /\ c.signature = SignatureIn(heap, s)
  BY <1>1 DEF CallLine, lookup, lookup_from, SignatureIn, ArgTypes
<1> HIDE DEF c, x, i
<1>4. i = 1
  <2>1. s \in Elements(symbol_table[i])
    BY <1>2 DEF Elements
  <2> HIDE DEF s
  <2>2. ~(i > 1)
    BY <1>1, <1>2, <2>1 DEF FunctionsOutermost
  <2> QED
    BY <1>2, <2>2
<1>5. c.name \in DOMAIN symbol_table[1] /\ c.signature = SignatureIn(heap, symbol_table[1][c.name])
  BY <1>2, <1>3, <1>4
<1> QED
  BY <1>1, <1>5 DEF CallsKnown

(* When lines are added, a call that agrees with the table is of a name with a  *)
(* line, for no external declaration is then under way.                        *)
LEMMA CallsWritten ==
  ASSUME PInv, Lined, Lined', Grows, CallsKnown, CallsMatchLines, [Next]_vars
  PROVE  CallsMatchLines'
<1> DEFINE e == emitted
           r == emitted'
<1>1. IsTuple(e)
  BY DEF Lined
<1>2. CASE emitted' = emitted
  BY <1>2 DEF CallsMatchLines
<1>3. CASE ReduceExternalDeclaration
  <2> DEFINE D == DeclarationLines
  <2>1. r = e \o D
    BY <1>3 DEF ReduceExternalDeclaration
  <2>2. /\ IsTuple(D) /\ \A k \in DOMAIN declarators : D[Place(k)] = LineOf(k)
        /\ \A m \in DOMAIN D : \E k \in DOMAIN declarators : Place(k) = m
    BY LinesOfDeclarators
  <2>3. \A k : LineOf(k).calls = {}
    BY LineWritten DEF LineOf
  <2> HIDE DEF D
  <2>4. \A m \in DOMAIN D : D[m].calls = {}
    BY <2>2, <2>3
  <2>5. IsJoined(e, D, e \o D)
    BY <1>1, <2>2, Joined
  <2>6. IsJoined(e, D, r)
    <3> HIDE DEF e, r
    <3> QED
      BY <2>1, <2>5
  <2> HIDE DEF r, e
  <2>7. \A i \in DOMAIN r : (i \in DOMAIN e /\ r[i] = e[i]) \/ r[i].calls = {}
    BY <2>4, <2>6 DEF IsJoined
  <2>8. \A j \in DOMAIN e : j \in DOMAIN r /\ r[j] = e[j]
    <3>1. /\ Len(e) \in Nat /\ Len(D) \in Nat /\ DOMAIN e = 1..Len(e)
          /\ DOMAIN r = 1..Len(e) + Len(D) /\ \A j \in DOMAIN e : r[j] = e[j]
      BY <2>6 DEF IsJoined
    <3> QED
      BY <3>1
  <2>9. ASSUME NEW i \in DOMAIN r, NEW c \in r[i].calls
        PROVE  \E j \in DOMAIN r : r[j].name = c.name /\ r[j].signature = c.signature
    <3>1. i \in DOMAIN e /\ r[i] = e[i]
      BY <2>7, <2>9
    <3>2. PICK j \in DOMAIN e : e[j].name = c.name /\ e[j].signature = c.signature
      BY <2>9, <3>1 DEF CallsMatchLines, e
    <3> QED
      BY <2>8, <3>2
  <2> QED
    BY <2>9 DEF CallsMatchLines, r
<1>4. CASE ReduceFunctionDefinition /\ emitted' # emitted
  <2> DEFINE a == DefinitionLine
  <2>1. /\ r = Append(e, a) /\ Become(<<>>) /\ definition' = 0
        /\ Running /\ expected # <<>> /\ Top.k = "function_definition"
    BY <1>4 DEF ReduceFunctionDefinition, At, Top
  <2>2. ~Ahead("external_declaration")'
    BY <2>1, WrittenNext
  <2>3. a.calls = calls
    BY LineWritten DEF DefinitionLine
  <2> HIDE DEF a, r, e
  <2>4. /\ Len(e) \in Nat /\ DOMAIN e = 1..Len(e) /\ DOMAIN r = 1..Len(e) + 1
        /\ r[Len(e) + 1] = a /\ \A i \in 1..Len(e) : r[i] = e[i]
    BY <1>1, <2>1, Appended DEF e
  <2>5. \A i \in DOMAIN r : (i \in DOMAIN e /\ r[i] = e[i]) \/ r[i] = a
    BY <2>4
  <2>6. \A j \in DOMAIN e : j \in DOMAIN r /\ r[j] = e[j]
    BY <2>4
  <2>7. ASSUME NEW c \in calls
        PROVE  \E j \in DOMAIN r : r[j].name = c.name /\ r[j].signature = c.signature
    <3> DEFINE s == symbol_table[1][c.name]
    <3>1. c.name \in DOMAIN symbol_table[1] /\ c.signature = SignatureIn(heap, s)
      BY DEF CallsKnown
    <3>2. s \in Outermost
      BY <3>1 DEF Outermost, Elements
    <3>3. /\ c.name \in DOMAIN symbol_table'[1] /\ symbol_table'[1][c.name] = s
          /\ SignatureIn(heap', s) = c.signature
      BY <3>1, <3>2 DEF Grows, Same
    <3> HIDE DEF s
    <3>4. \E j \in DOMAIN r : r[j].name = c.name
      BY <2>1, <2>2, <3>3 DEF Lined, NamesWritten, IsAnnounced, HasLine, r
    <3>5. PICK j \in DOMAIN r : r[j].name = c.name
      BY <3>4
    <3>6. r[j].signature = SignatureIn(heap', symbol_table'[1][r[j].name])
      BY <3>5 DEF Lined, LinesNamed, r
    <3> QED
      BY <3>3, <3>5, <3>6
  <2>8. ASSUME NEW i \in DOMAIN r, NEW c \in r[i].calls
        PROVE  \E j \in DOMAIN r : r[j].name = c.name /\ r[j].signature = c.signature
    <3>1. CASE r[i] = a
      BY <2>3, <2>7, <2>8, <3>1
    <3>2. CASE i \in DOMAIN e /\ r[i] = e[i]
      <4>1. PICK j \in DOMAIN e : e[j].name = c.name /\ e[j].signature = c.signature
        BY <2>8, <3>2 DEF CallsMatchLines, e
      <4> QED
        BY <2>6, <4>1
    <3> QED
      BY <2>5, <3>1, <3>2
  <2> QED
    BY <2>8 DEF CallsMatchLines, r
<1>5. CASE ReduceCall
  <2>1. emitted' = emitted
    BY <1>5 DEF ReduceCall
  <2> QED
    BY <1>2, <2>1
<1> QED
  BY <1>2, <1>3, <1>4, <1>5, StepWrites

(* As long as no function is declared inside a block, a call is written with    *)
(* the signature of a line of its callee: the comparison of a call's arguments  *)
(* with what its name means when it is parsed suffices, since that meaning      *)
(* stays in the outermost table, and all of that table is written by the time    *)
(* the calling function is.                                                  *)
THEOREM CallsAlwaysMatchLines == Spec /\ []FunctionsOutermost => []CallsMatchLines
<1> DEFINE I == PInv /\ Fresh /\ Nested(expected) /\ Addressed /\ Lined
           C == CallsKnown /\ CallsMatchLines
<1>1. Init => C
  <2> SUFFICES ASSUME Init
               PROVE  C
    OBVIOUS
  <2>1. calls = {} /\ DOMAIN emitted = {}
    BY ShortItems DEF Init
  <2> QED
    BY <2>1 DEF CallsKnown, CallsMatchLines
<1>2. ASSUME I, C, FunctionsOutermost, [Next]_vars
      PROVE  C'
  <2>1. Lined' /\ Grows
    BY <1>2, StepLined
  <2>2. CallsMatchLines'
    BY <1>2, <2>1, CallsWritten
  <2>3. CASE calls' = calls
    BY <1>2, <2>1, <2>2, <2>3, KnownCallsStay
  <2>4. CASE calls' = {}
    BY <2>2, <2>4 DEF CallsKnown
  <2>5. CASE ReduceCall
    BY <1>2, <2>2, <2>5, CallKnown
  <2>6. calls' = calls \/ calls' = {} \/ ReduceCall
    BY <1>2, StepWrites DEF ReduceExternalDeclaration, ReduceFunctionDefinition
  <2> QED
    BY <2>2, <2>3, <2>4, <2>5, <2>6
<1>3. I /\ C /\ FunctionsOutermost /\ [Next]_vars => C'
  BY <1>2
<1>4. C => CallsMatchLines
  OBVIOUS
<1> QED
  BY <1>1, <1>3, <1>4, LinesKept, PTL DEF Spec

-----------------------------------------------------------------------------
(* Without declarations in blocks no function is declared there: a block's     *)
(* table then holds the parameters of its function, or nothing.               *)

Undeclaring(s) == \A i \in DOMAIN s : ~(s[i].k = "declaration" /\ s[i].name = "local")

LEMMA UndeclaringJoined ==
  ASSUME NEW s, NEW t, IsTuple(s), IsTuple(t), Undeclaring(s), Undeclaring(t)
  PROVE  Undeclaring(s \o t)
<1> DEFINE u == s \o t
<1>1. IsJoined(s, t, u)
  BY Joined
<1> HIDE DEF u
<1>2. Undeclaring(u)
  BY <1>1 DEF IsJoined, Undeclaring
<1> QED
  BY <1>2 DEF u

LEMMA StepUndeclaring ==
  ASSUME PInv, "local_declaration" \notin Rules, Undeclaring(expected), [Next]_vars
  PROVE  Undeclaring(expected')
<1>1. ASSUME NEW items, Tagged(items, {"plain", "global"})
      PROVE  IsTuple(items) /\ Undeclaring(items)
  BY <1>1 DEF Tagged, Tag, Local, Undeclaring
<1>2. ASSUME expected # <<>>
      PROVE  IsTuple(Tail(expected)) /\ Undeclaring(Tail(expected))
  <2> DEFINE t == Tail(expected)
             h == <<Head(expected)>>
  <2>1. IsTuple(expected)
    BY DEF PInv, IsSentence
  <2>2. expected = h \o t /\ IsTuple(t) /\ IsTuple(h) /\ Len(h) = 1
    BY <1>2, <2>1, HeadAndRest, ShortTuples
  <2>3. IsJoined(h, t, expected)
    BY <2>2, Joined
  <2> HIDE DEF t, h
  <2>4. \A i \in DOMAIN t : i + 1 \in DOMAIN expected /\ expected[i + 1] = t[i]
    BY <2>2, <2>3 DEF IsJoined
  <2> QED
    BY <2>2, <2>4 DEF Undeclaring, t
<1>3. CASE expected' = expected
  BY <1>3
<1>4. ASSUME NEW items, expected # <<>>, Become(items), Tagged(items, {"plain"})
      PROVE  Undeclaring(expected')
  <2>1. Tagged(items, {"plain", "global"})
    BY <1>4 DEF Tagged
  <2> QED
    BY <1>1, <1>2, <1>4, <2>1, UndeclaringJoined DEF Become
<1>5. ASSUME NEW items, expected' = items \o expected, Tagged(items, {"plain", "global"})
      PROVE  Undeclaring(expected')
  <2>1. IsTuple(expected)
    BY DEF PInv, IsSentence
  <2> QED
    BY <1>1, <1>5, <2>1, UndeclaringJoined
<1>6. CASE BlockStart
  <2> DEFINE a == Item("declaration_list")
             b == Item("instruction_list")
             c == Item("block_end")
             s == <<a, b, c>>
  <2>1. expected # <<>> /\ expected' = s \o Tail(expected)
    BY <1>6 DEF BlockStart, At, Become
  <2>2. a.k = "declaration_list" /\ b.k = "instruction_list" /\ c.k = "block_end"
    BY Symbols
  <2> HIDE DEF a, b, c
  <2>3. IsTuple(s) /\ DOMAIN s = 1..3 /\ s[1] = a /\ s[2] = b /\ s[3] = c
    BY ShortTuples
  <2> HIDE DEF s
  <2>4. Undeclaring(s)
    BY <2>2, <2>3 DEF Undeclaring
  <2> QED
    BY <1>2, <2>1, <2>3, <2>4, UndeclaringJoined
<1>7. ~DeclarationList(TRUE)
  BY DEF DeclarationList, Grow, Has
<1> QED
  BY <1>3, <1>4, <1>5, <1>6, <1>7, StepRewrites DEF Rewrites

LEMMA ObjectsChange ==
  ASSUME [Next]_vars
  PROVE  \/ \E x \in Names : Declarator(x) \/ ParameterDeclaration(x)
         \/ FunctionDeclarator \/ ReduceDeclaration \/ ReduceExternalDeclaration
         \/ UNCHANGED <<heap, parameters>>
<1>1. ASSUME Refuse
      PROVE  UNCHANGED <<heap, parameters>>
  BY <1>1 DEF Refuse, scopes, lists
<1>2. CASE DeclarationStep
  <2>1. CASE \/ \E x \in Names : Declarator(x) \/ ParameterDeclaration(x)
             \/ FunctionDeclarator \/ ReduceDeclaration \/ ReduceExternalDeclaration
    BY <2>1
  <2>2. CASE RejectDeclaration \/ RejectDeclGlbFct
    BY <1>1, <2>2 DEF RejectDeclaration, RejectDeclGlbFct, Reject
  <2>3. CASE \/ \E extern \in 0..1 : ExpandDeclaration(extern)
             \/ \E x \in Names : ExpandFunctionDefinition(x)
             \/ \E t \in Type : TypeSpecifier(t)
             \/ \E x \in Names : ExpandFunctionDeclarator(x)
             \/ \E more \in BOOLEAN : DeclaratorList(more) \/ ParameterList(more)
    BY <2>3, Zenon DEF ExpandDeclaration, ExpandFunctionDefinition, TypeSpecifier,
       ExpandFunctionDeclarator, DeclaratorList, ParameterList, scopes, lists
  <2>4. CASE ReduceDeclGlbFct \/ ReduceFunctionDefinition
    BY <2>4, Zenon DEF ReduceDeclGlbFct, ReduceFunctionDefinition, scopes, lists
  <2> QED
    BY <1>2, <2>1, <2>2, <2>3, <2>4 DEF DeclarationStep
<1>3. CASE InstructionStep
  <2>1. CASE BlockStart \/ BlockEnd
    BY <2>1, Zenon DEF BlockStart, BlockEnd, lists
  <2>2. CASE \/ AppendInstruction \/ EmptyInstruction \/ ReduceInstruction \/ ReduceCondition
             \/ ReduceAssignment
    BY <2>2, Zenon DEF AppendInstruction, EmptyInstruction, ReduceInstruction,
       ReduceCondition, ReduceAssignment, Make, scopes, lists
  <2>3. CASE \/ \E more \in BOOLEAN : DeclarationList(more) \/ InstructionList(more)
             \/ \E ordering \in 0..1 : ExpandCondition(ordering)
             \/ ExpandInstruction
    BY <2>3, Zenon DEF DeclarationList, InstructionList, ExpandCondition, ExpandInstruction,
       Expand, scopes, lists
  <2>4. CASE RejectAssignment
    BY <1>1, <2>4 DEF RejectAssignment, Reject
  <2> QED
    BY <1>3, <2>1, <2>2, <2>3, <2>4 DEF InstructionStep
<1>4. CASE ExpressionStep
  <2>1. CASE \/ \E t \in Type : Constant(t)
             \/ \E x \in Names : Identifier(x)
             \/ ExpandExpression \/ ReduceOperator \/ ReduceCall
    BY <2>1, Zenon DEF Constant, Identifier, Push, ExpandExpression, Expand, ReduceOperator,
       Make, ReduceCall, scopes, lists
  <2>2. CASE RejectOperator \/ RejectCall \/ \E x \in Names : RejectIdentifier(x)
    BY <1>1, <2>2 DEF RejectOperator, RejectCall, RejectIdentifier, Reject
  <2> QED
    BY <1>4, <2>1, <2>2 DEF ExpressionStep
<1>5. CASE EndOfInput \/ SyntaxError \/ Stopped \/ UNCHANGED vars
  BY <1>1, <1>5, Zenon DEF EndOfInput, SyntaxError, Reject, Stopped, vars, scopes, lists
<1> QED
  BY <1>2, <1>3, <1>4, <1>5 DEF Next

(* A step keeps what objects are; a new one has the parameters read before it.  *)
Alike(o, p) == p.name = o.name /\ p.function = o.function /\ p.args = o.args

ObjectsGrow ==
  /\ \A i \in 1..Len(heap) : i \in DOMAIN heap' /\ Alike(heap[i], heap'[i])
  /\ \A i \in DOMAIN heap' : i \in 1..Len(heap) \/ heap'[i].args \in {<<>>, parameters}
  /\ \A a \in Elements(parameters') : a \in Elements(parameters) \/ ~heap'[a].function

LEMMA SymbolGrows ==
  ASSUME PInv, NEW x, NEW t, heap' = Append(heap, NewSymbol(x, t)),
         parameters' \in {parameters, Append(parameters, Len(heap'))}
  PROVE  ObjectsGrow
<1> DEFINE n == Len(heap)
           s == NewSymbol(x, t)
           r == Append(heap, s)
<1>1. s.args = <<>> /\ s.function = FALSE
  BY DEF NewSymbol
<1> HIDE DEF s
<1>2. IsTuple(heap) /\ heap' = r
  BY DataParts, Tuples DEF PInv, Parts, GoodHeap, s
<1>3. /\ DOMAIN r = 1..n + 1 /\ r[n + 1] = s /\ Len(r) = n + 1
      /\ \A i \in 1..n : r[i] = heap[i]
  BY <1>2, Appended
<1> HIDE DEF r
<1>4. n \in Nat /\ parameters \in Seq(1..n)
  BY DataParts, Objects DEF PInv, Parts
<1>5. Elements(parameters') \subseteq Elements(parameters) \union {n + 1}
  <2>1. Elements(Append(parameters, n + 1)) = Elements(parameters) \union {n + 1}
    BY <1>4, ListAppended
  <2> QED
    BY <1>2, <1>3, <2>1
<1>6. \A i \in 1..n : i \in DOMAIN r /\ Alike(heap[i], r[i])
  BY <1>3, <1>4 DEF Alike
<1>7. \A i \in DOMAIN r : i \in 1..n \/ r[i].args = <<>>
  BY <1>1, <1>3, <1>4
<1>8. \A a \in Elements(parameters') : a \in Elements(parameters) \/ ~r[a].function
  BY <1>1, <1>3, <1>5
<1> QED
  BY <1>2, <1>6, <1>7, <1>8 DEF ObjectsGrow

LEMMA FunctionGrows ==
  ASSUME PInv, FunctionDeclarator
  PROVE  ObjectsGrow
<1> DEFINE n == Len(heap)
           A == {"FUNCTION_PARAM"}
           E == Elements(parameters)
           g == Attributed(heap, E, A)
           s == NewFunction(Top.name, ReturnType, parameters)
           r == Append(g, s)
<1>1. heap' = r /\ parameters' = <<>>
  BY DEF FunctionDeclarator, Attributed
<1>2. s.args = parameters
  BY DEF NewFunction, NewSymbol
<1> HIDE DEF s
<1>3. /\ IsTuple(g) /\ Len(g) = n
      /\ \A i \in 1..n : Alike(heap[i], g[i])
  <2>1. A \in SUBSET {"GLOBAL", "EXTERN", "FUNCTION_PARAM"} /\ GoodHeap(heap)
    BY DataParts DEF PInv, Parts
  <2> HIDE DEF A, E
  <2>2. /\ GoodHeap(g) /\ Len(g) = n
        /\ \A i \in 1..n : Alike(heap[i], g[i])
    BY <2>1, AttributesAdded DEF Alike
  <2> HIDE DEF g
  <2> QED
    BY <2>2, Tuples DEF GoodHeap
<1> HIDE DEF g
<1>4. /\ DOMAIN r = 1..n + 1 /\ r[n + 1] = s /\ \A i \in 1..n : r[i] = g[i]
  BY <1>3, Appended
<1> HIDE DEF r
<1>5. n \in Nat /\ Elements(<<>>) = {}
  BY Objects, ShortItems DEF Elements
<1>6. \A i \in 1..n : i \in DOMAIN r /\ Alike(heap[i], r[i])
  BY <1>3, <1>4, <1>5
<1>7. \A i \in DOMAIN r : i \in 1..n \/ r[i].args = parameters
  BY <1>2, <1>4, <1>5
<1>8. Elements(parameters') = {}
  BY <1>1, <1>5
<1> QED
  BY <1>1, <1>6, <1>7, <1>8 DEF ObjectsGrow

LEMMA StepGrows ==
  ASSUME PInv, [Next]_vars
  PROVE  ObjectsGrow
<1> DEFINE n == Len(heap)
           D == Elements(declarators)
<1>1. DOMAIN heap = 1..n
  BY Objects
<1>2. ASSUME DOMAIN heap' = 1..n, parameters' = parameters,
             \A i \in 1..n : Alike(heap[i], heap'[i])
      PROVE  ObjectsGrow
  BY <1>2 DEF ObjectsGrow
<1>3. CASE UNCHANGED <<heap, parameters>>
  BY <1>1, <1>2, <1>3 DEF Alike
<1>4. CASE ReduceDeclaration
  <2> DEFINE h == heap'
             v == Last(values)
  <2>1. /\ Running /\ expected # <<>> /\ Top.k = "declaration" /\ parameters' = parameters
        /\ h = Retyped(heap, D, v)
        /\ values' = Front(values) /\ unclaimed_types_' = Front(unclaimed_types_)
    BY <1>4 DEF ReduceDeclaration, At, Top, Retyped
  <2>2. v \in Type /\ GoodHeap(heap)
    BY <2>1, DeclarationMet, DataParts DEF PInv, Parts
  <2> HIDE DEF D, h, v
  <2>3. DOMAIN h = 1..n /\ \A i \in 1..n : Alike(heap[i], h[i])
    BY <2>1, <2>2, TypesTaken DEF Alike
  <2> QED
    BY <1>2, <2>1, <2>3 DEF h
<1>5. CASE ReduceExternalDeclaration
  <2> DEFINE h == heap'
             A == AttributesOf(Top.n)
  <2>1. parameters' = parameters /\ h = Attributed(heap, D, A)
    BY <1>5 DEF ReduceExternalDeclaration, Attributed
  <2>2. A \in SUBSET {"GLOBAL", "EXTERN", "FUNCTION_PARAM"} /\ GoodHeap(heap)
    BY DataParts DEF PInv, Parts, AttributesOf
  <2> HIDE DEF D, h, A
  <2>3. DOMAIN h = 1..n /\ \A i \in 1..n : Alike(heap[i], h[i])
    BY <2>1, <2>2, AttributesAdded DEF Alike
  <2> QED
    BY <1>2, <2>1, <2>3 DEF h
<1>6. CASE \E x \in Names : Declarator(x) \/ ParameterDeclaration(x)
  <2>1. PICK x \in Names : Declarator(x) \/ ParameterDeclaration(x)
    BY <1>6
  <2>2. CASE Declarator(x)
    <3>1. heap' = Append(heap, NewSymbol(x, "none")) /\ parameters' = parameters
      BY <2>2, Zenon DEF Declarator
    <3> QED
      BY <3>1, SymbolGrows
  <2>3. CASE ParameterDeclaration(x)
    <3>1. /\ heap' = Append(heap, NewSymbol(x, Last(values)))
          /\ parameters' = Append(parameters, Len(heap'))
      BY <2>3, Zenon DEF ParameterDeclaration
    <3> QED
      BY <3>1, SymbolGrows
  <2> QED
    BY <2>1, <2>2, <2>3
<1>7. CASE FunctionDeclarator
  BY <1>7, FunctionGrows
<1> QED
  BY <1>3, <1>4, <1>5, <1>6, <1>7, ObjectsChange

(* Parameters are no functions.                                              *)
VariableParameters ==
  /\ \A a \in Elements(parameters) : ~heap[a].function
  /\ \A s \in DOMAIN heap : \A a \in Elements(heap[s].args) : ~heap[a].function

LEMMA StepVariableParameters ==
  ASSUME PInv, VariableParameters, [Next]_vars
  PROVE  VariableParameters'
<1> DEFINE n == Len(heap)
<1>1. /\ DOMAIN heap = 1..n /\ Elements(parameters) \subseteq 1..n
      /\ \A s \in 1..n : Elements(heap[s].args) \subseteq 1..n
  BY Objects
<1>2. ObjectsGrow /\ Elements(<<>>) = {}
  BY StepGrows, ShortItems DEF Elements
<1>3. \A a \in Elements(parameters) : ~heap'[a].function
  BY <1>1, <1>2 DEF ObjectsGrow, Alike, VariableParameters
<1>4. \A a \in Elements(parameters') : ~heap'[a].function
  BY <1>2, <1>3 DEF ObjectsGrow, Alike
<1>5. ASSUME NEW s \in DOMAIN heap', NEW a \in Elements(heap'[s].args)
      PROVE  ~heap'[a].function
  <2>1. CASE s \in 1..n
    <3>1. heap'[s].args = heap[s].args
      BY <1>2, <2>1 DEF ObjectsGrow, Alike
    <3>2. a \in 1..n /\ ~heap[a].function
      BY <1>1, <1>5, <2>1, <3>1 DEF VariableParameters
    <3> QED
      BY <1>2, <3>2 DEF ObjectsGrow, Alike
  <2>2. CASE heap'[s].args = <<>>
    BY <1>2, <1>5, <2>2
  <2>3. CASE heap'[s].args = parameters
    BY <1>3, <1>5, <2>3
  <2> QED
    BY <1>2, <2>1, <2>2, <2>3 DEF ObjectsGrow, Alike
<1> QED
  BY <1>4, <1>5 DEF VariableParameters

LEMMA FunctionsStayOutermost ==
  ASSUME PInv, FunctionsOutermost, [Next]_vars,
         \A i \in DOMAIN symbol_table' :
           i > 1 => \/ i \in DOMAIN symbol_table /\ symbol_table'[i] = symbol_table[i]
                    \/ \A s \in Elements(symbol_table'[i]) : s \in 1..Len(heap) /\ ~heap[s].function
  PROVE  FunctionsOutermost'
<1>1. InTables \subseteq 1..Len(heap) /\ ObjectsGrow
  BY Objects, StepGrows
<1>2. ASSUME NEW i \in DOMAIN symbol_table', i > 1, NEW s \in Elements(symbol_table'[i])
      PROVE  ~heap'[s].function
  <2>1. s \in 1..Len(heap) /\ ~heap[s].function
    <3>1. CASE i \in DOMAIN symbol_table /\ symbol_table'[i] = symbol_table[i]
      BY <1>1, <1>2, <3>1 DEF FunctionsOutermost, InTables
    <3> QED
      BY <1>2, <3>1
  <2> QED
    BY <1>1, <2>1 DEF ObjectsGrow, Alike
<1> QED
  BY <1>2 DEF FunctionsOutermost

LEMMA FunctionStaysOutermost ==
  ASSUME PInv, Nested(expected), VariableParameters, FunctionsOutermost, ReduceDeclGlbFct,
         [Next]_vars
  PROVE  FunctionsOutermost'
<1> DEFINE f == last_function_
           args == heap[f].args
           P == Elements(args)
           s == symbol_table
           o == Outer(f)
           t == Added(EmptyTable, args)
           r == symbol_table'
<1>1. /\ At("decl_glb_fct") /\ Running /\ expected # <<>> /\ Top.k = "decl_glb_fct"
      /\ r = Append(o, t)
  BY DEF ReduceDeclGlbFct, At, Top, Outer, WithLast, Last
<1>2. f \in DOMAIN heap /\ IsTuple(s) /\ s # <<>> /\ Len(s) = 1 /\ IsTuple(args)
      /\ P \subseteq 1..Len(heap)
  <2>1. f \in DOMAIN heap
    BY <1>1, FunctionMet
  <2>2. Len(s) = 1
    BY <1>1, TablesMet
  <2> QED
    BY <2>1, <2>2, Chained, Objects, Tuples
<1>3. Elements(t) \subseteq P
  <2>1. Elements(EmptyTable) = {}
    BY DEF Elements, EmptyTable
  <2> QED
    BY <1>2, <2>1, AddedElements
<1>4. \A a \in Elements(t) : a \in 1..Len(heap) /\ ~heap[a].function
  BY <1>2, <1>3 DEF VariableParameters
<1> HIDE DEF t, P, args
<1>5. IsTuple(o) /\ Len(o) = 1
  <2>1. CASE o = s
    BY <1>2, <2>1
  <2>2. CASE \E a : o = WithLast(s, a)
    <3> PICK a : o = WithLast(s, a)
      BY <2>2
    <3> HIDE DEF o, s
    <3> QED
      BY <1>2, LastReplaced
  <2> QED
    BY <2>1, <2>2 DEF Outer
<1> HIDE DEF o, r
<1>6. DOMAIN r = 1..2 /\ r[2] = t
  <2>1. DOMAIN r = 1..Len(o) + 1 /\ r[Len(o) + 1] = t
    BY <1>1, <1>5, Appended
  <2> QED
    BY <1>5, <2>1
<1>7. \A i \in DOMAIN r : i > 1 => r[i] = t
  BY <1>6
<1> QED
  BY <1>4, <1>7, FunctionsStayOutermost DEF r

LEMMA DeclarationOutside ==
  ASSUME PInv, Running, expected # <<>>, Top.k = "declaration", Undeclaring(expected)
  PROVE  Top.name = "global"
<1> DEFINE it == Top
<1>1. it = expected[1] /\ 1 \in DOMAIN expected
  <2>1. IsTuple(expected) /\ Len(expected) \in Nat /\ DOMAIN expected = 1..Len(expected)
    BY LenProperties DEF PInv, IsSentence, IsTuple
  <2>2. Len(expected) # 0
    BY <2>1, EmptySeq DEF IsTuple
  <2> QED
    BY <2>1, <2>2 DEF Top
<1>2. it.name # "local"
  BY <1>1 DEF Undeclaring
<1>3. PICK u, m \in Situation : Effect(it, u, m)
  BY Facing
<1> HIDE DEF it
<1>4. it.k = "declaration" => it.name \in {"local", "global"}
  BY <1>3 DEF Effect, Passes, Works, Anywhere, InBody
<1> QED
  BY <1>2, <1>4 DEF it

LEMMA StepOutermost ==
  ASSUME PInv, Nested(expected), Undeclaring(expected), VariableParameters,
         FunctionsOutermost, [Next]_vars
  PROVE  FunctionsOutermost'
<1> DEFINE s == symbol_table
           r == symbol_table'
           l == Len(s)
<1>1. IsTuple(s) /\ s # <<>> /\ l \in Nat /\ l >= 1 /\ DOMAIN s = 1..l
  BY Chained
<1>2. ASSUME \A i \in DOMAIN r : i > 1 => (i \in DOMAIN s /\ r[i] = s[i]) \/ Elements(r[i]) = {}
      PROVE  FunctionsOutermost'
  BY <1>2, FunctionsStayOutermost
<1>3. CASE symbol_table' = symbol_table
  BY <1>2, <1>3
<1>4. CASE ReduceDeclaration
  <2> DEFINE t == Added(Last(s), declarators)
  <2>1. Running /\ expected # <<>> /\ Top.k = "declaration" /\ r = WithLast(s, t)
    BY <1>4 DEF ReduceDeclaration, At, Top, Last, WithLast
  <2>2. Top.name = "global"
    BY <2>1, DeclarationOutside
  <2>3. l = 1
    BY <2>1, <2>2, TablesMet
  <2> HIDE DEF t, s, r, l
  <2>4. DOMAIN r = 1..1
    BY <1>1, <2>1, <2>3, LastReplaced DEF l
  <2>5. \A i \in DOMAIN r : ~(i > 1)
    BY <2>4
  <2> QED
    BY <1>2, <2>5
<1>5. CASE ReduceDeclGlbFct
  BY <1>5, FunctionStaysOutermost
<1>6. CASE BlockEnd
  <2> DEFINE p == Pop(s, 1)
  <2>1. r = p /\ 1 \in 0..l
    BY <1>1, <1>6 DEF BlockEnd, Front, Pop
  <2> DEFINE S == {s[i] : i \in DOMAIN s}
  <2>2. s \in Seq(S)
    BY <1>1 DEF IsTuple
  <2> HIDE DEF S
  <2>3. p \in Seq(S) /\ Len(p) = l - 1 /\ \A i \in 1..l - 1 : p[i] = s[i]
    BY <1>1, <2>1, <2>2, PopProperties
  <2> HIDE DEF p
  <2>4. DOMAIN p = 1..l - 1
    BY <2>3, LenProperties
  <2>5. \A i \in DOMAIN p : i \in DOMAIN s /\ p[i] = s[i]
    BY <1>1, <2>3, <2>4
  <2> QED
    BY <1>2, <2>1, <2>5
<1>7. CASE BlockStart /\ ~new_function_definition_
  <2> DEFINE e == EmptyTable
  <2>1. r = Append(s, e)
    BY <1>7 DEF BlockStart
  <2>2. Elements(e) = {}
    BY DEF Elements, EmptyTable
  <2> HIDE DEF e
  <2>3. \A i \in DOMAIN r : (i \in DOMAIN s /\ r[i] = s[i]) \/ Elements(r[i]) = {}
    <3> HIDE DEF s, r
    <3>1. DOMAIN r = 1..l + 1 /\ r[l + 1] = e /\ \A i \in 1..l : r[i] = s[i]
      BY <1>1, <2>1, Appended DEF l
    <3> QED
      BY <1>1, <2>2, <3>1
  <2> QED
    BY <1>2, <2>3
<1> QED
  BY <1>3, <1>4, <1>5, <1>6, <1>7, ScopesChange

(* A grammar without declarations in blocks.                                  *)
LEMMA FunctionsAlwaysOutermost ==
  ASSUME "local_declaration" \notin Rules
  PROVE  Spec => []FunctionsOutermost
<1> DEFINE I == PInv /\ Fresh /\ Nested(expected) /\ Addressed /\ Lined
           J == Undeclaring(expected) /\ VariableParameters /\ FunctionsOutermost
<1>1. Init => J
  <2> SUFFICES ASSUME Init
               PROVE  J
    OBVIOUS
  <2>1. Undeclaring(expected)
    <3> DEFINE a == Item("program")
    <3>1. a.k = "program" /\ expected = <<a>>
      BY Symbols DEF Init
    <3> HIDE DEF a
    <3>2. DOMAIN expected = {1} /\ expected[1] = a
      BY <3>1
    <3> QED
      BY <3>1, <3>2 DEF Undeclaring
  <2>2. VariableParameters
    BY ShortItems DEF Init, VariableParameters, Elements
  <2>3. FunctionsOutermost
    <3> DEFINE e == EmptyTable
    <3>1. symbol_table = <<e>>
      BY DEF Init
    <3> HIDE DEF e
    <3>2. DOMAIN symbol_table = {1}
      BY <3>1
    <3> QED
      BY <3>2 DEF FunctionsOutermost
  <2> QED
    BY <2>1, <2>2, <2>3
<1>2. ASSUME I, J, [Next]_vars
      PROVE  J'
  BY <1>2, StepUndeclaring, StepVariableParameters, StepOutermost
<1>3. I /\ J /\ [Next]_vars => J'
  BY <1>2
<1>4. J => FunctionsOutermost
  OBVIOUS
<1> QED
  BY <1>1, <1>3, <1>4, LinesKept, PTL DEF Spec

(* If nothing is declared in blocks, a call is written with the signature of a  *)
(* line of its callee, for all names, types, numbers of arguments and bounds.   *)
THEOREM CallsMatchWithoutLocals ==
  ASSUME "local_declaration" \notin Rules
  PROVE  Spec => []CallsMatchLines
BY FunctionsAlwaysOutermost, CallsAlwaysMatchLines, PTL
-----------------------------------------------------------------------------
(* Headings.  The one of the definition under way stands at the end of the     *)
(* output, and bears its name, from decl_glb_fct to the end of the definition;  *)
(* all the others have met their definitions.                                *)
UnderWay == definition # 0 /\ ~Ahead("decl_glb_fct")

Answered(h) == \E i \in DOMAIN emitted : Heads(h, i)

Awaited ==
  /\ Len(headings) \in DOMAIN headings
  /\ headings[Len(headings)].name = heap[definition].name
  /\ headings[Len(headings)].at = Len(emitted)

EarlierMet == \A k \in DOMAIN headings : k < Len(headings) => Answered(headings[k])
AllMet == \A k \in DOMAIN headings : Answered(headings[k])
DefinitionsHeaded ==
  \A i \in DOMAIN emitted :
    emitted[i].op = "define" => \E k \in DOMAIN headings : Heads(headings[k], i)

Headed ==
  /\ IsTuple(headings) /\ DefinitionsHeaded /\ EarlierMet
  /\ Running => result = "pending"
  /\ result = "accepted" => ~UnderWay
  /\ (Running \/ result = "accepted") => IF UnderWay THEN Awaited ELSE AllMet

(* A step that has nothing to do with definitions.                             *)
Silent ==
  /\ UNCHANGED <<emitted, headings, definition>>
  /\ Ahead("decl_glb_fct")' <=> Ahead("decl_glb_fct")

LEMMA ReducedSilent ==
  ASSUME PInv, NEW k, At(k), k \notin {"decl_glb_fct", "function_declarator"}, Become(<<>>),
         UNCHANGED <<emitted, headings, definition>>
  PROVE  Silent
<1>1. Running /\ expected # <<>> /\ Top.k = k
  BY DEF At, Top
<1>2. ~Ahead("decl_glb_fct") /\ ~Ahead("decl_glb_fct")'
  BY <1>1, NamedNext DEF Ahead
<1> QED
  BY <1>2 DEF Silent

LEMMA ExpandedSilent ==
  ASSUME Quiet, NEW k, At(k), k # "decl_glb_fct", UNCHANGED <<emitted, headings, definition>>
  PROVE  Silent
BY DEF Silent, Quiet, At, Ahead, Top

LEMMA HaltsSilent ==
  ASSUME UNCHANGED <<expected, definition, emitted, headings>>
  PROVE  Silent
BY DEF Silent, Ahead, Top

Defining ==
  \/ FunctionDeclarator \/ ReduceDeclGlbFct \/ RejectDeclGlbFct
  \/ ReduceExternalDeclaration \/ ReduceFunctionDefinition

LEMMA DeclarationStepSilent ==
  ASSUME PInv, DeclarationStep
  PROVE  Silent \/ Defining
<1>1. CASE \/ \E extern \in 0..1 : ExpandDeclaration(extern)
           \/ \E x \in Names : ExpandFunctionDefinition(x)
  <2>1. Quiet /\ At("program") /\ UNCHANGED <<emitted, headings, definition>>
    BY <1>1, DeclarationExpansions, Zenon DEF ExpandDeclaration, ExpandFunctionDefinition,
       lists
  <2> QED
    BY <2>1, ExpandedSilent
<1>2. CASE \E t \in Type : TypeSpecifier(t)
  <2>1. At("type") /\ Become(<<>>) /\ UNCHANGED <<emitted, headings, definition>>
    BY <1>2, Zenon DEF TypeSpecifier, lists
  <2> QED
    BY <2>1, ReducedSilent
<1>3. CASE \E x \in Names : Declarator(x) \/ ParameterDeclaration(x)
  <2>1. \E k \in {"declarator", "parameter_declaration"} :
          At(k) /\ Become(<<>>) /\ UNCHANGED <<emitted, headings, definition>>
    BY <1>3, Zenon DEF Declarator, ParameterDeclaration
  <2> QED
    BY <2>1, ReducedSilent
<1>4. CASE \E x \in Names : ExpandFunctionDeclarator(x)
  <2>1. Quiet /\ At("declarator") /\ UNCHANGED <<emitted, headings, definition>>
    BY <1>4, DeclarationExpansions, Zenon DEF ExpandFunctionDeclarator, lists
  <2> QED
    BY <2>1, ExpandedSilent
<1>5. CASE \E more \in BOOLEAN : DeclaratorList(more) \/ ParameterList(more)
  <2>1. Quiet /\ (At("declarator_list") \/ At("parameter_list"))
    BY <1>5, DeclarationExpansions, Zenon DEF DeclaratorList, ParameterList
  <2>2. UNCHANGED <<emitted, headings, definition>>
    BY <1>5, Zenon DEF DeclaratorList, ParameterList, lists
  <2> QED
    BY <2>1, <2>2, ExpandedSilent
<1>6. CASE ReduceDeclaration
  <2>1. At("declaration") /\ Become(<<>>) /\ UNCHANGED <<emitted, headings, definition>>
    BY <1>6 DEF ReduceDeclaration
  <2> QED
    BY <2>1, ReducedSilent
<1>7. CASE RejectDeclaration
  <2>1. UNCHANGED <<expected, definition, emitted, headings>>
    BY <1>7 DEF RejectDeclaration, Reject, Refuse, lists
  <2> QED
    BY <2>1, HaltsSilent
<1> QED
  BY <1>1, <1>2, <1>3, <1>4, <1>5, <1>6, <1>7 DEF DeclarationStep, Defining

LEMMA InstructionStepSilent ==
  ASSUME PInv, InstructionStep
  PROVE  Silent
<1>1. CASE BlockStart
  <2>1. /\ At("compound") /\ Running /\ expected # <<>>
        /\ Become(<<Item("declaration_list"), Item("instruction_list"), Item("block_end")>>)
        /\ UNCHANGED <<emitted, headings, definition>>
    BY <1>1 DEF BlockStart, At, lists
  <2>2. ~Ahead("decl_glb_fct") /\ ~Ahead("decl_glb_fct")'
    BY <2>1, ListNext DEF Ahead, At, Top
  <2> QED
    BY <2>1, <2>2 DEF Silent
<1>2. CASE \/ BlockEnd \/ AppendInstruction \/ EmptyInstruction \/ ReduceInstruction
           \/ ReduceCondition \/ ReduceAssignment
  <2>1. UNCHANGED <<emitted, headings, definition>> /\ Become(<<>>)
    BY <1>2, Zenon DEF BlockEnd, AppendInstruction, EmptyInstruction, ReduceInstruction,
       ReduceCondition, ReduceAssignment, Make, lists
  <2>2. \E k \in {"block_end", "append", "instruction", "expression_instruction", "if",
                  "if_else", "while", "do", "for", "comparison", "assignment"} : At(k)
    BY <1>2, Zenon DEF BlockEnd, AppendInstruction, EmptyInstruction, ReduceInstruction,
       ReduceCondition, ReduceAssignment, Make
  <2> QED
    BY <2>1, <2>2, ReducedSilent
<1>3. CASE \E more \in BOOLEAN : DeclarationList(more) \/ InstructionList(more)
  <2>1. Quiet /\ (At("declaration_list") \/ At("instruction_list"))
    BY <1>3, BodyExpansions, Zenon DEF DeclarationList, InstructionList
  <2>2. UNCHANGED <<emitted, headings, definition>>
    BY <1>3, Zenon DEF DeclarationList, InstructionList, lists
  <2> QED
    BY <2>1, <2>2, ExpandedSilent
<1>4. CASE ExpandInstruction
  <2>1. Quiet
    BY <1>4, InstructionExpansions
  <2>2. At("instruction") /\ UNCHANGED <<emitted, headings, definition>>
    BY <1>4, Zenon DEF ExpandInstruction, Expand, lists
  <2> QED
    BY <2>1, <2>2, ExpandedSilent
<1>5. CASE \E ordering \in 0..1 : ExpandCondition(ordering)
  <2>1. Quiet /\ At("condition") /\ UNCHANGED <<emitted, headings, definition>>
    BY <1>5, BodyExpansions, Zenon DEF ExpandCondition, Expand, lists
  <2> QED
    BY <2>1, ExpandedSilent
<1>6. CASE RejectAssignment
  <2>1. UNCHANGED <<expected, definition, emitted, headings>>
    BY <1>6, Zenon DEF RejectAssignment, Reject, Refuse, lists
  <2> QED
    BY <2>1, HaltsSilent
<1> QED
  BY <1>1, <1>2, <1>3, <1>4, <1>5, <1>6 DEF InstructionStep

LEMMA ExpressionStepSilent ==
  ASSUME PInv, ExpressionStep
  PROVE  Silent
<1>1. CASE \/ \E t \in Type : Constant(t)
           \/ \E x \in Names : Identifier(x)
  <2>1. At("expression") /\ Become(<<>>) /\ UNCHANGED <<emitted, headings, definition>>
    BY <1>1, Zenon DEF Constant, Identifier, Push, lists
  <2> QED
    BY <2>1, ReducedSilent
<1>2. CASE ExpandExpression
  <2>1. Quiet
    BY <1>2, ExpressionExpansions
  <2>2. At("expression") /\ UNCHANGED <<emitted, headings, definition>>
    BY <1>2, Zenon DEF ExpandExpression, Expand, lists
  <2> QED
    BY <2>1, <2>2, ExpandedSilent
<1>3. CASE ReduceOperator
  <2>1. At("unary") \/ At("plus") \/ At("other")
    BY <1>3, Zenon DEF ReduceOperator, WellTyped
  <2>2. Become(<<>>) /\ UNCHANGED <<emitted, headings, definition>>
    BY <1>3, Zenon DEF ReduceOperator, Make, lists
  <2> QED
    BY <2>1, <2>2, ReducedSilent
<1>4. CASE ReduceCall
  <2>1. At("call") /\ Become(<<>>) /\ UNCHANGED <<emitted, headings, definition>>
    BY <1>4, Zenon DEF ReduceCall, lists
  <2> QED
    BY <2>1, ReducedSilent
<1>5. CASE RejectOperator \/ RejectCall \/ \E x \in Names : RejectIdentifier(x)
  <2>1. UNCHANGED <<expected, definition, emitted, headings>>
    BY <1>5, Zenon DEF RejectOperator, RejectCall, RejectIdentifier, Reject, Refuse, lists
  <2> QED
    BY <2>1, HaltsSilent
<1> QED
  BY <1>1, <1>2, <1>3, <1>4, <1>5 DEF ExpressionStep

LEMMA StepSilent ==
  ASSUME PInv, [Next]_vars
  PROVE  Silent \/ Defining
<1>1. CASE DeclarationStep \/ InstructionStep \/ ExpressionStep
  BY <1>1, DeclarationStepSilent, InstructionStepSilent, ExpressionStepSilent
<1>2. CASE EndOfInput \/ SyntaxError \/ Stopped \/ UNCHANGED vars
  <2>1. UNCHANGED <<expected, definition, emitted, headings>>
    BY <1>2, Zenon DEF EndOfInput, SyntaxError, Reject, Refuse, Stopped, vars, lists
  <2> QED
    BY <2>1, HaltsSilent
<1> QED
  BY <1>1, <1>2 DEF Next

(* The result is known when the process ends, and it is "accepted" at the end   *)
(* of the input only.                                                        *)
LEMMA StepEnds ==
  ASSUME [Next]_vars
  PROVE  \/ UNCHANGED outcome
         \/ Running /\ ~Running' /\ (EndOfInput \/ result' \in {result, "rejected"})
<1>1. ASSUME Running, Refuse
      PROVE  Running /\ ~Running' /\ result' = "rejected"
  BY <1>1 DEF Refuse, Running
<1>2. CASE DeclarationStep
  <2>1. CASE RejectDeclaration \/ RejectDeclGlbFct
    BY <1>1, <2>1 DEF RejectDeclaration, RejectDeclGlbFct, Reject, At
  <2>2. CASE ReduceFunctionDefinition
    BY <2>2 DEF ReduceFunctionDefinition, At, outcome, Running
  <2>3. CASE \/ \E extern \in 0..1 : ExpandDeclaration(extern)
             \/ \E x \in Names : ExpandFunctionDefinition(x)
             \/ \E t \in Type : TypeSpecifier(t)
             \/ \E x \in Names : Declarator(x) \/ ExpandFunctionDeclarator(x)
             \/ \E more \in BOOLEAN : DeclaratorList(more) \/ ParameterList(more)
             \/ \E x \in Names : ParameterDeclaration(x)
             \/ FunctionDeclarator \/ ReduceDeclaration \/ ReduceExternalDeclaration
             \/ ReduceDeclGlbFct
    BY <2>3, Zenon DEF ExpandDeclaration, ExpandFunctionDefinition, TypeSpecifier,
       Declarator, ExpandFunctionDeclarator, DeclaratorList, ParameterList,
       ParameterDeclaration, FunctionDeclarator, ReduceDeclaration,
       ReduceExternalDeclaration, ReduceDeclGlbFct
  <2> QED
    BY <1>2, <2>1, <2>2, <2>3 DEF DeclarationStep
<1>3. CASE InstructionStep
  <2>1. CASE RejectAssignment
    BY <1>1, <2>1 DEF RejectAssignment, Reject, At
  <2>2. CASE ~RejectAssignment
    BY <1>3, <2>2, Zenon DEF InstructionStep, BlockStart, BlockEnd, AppendInstruction,
       DeclarationList, InstructionList, EmptyInstruction, ExpandInstruction,
       ReduceInstruction, ExpandCondition, ReduceCondition, ReduceAssignment, Expand, Make
  <2> QED
    BY <2>1, <2>2
<1>4. CASE ExpressionStep
  <2>1. CASE RejectOperator \/ RejectCall \/ \E x \in Names : RejectIdentifier(x)
    BY <1>1, <2>1 DEF RejectOperator, RejectCall, RejectIdentifier, Reject, At
  <2>2. CASE \/ \E t \in Type : Constant(t)
             \/ \E x \in Names : Identifier(x)
             \/ ExpandExpression \/ ReduceOperator \/ ReduceCall
    BY <2>2, Zenon DEF Constant, Identifier, Push, ExpandExpression, Expand,
       ReduceOperator, Make, ReduceCall
  <2> QED
    BY <1>4, <2>1, <2>2 DEF ExpressionStep
<1>5. CASE EndOfInput \/ SyntaxError
  <2>1. CASE EndOfInput
    BY <2>1 DEF EndOfInput, At, Running
  <2> QED
    BY <1>1, <1>5, <2>1 DEF SyntaxError, Reject
<1>6. CASE Stopped \/ UNCHANGED vars
  BY <1>6 DEF Stopped, vars
<1> QED
  BY <1>2, <1>3, <1>4, <1>5, <1>6 DEF Next

(* What is written stays where it is.                                         *)
LEMMA HeadsStay ==
  ASSUME NEW h, NEW i, Heads(h, i), i \in DOMAIN emitted', emitted'[i] = emitted[i]
  PROVE  Heads(h, i)'
BY DEF Heads

(* A step that writes nothing, of a definition that stays what it is.          *)
LEMMA QuietlyHeaded ==
  ASSUME PInv, Headed, [Next]_vars, UNCHANGED <<emitted, headings>>,
         UnderWay' <=> UnderWay, UnderWay => definition' = definition
  PROVE  Headed'
<1>1. \/ UNCHANGED outcome
      \/ Running /\ ~Running' /\ (EndOfInput \/ result' \in {result, "rejected"})
  BY StepEnds
<1>2. (Running => result = "pending") => (Running' => result' = "pending")
  BY <1>1 DEF Running, outcome
<1>3. \A h, i : Heads(h, i)' <=> Heads(h, i)
  BY DEF Heads
<1>4. DefinitionsHeaded' /\ EarlierMet' /\ (AllMet => AllMet')
  BY <1>3 DEF Headed, DefinitionsHeaded, EarlierMet, AllMet, Answered
<1>5. UnderWay => (Awaited => Awaited')
  <2> SUFFICES ASSUME UnderWay, Awaited
               PROVE  Awaited'
    OBVIOUS
  <2>1. definition' = definition /\ definition # 0
    BY DEF UnderWay
  <2>2. definition \in 1..Len(heap)
    BY <2>1, Objects DEF PInv, Data, TypeOK
  <2>3. heap'[definition].name = heap[definition].name
    BY <2>2, StepGrows DEF ObjectsGrow, Alike
  <2> QED
    BY <2>1, <2>3 DEF Awaited
<1>6. UNCHANGED headings /\ (Running' \/ result' = "accepted" => Running \/ result = "accepted")
  BY <1>1 DEF Running, outcome
<1>7. result' = "accepted" => ~UnderWay'
  <2>1. EndOfInput => ~UnderWay
    BY NoneDefined DEF EndOfInput, UnderWay
  <2> QED
    BY <1>1, <2>1 DEF Headed, outcome
<1> QED
  BY <1>2, <1>4, <1>5, <1>6, <1>7 DEF Headed

(* A definition is begun while none is under way.                              *)
LEMMA FunctionDeclaratorHeaded ==
  ASSUME PInv, Headed, [Next]_vars, FunctionDeclarator
  PROVE  Headed'
<1>1. /\ Running /\ expected # <<>> /\ Top.k = "function_declarator" /\ Become(<<>>)
      /\ UNCHANGED <<emitted, headings>> /\ (Top.n = 1 => definition' = definition)
  BY DEF FunctionDeclarator, At, Top
<1>2. ~Ahead("decl_glb_fct")
  BY <1>1 DEF Ahead
<1>3. CASE Top.n = 1
  <2>1. ~Ahead("decl_glb_fct")'
    BY <1>1, <1>3, NamedNext
  <2> QED
    BY <1>1, <1>2, <1>3, <2>1, QuietlyHeaded DEF UnderWay
<1>4. CASE Top.n # 1
  <2>1. definition = 0 /\ Ahead("decl_glb_fct")'
    BY <1>1, <1>4, NamingEnds
  <2> QED
    BY <1>1, <2>1, QuietlyHeaded DEF UnderWay
<1> QED
  BY <1>3, <1>4

LEMMA HeadingWritten ==
  ASSUME PInv, Headed, At("decl_glb_fct"), WriteHeading, emitted' = emitted
  PROVE  /\ IsTuple(headings') /\ DefinitionsHeaded' /\ EarlierMet'
         /\ Len(headings') \in DOMAIN headings'
         /\ headings'[Len(headings')].name = heap[definition].name
         /\ headings'[Len(headings')].at = Len(emitted)
<1> DEFINE h == headings
           a == [name |-> heap[last_function_].name, at |-> Len(emitted)]
           r == headings'
           L == Len(h)
<1>1. AllMet /\ IsTuple(h) /\ DefinitionsHeaded
  BY DEF Headed, UnderWay, At, Ahead, Top
<1>2. a.name = heap[definition].name /\ a.at = Len(emitted)
  BY DefinitionNamed
<1>3. r = Append(h, a)
  BY DEF WriteHeading
<1> HIDE DEF a
<1>4. /\ IsTuple(r) /\ L \in Nat /\ DOMAIN h = 1..L /\ Len(r) = L + 1 /\ DOMAIN r = 1..L + 1
      /\ r[L + 1] = a /\ \A k \in 1..L : r[k] = h[k]
  <2> HIDE DEF h, r
  <2> QED
    BY <1>1, <1>3, Appended
<1>5. \A b, i : Heads(b, i)' <=> Heads(b, i)
  BY DEF Heads
<1>6. DefinitionsHeaded'
  <2>1. ASSUME NEW i \in DOMAIN emitted, emitted[i].op = "define"
        PROVE  \E k \in DOMAIN r : Heads(r[k], i)
    <3>1. PICK k \in DOMAIN h : Heads(h[k], i)
      BY <1>1, <2>1 DEF DefinitionsHeaded
    <3>2. k \in DOMAIN r /\ r[k] = h[k]
      BY <1>4, <3>1
    <3> QED
      BY <3>1, <3>2
  <2> QED
    BY <1>5, <2>1 DEF DefinitionsHeaded
<1>7. EarlierMet'
  <2>1. ASSUME NEW k \in DOMAIN r, k < L + 1
        PROVE  Answered(r[k])
    <3>1. k \in DOMAIN h /\ r[k] = h[k]
      BY <1>4, <2>1
    <3> QED
      BY <1>1, <3>1 DEF AllMet
  <2>2. \A b : Answered(b)' <=> Answered(b)
    BY <1>5 DEF Answered
  <2> QED
    BY <1>4, <2>1, <2>2 DEF EarlierMet
<1>8. Len(r) \in DOMAIN r
  BY <1>4
<1> QED
  BY <1>2, <1>4, <1>6, <1>7, <1>8

LEMMA DeclGlbFctHeaded ==
  ASSUME PInv, Headed, [Next]_vars, ReduceDeclGlbFct \/ RejectDeclGlbFct
  PROVE  Headed'
<1>1. /\ At("decl_glb_fct") /\ WriteHeading /\ emitted' = emitted
      /\ Running /\ expected # <<>> /\ Top.k = "decl_glb_fct"
  BY DEF ReduceDeclGlbFct, RejectDeclGlbFct, Refuse, At, Top
<1>2. /\ IsTuple(headings') /\ DefinitionsHeaded' /\ EarlierMet'
      /\ Len(headings') \in DOMAIN headings'
      /\ headings'[Len(headings')].name = heap[definition].name
      /\ headings'[Len(headings')].at = Len(emitted)
  BY <1>1, HeadingWritten
<1>3. CASE RejectDeclGlbFct
  <2>1. ~Running' /\ result' = "rejected"
    BY <1>3 DEF RejectDeclGlbFct, Refuse, Running
  <2> QED
    BY <1>2, <2>1 DEF Headed
<1>4. CASE ReduceDeclGlbFct
  <2>1. /\ Become(<<>>) /\ definition' = definition /\ heap' = heap
        /\ UNCHANGED <<result, exit>>
    BY <1>4 DEF ReduceDeclGlbFct, lists, outcome
  <2>2. ~Ahead("decl_glb_fct")'
    BY <1>1, <2>1, NamedNext
  <2>3. definition # 0
    BY <1>1, DefinitionNamed, Objects
  <2>4. UnderWay' /\ Awaited'
    BY <1>1, <1>2, <2>1, <2>2, <2>3 DEF UnderWay, Awaited
  <2>5. result' = "pending"
    BY <1>1, <2>1 DEF Headed
  <2> QED
    BY <1>2, <2>4, <2>5 DEF Headed
<1> QED
  BY <1>3, <1>4

LEMMA OthersDeclared ==
  ASSUME PInv, At("external_declaration")
  PROVE  definition = 0
<1>1. PICK u, m \in Situation : Matches(u) /\ Effect(Top, u, m)
  BY Facing DEF At
<1>2. u = Written
  <2> DEFINE it == Top
  <2>1. it.k = "external_declaration" /\ Effect(it, u, m)
    BY <1>1 DEF At, Top
  <2> HIDE DEF it
  <2> QED
    BY <2>1 DEF Effect, Passes, Works, Anywhere, InBody
<1> QED
  BY <1>1, <1>2 DEF Matches, Written, Sit

(* Lines of declarations come between a definition and the next heading.        *)
LEMMA ExternalDeclarationHeaded ==
  ASSUME PInv, Lined, Headed, ReduceExternalDeclaration
  PROVE  Headed'
<1> DEFINE e == emitted
           D == DeclarationLines
           r == emitted'
<1>1. /\ At("external_declaration") /\ Running /\ r = e \o D /\ headings' = headings
      /\ definition' = definition /\ UNCHANGED <<result, exit>>
  BY DEF ReduceExternalDeclaration, At, outcome
<1>2. definition = 0
  BY <1>1, OthersDeclared
<1>3. /\ IsTuple(e) /\ IsTuple(D) /\ \A k \in DOMAIN declarators : D[Place(k)] = LineOf(k)
      /\ \A m \in DOMAIN D : \E k \in DOMAIN declarators : Place(k) = m
  BY LinesOfDeclarators DEF Lined
<1>4. \A k : LineOf(k).op # "define"
  BY LineWritten DEF LineOf
<1> HIDE DEF D
<1>5. \A m \in DOMAIN D : D[m].op # "define"
  BY <1>3, <1>4
<1>6. IsJoined(e, D, r)
  <2> HIDE DEF e, r
  <2> QED
    BY <1>1, <1>3, Joined
<1> HIDE DEF e, r
<1>7. \A i \in DOMAIN r : r[i].op = "define" => i \in DOMAIN e /\ r[i] = e[i]
  BY <1>5, <1>6 DEF IsJoined
<1>8. \A i \in DOMAIN e : i \in DOMAIN r /\ r[i] = e[i]
  BY <1>6 DEF IsJoined
<1>9. \A h, i : Heads(h, i) => Heads(h, i)'
  BY <1>8 DEF Heads, e, r
<1>10. \A h : Answered(h) => Answered(h)'
  <2> SUFFICES ASSUME NEW h, NEW i \in DOMAIN e, Heads(h, i)
               PROVE  Answered(h)'
    BY DEF Answered, e
  <2>1. i \in DOMAIN r /\ Heads(h, i)'
    BY <1>8, <1>9
  <2> QED
    BY <2>1 DEF Answered, r
<1>11. DefinitionsHeaded'
  <2>1. ASSUME NEW i \in DOMAIN r, r[i].op = "define"
        PROVE  \E k \in DOMAIN headings : Heads(headings[k], i)'
    <3>1. i \in DOMAIN e /\ e[i].op = "define"
      BY <1>7, <2>1
    <3>2. PICK k \in DOMAIN headings : Heads(headings[k], i)
      BY <3>1 DEF Headed, DefinitionsHeaded, e
    <3>3. PICK h : h = headings[k]
      OBVIOUS
    <3>4. Heads(h, i)' /\ headings'[k] = h
      BY <1>1, <1>9, <3>2, <3>3
    <3> QED
      BY <1>1, <3>4 DEF Heads
  <2> QED
    BY <1>1, <2>1 DEF DefinitionsHeaded, r
<1>12. AllMet' /\ EarlierMet'
  BY <1>1, <1>2, <1>10 DEF Headed, UnderWay, AllMet, EarlierMet
<1>13. ~UnderWay' /\ result' = "pending"
  BY <1>1, <1>2 DEF UnderWay, Headed
<1> QED
  BY <1>1, <1>11, <1>12, <1>13 DEF Headed

(* A definition is written where its heading expects it.                       *)
LEMMA DefinitionHeaded ==
  ASSUME PInv, Lined, Headed, ReduceFunctionDefinition, emitted' # emitted
  PROVE  Headed'
<1> DEFINE e == emitted
           a == DefinitionLine
           r == emitted'
           L == Len(e)
           n == Len(headings)
<1>1. /\ At("function_definition") /\ Running /\ r = Append(e, a) /\ definition' = 0
      /\ Top.k = "function_definition" /\ UNCHANGED <<headings, result, exit>>
  BY DEF ReduceFunctionDefinition, At, Top
<1>2. definition # 0 /\ ~Ahead("decl_glb_fct")
  BY <1>1, DefinitionMet, Objects DEF Ahead
<1>3. Awaited /\ IsTuple(headings)
  BY <1>1, <1>2 DEF Headed, UnderWay
<1>4. a.op = "define" /\ a.name = heap[definition].name
  BY LineWritten DEF DefinitionLine
<1> HIDE DEF a
<1>5. IsTuple(e)
  BY DEF Lined
<1> HIDE DEF e, r
<1>6. /\ L \in Nat /\ DOMAIN e = 1..L /\ DOMAIN r = 1..L + 1 /\ r[L + 1] = a
      /\ \A i \in 1..L : r[i] = e[i]
  BY <1>1, <1>5, Appended
<1>7. \A h, i : Heads(h, i) => Heads(h, i)'
  BY <1>6 DEF Heads, e, r
<1>8. n \in DOMAIN headings /\ n \in Nat /\ DOMAIN headings = 1..n
  BY <1>3, LenProperties DEF Awaited, IsTuple
<1>9. L + 1 \in DOMAIN r
  BY <1>6
<1>10. headings[n].at = L /\ headings[n].name = a.name
  BY <1>3, <1>4 DEF Awaited, e
<1>11. PICK b, j : b = headings[n] /\ j = L + 1
  OBVIOUS
<1>12. Heads(b, j)' /\ b = headings'[n] /\ j \in DOMAIN r
  BY <1>1, <1>4, <1>6, <1>9, <1>10, <1>11 DEF Heads, r
<1>13. AllMet'
  <2>1. ASSUME NEW k \in DOMAIN headings
        PROVE  \E i \in DOMAIN r : Heads(headings[k], i)'
    <3>1. CASE k < n
      <4>1. PICK i \in DOMAIN e : Heads(headings[k], i)
        BY <2>1, <3>1 DEF Headed, EarlierMet, Answered, e
      <4>2. PICK h : h = headings[k]
        OBVIOUS
      <4>3. Heads(h, i)' /\ headings'[k] = h
        BY <1>1, <1>7, <4>1, <4>2
      <4>4. i \in DOMAIN r
        BY <1>6
      <4> QED
        BY <1>1, <4>3, <4>4 DEF Heads
    <3>2. CASE k = n
      BY <1>12, <3>2 DEF Heads
    <3> QED
      BY <1>8, <3>1, <3>2
  <2> QED
    BY <1>1, <2>1 DEF AllMet, Answered, Heads, r
<1>14. EarlierMet'
  BY <1>13 DEF AllMet, EarlierMet
<1>15. DefinitionsHeaded'
  <2>1. ASSUME NEW i \in DOMAIN r, r[i].op = "define"
        PROVE  \E k \in DOMAIN headings : Heads(headings[k], i)'
    <3>1. CASE i = L + 1
      BY <1>8, <1>11, <1>12, <3>1 DEF Heads
    <3>2. CASE i \in 1..L
      <4>1. i \in DOMAIN e /\ e[i].op = "define"
        BY <1>6, <2>1, <3>2
      <4>2. PICK k \in DOMAIN headings : Heads(headings[k], i)
        BY <4>1 DEF Headed, DefinitionsHeaded, e
      <4>3. PICK h : h = headings[k]
        OBVIOUS
      <4>4. Heads(h, i)' /\ headings'[k] = h
        BY <1>1, <1>7, <4>2, <4>3
      <4> QED
        BY <1>1, <4>4 DEF Heads
    <3> QED
      BY <1>6, <3>1, <3>2
  <2> QED
    BY <1>1, <2>1 DEF DefinitionsHeaded, Heads, r
<1>16. ~UnderWay' /\ result' = "pending"
  BY <1>1 DEF UnderWay, Headed
<1> QED
  BY <1>1, <1>3, <1>13, <1>14, <1>15, <1>16 DEF Headed

LEMMA StepHeaded ==
  ASSUME PInv, Lined, Headed, [Next]_vars
  PROVE  Headed'
<1>1. CASE Silent
  BY <1>1, QuietlyHeaded DEF Silent, UnderWay
<1>2. CASE ReduceFunctionDefinition /\ emitted' = emitted
  <2>1. UNCHANGED <<expected, definition, headings>>
    <3>1. ~(emitted' = Append(emitted, DefinitionLine))
      <4> DEFINE e == emitted
                 a == DefinitionLine
      <4>1. IsTuple(e)
        BY DEF Lined
      <4> HIDE DEF e, a
      <4>2. Len(Append(e, a)) = Len(e) + 1 /\ Len(e) \in Nat
        BY <4>1, Appended
      <4>3. Append(e, a) # e
        BY <4>2
      <4> QED
        BY <1>2, <4>3 DEF e, a
    <3> QED
      BY <1>2, <3>1 DEF ReduceFunctionDefinition
  <2>2. UnderWay' <=> UnderWay
    BY <2>1 DEF UnderWay, Ahead, Top
  <2> QED
    BY <1>2, <2>1, <2>2, QuietlyHeaded
<1>3. CASE ReduceFunctionDefinition /\ emitted' # emitted
  BY <1>3, DefinitionHeaded
<1> QED
  BY <1>1, <1>2, <1>3, StepSilent, FunctionDeclaratorHeaded, DeclGlbFctHeaded,
     ExternalDeclarationHeaded DEF Defining

LEMMA BeginsHeaded == Init => Headed
<1> SUFFICES ASSUME Init
             PROVE  Headed
  OBVIOUS
<1>1. /\ headings = <<>> /\ emitted = <<>> /\ definition = 0 /\ result = "pending"
      /\ DOMAIN headings = {} /\ DOMAIN emitted = {} /\ IsTuple(headings)
  BY EmptySeq, ShortItems, ShortTuples DEF Init
<1> QED
  BY <1>1 DEF Headed, DefinitionsHeaded, EarlierMet, AllMet, UnderWay

(* Every definition stands directly behind its own heading, and every heading   *)
(* but the last one of a program that is not accepted has its definition,       *)
(* whatever is declared in bodies: last_function_ is the definition's function  *)
(* when decl_glb_fct writes the heading, nothing is written and no definition   *)
(* is begun before that definition ends, and it is written from $2, not from    *)
(* last_function_.                                                            *)
THEOREM HeadingsAlwaysMeetDefinitions == Spec => []HeadingsMeetDefinitions
<1>1. Headed => HeadingsMeetDefinitions
  <2> SUFFICES ASSUME Headed
               PROVE  HeadingsMeetDefinitions
    OBVIOUS
  <2>1. EarlierMet /\ DefinitionsHeaded
    BY DEF Headed
  <2>2. ASSUME result = "accepted", NEW k \in DOMAIN headings
        PROVE  Answered(headings[k])
    BY <2>2 DEF Headed, AllMet
  <2> QED
    BY <2>1, <2>2 DEF HeadingsMeetDefinitions, EarlierMet, DefinitionsHeaded, Answered
<1> QED
  BY <1>1, LinesKept, BeginsHeaded, StepHeaded, PTL DEF Spec
=============================================================================
