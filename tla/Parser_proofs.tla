----------------------------- MODULE Parser_proofs -----------------------------
(***************************************************************************)
(* Theorems about the parser's semantic actions (Parser).                   *)
(*                                                                          *)
(* What is expected is read as a program for two stacks: every symbol takes  *)
(* kinds of values off the value stack, puts kinds on it, and pushes or pops *)
(* unclaimed types (Effect).  The invariant says that the whole of it leads   *)
(* from the situation at hand to an empty one (Situated), that unclaimed      *)
(* types and scopes are those still to be claimed and closed, and that what   *)
(* is in a table or a list has a type (Data).  Expanding a symbol replaces     *)
(* its effect by one that leads the same way; reducing a rule runs it.        *)
(***************************************************************************)
EXTENDS Parser, StackTheorems, WellFoundedInduction

LEMMA Spelled ==
  ASSUME NEW S, NEW s \in Seq(S), NEW t \in Seq(S), NEW u \in Seq(S),
         Len(u) = Len(s) + Len(t), \A i \in 1..Len(s) : s[i] = u[i],
         \A i \in 1..Len(t) : t[i] = u[Len(s) + i]
  PROVE  s \o t = u
<1>1. /\ s \o t \in Seq(S) /\ Len(s \o t) = Len(s) + Len(t)
      /\ \A i \in 1..Len(s) + Len(t) :
           (s \o t)[i] = IF i <= Len(s) THEN s[i] ELSE t[i - Len(s)]
  BY ConcatProperties, Zenon
<1>2. Len(s) \in Nat /\ Len(t) \in Nat
  BY LenProperties
<1>3. ASSUME NEW i \in 1..Len(s) + Len(t)
      PROVE  (s \o t)[i] = u[i]
  <2>1. CASE i <= Len(s)
    BY <1>1, <1>2, <2>1
  <2>2. CASE i > Len(s)
    <3>1. i - Len(s) \in 1..Len(t) /\ Len(s) + (i - Len(s)) = i /\ ~(i <= Len(s))
      BY <1>2, <2>2
    <3>2. t[i - Len(s)] = u[Len(s) + (i - Len(s))]
      BY <3>1
    <3> QED
      BY <1>1, <3>1, <3>2
  <2> QED
    BY <1>2, <2>1, <2>2
<1> QED
  BY <1>1, <1>3, SeqEqual

LEMMA ShortConcat ==
  /\ \A a, b : <<a>> \o <<b>> = <<a, b>>
  /\ \A a, b, c : <<a, b>> \o <<c>> = <<a, b, c>>
  /\ \A a, b, c, d : <<a, b, c>> \o <<d>> = <<a, b, c, d>>
<1>1. ASSUME NEW a, NEW b
      PROVE  <<a>> \o <<b>> = <<a, b>>
  <2> DEFINE s == <<a>>
             t == <<b>>
             u == <<a, b>>
             S == {a, b}
  <2>1. s \in Seq(S) /\ t \in Seq(S) /\ u \in Seq(S)
    OBVIOUS
  <2>2. /\ Len(u) = 2 /\ Len(s) = 1 /\ Len(t) = 1
        /\ s[1] = u[1] /\ t[1] = u[2]
    OBVIOUS
  <2>3. s \o t = u
    <3> HIDE DEF s, t, u, S
    <3> QED
      <4>1. /\ Len(u) = Len(s) + Len(t) /\ \A i \in 1..Len(s) : s[i] = u[i]
            /\ \A i \in 1..Len(t) : t[i] = u[Len(s) + i]
        BY <2>2
      <4> QED
        BY <2>1, <4>1, Spelled
  <2> QED
    BY <2>3
<1>2. ASSUME NEW a, NEW b, NEW c
      PROVE  <<a, b>> \o <<c>> = <<a, b, c>>
  <2> DEFINE s == <<a, b>>
             t == <<c>>
             u == <<a, b, c>>
             S == {a, b, c}
  <2>1. s \in Seq(S) /\ t \in Seq(S) /\ u \in Seq(S)
    OBVIOUS
  <2>2. /\ Len(u) = Len(s) + Len(t) /\ \A i \in 1..Len(s) : s[i] = u[i]
        /\ \A i \in 1..Len(t) : t[i] = u[Len(s) + i]
    OBVIOUS
  <2>3. s \o t = u
    <3> HIDE DEF s, t, u, S
    <3> QED
      BY <2>1, <2>2, Spelled
  <2> QED
    BY <2>3
<1>3. ASSUME NEW a, NEW b, NEW c, NEW d
      PROVE  <<a, b, c>> \o <<d>> = <<a, b, c, d>>
  <2> DEFINE s == <<a, b, c>>
             t == <<d>>
             u == <<a, b, c, d>>
             S == {a, b, c, d}
  <2>1. s \in Seq(S) /\ t \in Seq(S) /\ u \in Seq(S)
    OBVIOUS
  <2>2. /\ Len(u) = Len(s) + Len(t) /\ \A i \in 1..Len(s) : s[i] = u[i]
        /\ \A i \in 1..Len(t) : t[i] = u[Len(s) + i]
    OBVIOUS
  <2>3. s \o t = u
    <3> HIDE DEF s, t, u, S
    <3> QED
      BY <2>1, <2>2, Spelled
  <2> QED
    BY <2>3
<1> QED
  BY <1>1, <1>2, <1>3

-----------------------------------------------------------------------------
(* What the symbols of a sentence do to the stacks.  A situation is how far   *)
(* the external declaration has come, the kinds of the semantic values, and    *)
(* the number of unclaimed types.                                            *)
Kinds == {"type", "outcome"}
Stages == {"outside", "typed", "written", "named", "opened", "body"}
Situation == [stage : Stages, kinds : Seq(Kinds), open : Nat]
Sit(stage, ks, n) == [stage |-> stage, kinds |-> ks, open |-> n]

Start == Sit("outside", <<>>, 0)
Claimed(stage) == Sit(stage, <<"type">>, 1)
Defined == Sit("body", <<"type", "outcome">>, 1)
Written == Sit("written", <<>>, 0)

(* The symbols between an external declaration's beginning and its end.       *)
Passes(it, u, v) ==
  \/ it.k = "program" /\ u = Start /\ v = Start
  \/ it.k = "type" /\ u = Start /\ v = Claimed("typed")
  \/ /\ it.k = "function_declarator" /\ it.n = 0 /\ it.name \in Names
     /\ u = Claimed("typed") /\ v = Claimed("named")
  \/ it.k = "decl_glb_fct" /\ u = Claimed("named") /\ v = Claimed("opened")
  \/ it.k = "compound" /\ u = Claimed("opened") /\ v = Defined
  \/ it.k = "function_definition" /\ u = Defined /\ v = Start
  \/ it.k = "declaration" /\ it.name = "global" /\ u = Claimed("typed") /\ v = Written
  \/ it.k = "external_declaration" /\ u = Written /\ v = Start

(* The symbols anywhere inside of one, and those of a function's body only.    *)
Anywhere(it) ==
  \/ it.k \in {"type", "declarator", "declarator_list", "parameter_list",
               "parameter_declaration"}
  \/ it.k = "function_declarator" /\ it.n = 1 /\ it.name \in Names

InBody(it) ==
  \/ it.k = "declaration" /\ it.name = "local"
  \/ it.k \in {"compound", "declaration_list", "instruction_list", "block_end",
               "instruction", "append", "expression_instruction", "if", "if_else",
               "while", "do", "for", "condition", "comparison", "assignment",
               "expression", "unary", "plus", "other", "call"}

(* The values such a symbol finds on the stack, those it leaves in their       *)
(* place, and the unclaimed types it leaves.                                 *)
Needs(it) ==
  CASE it.k \in {"parameter_declaration", "declaration", "expression_instruction",
                 "assignment", "unary"} -> <<"type">>
    [] it.k = "instruction_list" -> <<"outcome">>
    [] it.k \in {"append", "if", "while", "do"} -> <<"outcome", "outcome">>
    [] it.k = "if_else" -> <<"outcome", "outcome", "outcome">>
    [] it.k = "for" -> <<"type", "outcome", "type", "outcome">>
    [] it.k \in {"comparison", "plus", "other"} -> <<"type", "type">>
    [] it.k = "call" -> [i \in 1..it.n |-> "type"]
    [] OTHER -> <<>>

Gives(it) ==
  CASE it.k \in {"type", "expression", "assignment", "unary", "plus", "other",
                 "call"} -> <<"type">>
    [] it.k \in {"compound", "instruction_list", "instruction", "append",
                 "expression_instruction", "if", "if_else", "while", "do", "for",
                 "condition", "comparison"} -> <<"outcome">>
    [] OTHER -> <<>>

Opens(it) ==
  IF it.k = "type" THEN 1
  ELSE IF it.k \in {"parameter_declaration", "declaration"} THEN -1 ELSE 0

Works(it, u, v) ==
  /\ \/ Anywhere(it) /\ u.stage \in {"typed", "body"}
     \/ InBody(it) /\ u.stage = "body"
  /\ u.open >= 1 /\ u.open + Opens(it) >= 1
  /\ \E r \in Seq(Kinds) :
       /\ r # <<>> /\ u.kinds = r \o Needs(it)
       /\ v = Sit(u.stage, r \o Gives(it), u.open + Opens(it))

Effect(it, u, v) == Passes(it, u, v) \/ Works(it, u, v)

(* The symbols of s, one after the other, lead from situation u to v.         *)
Leads(s, u, v) ==
  \E w \in [1..Len(s) + 1 -> Situation] :
    /\ w[1] = u /\ w[Len(s) + 1] = v
    /\ \A i \in 1..Len(s) : Effect(s[i], w[i], w[i + 1])

LEMMA LeadsNone ==
  ASSUME NEW u \in Situation
  PROVE  Leads(<<>>, u, u)
<1> DEFINE w == [i \in 1..1 |-> u]
<1>1. Len(<<>>) = 0 /\ w \in [1..0 + 1 -> Situation] /\ w[1] = u
  BY EmptySeq
<1>2. \A i \in 1..0 : Effect(<<>>[i], w[i], w[i + 1])
  OBVIOUS
<1> HIDE DEF w
<1> QED
  BY <1>1, <1>2 DEF Leads

LEMMA LeadsOne ==
  ASSUME NEW it, NEW u \in Situation, NEW v \in Situation, Effect(it, u, v)
  PROVE  Leads(<<it>>, u, v)
<1> DEFINE w == [i \in 1..2 |-> IF i = 1 THEN u ELSE v]
<1>1. Len(<<it>>) = 1 /\ w \in [1..1 + 1 -> Situation] /\ w[1] = u /\ w[1 + 1] = v
  OBVIOUS
<1>2. \A i \in 1..1 : i = 1 /\ <<it>>[i] = it
  OBVIOUS
<1> HIDE DEF w
<1>3. \A i \in 1..1 : Effect(<<it>>[i], w[i], w[i + 1])
  BY <1>1, <1>2
<1> QED
  BY <1>1, <1>3 DEF Leads

LEMMA LeadsEnds ==
  ASSUME NEW s, Len(s) \in Nat, NEW u, NEW v, Leads(s, u, v)
  PROVE  u \in Situation /\ v \in Situation
<1>1. PICK w \in [1..Len(s) + 1 -> Situation] : w[1] = u /\ w[Len(s) + 1] = v
  BY DEF Leads
<1>2. 1 \in 1..Len(s) + 1 /\ Len(s) + 1 \in 1..Len(s) + 1
  OBVIOUS
<1> QED
  BY <1>1, <1>2

LEMMA LeadsJoined ==
  ASSUME NEW s, IsTuple(s), NEW t, IsTuple(t), NEW u, NEW m, NEW v,
         Leads(s, u, m), Leads(t, m, v)
  PROVE  Leads(s \o t, u, v)
<1>1. IsJoined(s, t, s \o t)
  BY Joined
<1>2. PICK a \in [1..Len(s) + 1 -> Situation] :
        /\ a[1] = u /\ a[Len(s) + 1] = m
        /\ \A i \in 1..Len(s) : Effect(s[i], a[i], a[i + 1])
  BY DEF Leads
<1>3. PICK b \in [1..Len(t) + 1 -> Situation] :
        /\ b[1] = m /\ b[Len(t) + 1] = v
        /\ \A i \in 1..Len(t) : Effect(t[i], b[i], b[i + 1])
  BY DEF Leads
<1> DEFINE w == [i \in 1..Len(s) + Len(t) + 1 |->
                   IF i <= Len(s) THEN a[i] ELSE b[i - Len(s)]]
<1>4. Len(s) \in Nat /\ Len(t) \in Nat /\ Len(s \o t) = Len(s) + Len(t)
  BY <1>1 DEF IsJoined
<1>5. w \in [1..Len(s) + Len(t) + 1 -> Situation]
  <2> SUFFICES ASSUME NEW i \in 1..Len(s) + Len(t) + 1
               PROVE  (IF i <= Len(s) THEN a[i] ELSE b[i - Len(s)]) \in Situation
    OBVIOUS
  <2>1. i <= Len(s) => i \in 1..Len(s) + 1
    BY <1>4
  <2>2. ~(i <= Len(s)) => i - Len(s) \in 1..Len(t) + 1
    BY <1>4
  <2> QED
    BY <1>2, <1>3, <2>1, <2>2
<1>6. w[1] = u
  <2>1. 1 \in 1..Len(s) + Len(t) + 1 /\ (~(1 <= Len(s)) => Len(s) = 0)
    BY <1>4
  <2>2. ~(1 <= Len(s)) => w[1] = b[1] /\ a[1] = m
    BY <1>2, <2>1
  <2> QED
    BY <1>2, <1>3, <2>1, <2>2
<1>7. w[Len(s) + Len(t) + 1] = v
  <2>1. /\ Len(s) + Len(t) + 1 \in 1..Len(s) + Len(t) + 1
        /\ ~(Len(s) + Len(t) + 1 <= Len(s))
        /\ Len(s) + Len(t) + 1 - Len(s) = Len(t) + 1
    BY <1>4
  <2> QED
    BY <1>3, <2>1
<1>8. ASSUME NEW i \in 1..Len(s) + Len(t)
      PROVE  Effect((s \o t)[i], w[i], w[i + 1])
  <2>1. CASE i < Len(s)
    <3>1. /\ i \in 1..Len(s) /\ i + 1 <= Len(s) /\ i <= Len(s)
          /\ i \in 1..Len(s) + Len(t) + 1 /\ i + 1 \in 1..Len(s) + Len(t) + 1
      BY <1>4, <2>1
    <3>2. w[i] = a[i] /\ w[i + 1] = a[i + 1]
      BY <3>1
    <3>3. (s \o t)[i] = s[i]
      BY <1>1, <3>1 DEF IsJoined
    <3> QED
      BY <1>2, <3>1, <3>2, <3>3
  <2>2. CASE i = Len(s)
    <3>1. /\ i \in 1..Len(s) /\ ~(i + 1 <= Len(s)) /\ i <= Len(s) /\ i + 1 - Len(s) = 1
          /\ i \in 1..Len(s) + Len(t) + 1 /\ i + 1 \in 1..Len(s) + Len(t) + 1
      BY <1>4, <2>2
    <3>2. w[i] = a[i] /\ w[i + 1] = b[1]
      BY <3>1
    <3>3. (s \o t)[i] = s[i]
      BY <1>1, <3>1 DEF IsJoined
    <3> QED
      BY <1>2, <1>3, <2>2, <3>1, <3>2, <3>3
  <2>3. CASE i > Len(s)
    <3> DEFINE j == i - Len(s)
    <3>1. /\ j \in 1..Len(t) /\ Len(s) + j = i /\ i + 1 - Len(s) = j + 1
          /\ ~(i <= Len(s)) /\ ~(i + 1 <= Len(s))
          /\ i \in 1..Len(s) + Len(t) + 1 /\ i + 1 \in 1..Len(s) + Len(t) + 1
      BY <1>4, <2>3
    <3>2. w[i] = b[j] /\ w[i + 1] = b[j + 1]
      BY <3>1
    <3> HIDE DEF j
    <3>3. (s \o t)[i] = t[j]
      BY <1>1, <3>1 DEF IsJoined
    <3> QED
      BY <1>3, <3>1, <3>2, <3>3
  <2> QED
    BY <1>4, <2>1, <2>2, <2>3
<1> HIDE DEF w
<1> QED
  BY <1>4, <1>5, <1>6, <1>7, <1>8 DEF Leads

(* The first symbol of a sentence has its effect, and so has what replaces it  *)
(* if it leads to the same situation.                                        *)
LEMMA LeadsFirst ==
  ASSUME NEW s, IsTuple(s), s # <<>>, NEW u, NEW v, Leads(s, u, v)
  PROVE  \E m \in Situation :
           /\ Effect(Head(s), u, m)
           /\ \A items, x : (IsTuple(items) /\ Leads(items, x, m))
                              => Leads(items \o Tail(s), x, v)
<1> DEFINE S == {s[i] : i \in DOMAIN s}
           t == Tail(s)
<1>1. s \in Seq(S)
  BY DEF IsTuple
<1> HIDE DEF S
<1>2. /\ Len(s) \in Nat /\ Len(s) > 0 /\ t \in Seq(S) /\ Len(t) = Len(s) - 1
      /\ \A i \in 1..Len(t) : t[i] = s[i + 1]
  BY <1>1, EmptySeq, HeadTailProperties
<1>3. Head(s) = s[1] /\ IsTuple(t)
  <2>1. <<>> \in Seq(S) /\ Len(<<>>) = 0
    BY EmptySeq
  <2>2. IsReplaced(s, <<>>, <<>> \o Tail(s))
    BY Replaced, ShortTuples
  <2> QED
    BY <1>2, <2>2, Tuples DEF IsReplaced
<1>4. PICK w \in [1..Len(s) + 1 -> Situation] :
        /\ w[1] = u /\ w[Len(s) + 1] = v
        /\ \A i \in 1..Len(s) : Effect(s[i], w[i], w[i + 1])
  BY DEF Leads
<1> DEFINE b == [i \in 1..Len(t) + 1 |-> w[i + 1]]
<1> HIDE DEF t
<1>5. w[2] \in Situation /\ Effect(Head(s), u, w[2])
  <2>1. 1 \in 1..Len(s) /\ 2 \in 1..Len(s) + 1 /\ 1 + 1 = 2
    BY <1>2
  <2> QED
    BY <1>3, <1>4, <2>1
<1>6. Leads(t, w[2], v)
  <2>1. b \in [1..Len(t) + 1 -> Situation]
    BY <1>2
  <2>2. b[1] = w[2]
    <3>1. 1 \in 1..Len(t) + 1 /\ 1 + 1 = 2
      BY <1>2
    <3> QED
      BY <3>1
  <2>3. b[Len(t) + 1] = v
    <3>1. Len(t) + 1 \in 1..Len(t) + 1 /\ Len(t) + 1 + 1 = Len(s) + 1
      BY <1>2
    <3> QED
      BY <1>4, <3>1
  <2>4. ASSUME NEW i \in 1..Len(t)
        PROVE  Effect(t[i], b[i], b[i + 1])
    <3>1. /\ i + 1 \in 1..Len(s) /\ i \in 1..Len(t) + 1 /\ i + 1 \in 1..Len(t) + 1
      BY <1>2
    <3>2. b[i] = w[i + 1] /\ b[i + 1] = w[i + 1 + 1] /\ t[i] = s[i + 1]
      BY <1>2, <3>1
    <3> HIDE DEF b
    <3> QED
      BY <1>4, <3>1, <3>2
  <2> HIDE DEF b
  <2> QED
    BY <2>1, <2>2, <2>3, <2>4 DEF Leads
<1>7. ASSUME NEW items, NEW x, IsTuple(items), Leads(items, x, w[2])
      PROVE  Leads(items \o t, x, v)
  BY <1>3, <1>6, <1>7, LeadsJoined
<1> QED
  BY <1>5, <1>7 DEF t

-----------------------------------------------------------------------------
(* The symbols of a function's body.                                         *)

T == "type"
O == "outcome"

(* In the body of a definition, t lies on top of the values r.                *)
Above(r, t, n) == Sit("body", r \o t, n)
Stack == Seq(Kinds) \ {<<>>}

PlainKinds ==
  {"declaration_list", "instruction_list", "block_end", "instruction", "append",
   "expression_instruction", "if", "if_else", "while", "do", "for", "condition",
   "comparison", "assignment", "expression", "unary", "plus", "other", "call"}

LEMMA Roles ==
  ASSUME NEW it
  PROVE  /\ it.k \in {"declaration_list", "block_end"} => Needs(it) = <<>> /\ Gives(it) = <<>>
         /\ it.k = "instruction_list" => Needs(it) = <<O>> /\ Gives(it) = <<O>>
         /\ it.k \in {"instruction", "condition"} => Needs(it) = <<>> /\ Gives(it) = <<O>>
         /\ it.k \in {"append", "if", "while", "do"} => Needs(it) = <<O, O>> /\ Gives(it) = <<O>>
         /\ it.k = "if_else" => Needs(it) = <<O, O, O>> /\ Gives(it) = <<O>>
         /\ it.k = "for" => Needs(it) = <<T, O, T, O>> /\ Gives(it) = <<O>>
         /\ it.k = "expression_instruction" => Needs(it) = <<T>> /\ Gives(it) = <<O>>
         /\ it.k = "comparison" => Needs(it) = <<T, T>> /\ Gives(it) = <<O>>
         /\ it.k \in {"assignment", "unary"} => Needs(it) = <<T>> /\ Gives(it) = <<T>>
         /\ it.k \in {"plus", "other"} => Needs(it) = <<T, T>> /\ Gives(it) = <<T>>
         /\ it.k = "expression" => Needs(it) = <<>> /\ Gives(it) = <<T>>
         /\ it.k = "call" => Needs(it) = [i \in 1..it.n |-> T] /\ Gives(it) = <<T>>
<1>1. /\ it.k \in {"declaration_list", "block_end"} => Needs(it) = <<>> /\ Gives(it) = <<>>
      /\ it.k = "instruction_list" => Needs(it) = <<O>> /\ Gives(it) = <<O>>
      /\ it.k \in {"instruction", "condition"} => Needs(it) = <<>> /\ Gives(it) = <<O>>
  BY DEF Needs, Gives, T, O
<1>2. /\ it.k \in {"append", "if", "while", "do"} => Needs(it) = <<O, O>> /\ Gives(it) = <<O>>
      /\ it.k = "if_else" => Needs(it) = <<O, O, O>> /\ Gives(it) = <<O>>
      /\ it.k = "for" => Needs(it) = <<T, O, T, O>> /\ Gives(it) = <<O>>
  BY DEF Needs, Gives, T, O
<1>3. /\ it.k = "expression_instruction" => Needs(it) = <<T>> /\ Gives(it) = <<O>>
      /\ it.k = "comparison" => Needs(it) = <<T, T>> /\ Gives(it) = <<O>>
      /\ it.k \in {"assignment", "unary"} => Needs(it) = <<T>> /\ Gives(it) = <<T>>
  BY DEF Needs, Gives, T, O
<1>4. /\ it.k \in {"plus", "other"} => Needs(it) = <<T, T>> /\ Gives(it) = <<T>>
      /\ it.k = "expression" => Needs(it) = <<>> /\ Gives(it) = <<T>>
      /\ it.k = "call" => Needs(it) = [i \in 1..it.n |-> T] /\ Gives(it) = <<T>>
  BY DEF Needs, Gives, T, O
<1> QED
  BY <1>1, <1>2, <1>3, <1>4

LEMMA ShortStacks ==
  /\ T \in Kinds /\ O \in Kinds
  /\ \A S : <<>> \in Seq(S)
  /\ \A a \in Kinds : <<a>> \in Seq(Kinds)
  /\ \A a, b \in Kinds : <<a, b>> \in Seq(Kinds)
  /\ \A a, b, c \in Kinds : <<a, b, c>> \in Seq(Kinds)
  /\ \A a, b, c, d \in Kinds : <<a, b, c, d>> \in Seq(Kinds)
<1>1. T \in Kinds /\ O \in Kinds
  BY DEF T, O, Kinds
<1>2. \A S : <<>> \in Seq(S)
  BY EmptySeq
<1> QED
  BY <1>1, <1>2

(* What such a symbol does, whatever lies between r and what it needs.        *)
LEMMA WorksAbove ==
  ASSUME NEW it, it.k \in PlainKinds \/ (it.k = "compound" /\ Needs(it) = <<>>),
         NEW r \in Stack, NEW n \in Nat, n >= 1,
         NEW p \in Seq(Kinds), Needs(it) \in Seq(Kinds), Gives(it) \in Seq(Kinds)
  PROVE  /\ Above(r, p \o Needs(it), n) \in Situation
         /\ Above(r, p \o Gives(it), n) \in Situation
         /\ Effect(it, Above(r, p \o Needs(it), n), Above(r, p \o Gives(it), n))
<1> DEFINE q == r \o p
           u == Above(r, p \o Needs(it), n)
           v == Above(r, p \o Gives(it), n)
<1>1. q \in Seq(Kinds) /\ q # <<>>
  BY ConcatProperties, ConcatEqualIffEmpty DEF Stack
<1>2. r \o (p \o Needs(it)) = q \o Needs(it) /\ r \o (p \o Gives(it)) = q \o Gives(it)
  <2>1. r \in Seq(Kinds)
    BY DEF Stack
  <2> DEFINE a == Needs(it)
             b == Gives(it)
  <2>2. a \in Seq(Kinds) /\ b \in Seq(Kinds)
    OBVIOUS
  <2> HIDE DEF a, b
  <2>3. (r \o p) \o a = r \o (p \o a)
    BY <2>1, <2>2, ConcatAssociative, SMTT(30)
  <2>4. (r \o p) \o b = r \o (p \o b)
    BY <2>1, <2>2, ConcatAssociative, SMTT(30)
  <2> QED
    BY <2>3, <2>4 DEF a, b
<1>3. q \o Needs(it) \in Seq(Kinds) /\ q \o Gives(it) \in Seq(Kinds)
  BY <1>1, ConcatProperties
<1> HIDE DEF q
<1>4. /\ u.stage = "body" /\ u.kinds = q \o Needs(it) /\ u.open = n
      /\ v = Sit("body", q \o Gives(it), n)
  BY <1>2 DEF Above, Sit
<1>5. u \in Situation /\ v \in Situation
  BY <1>2, <1>3 DEF Above, Sit, Situation, Stages
<1>6. InBody(it) /\ Opens(it) = 0
  BY DEF InBody, Opens, PlainKinds
<1> HIDE DEF u, v
<1>7. Works(it, u, v)
  BY <1>1, <1>4, <1>6 DEF Works
<1> QED
  BY <1>5, <1>7 DEF Effect, u, v

LEMMA PlainEffect ==
  ASSUME NEW it, it.k \in PlainKinds, NEW u \in Situation, NEW v, Effect(it, u, v)
  PROVE  \E r \in Stack, n \in Nat :
           /\ n >= 1 /\ u = Above(r, Needs(it), n) /\ v = Above(r, Gives(it), n)
<1>1. ~Passes(it, u, v)
  BY DEF Passes, PlainKinds
<1>2. ~Anywhere(it) /\ Opens(it) = 0
  BY DEF Anywhere, PlainKinds, Opens
<1>3. u.stage = "body" /\ u.open >= 1
  BY <1>1, <1>2 DEF Effect, Works
<1>4. PICK r \in Seq(Kinds) : r # <<>> /\ u.kinds = r \o Needs(it)
                              /\ v = Sit(u.stage, r \o Gives(it), u.open + Opens(it))
  BY <1>1 DEF Effect, Works
<1>5. u.open \in Nat /\ u = Sit(u.stage, u.kinds, u.open)
  BY DEF Situation, Sit
<1>6. u = Above(r, Needs(it), u.open) /\ v = Above(r, Gives(it), u.open)
  BY <1>2, <1>3, <1>4, <1>5 DEF Above
<1> QED
  BY <1>3, <1>4, <1>5, <1>6 DEF Stack

(* A symbol that needs nothing pushes a value, on whatever lies there; one     *)
(* that is reduced takes what it needs.                                      *)
LEMMA PushesAbove ==
  ASSUME NEW it, it.k \in {"expression", "instruction", "condition"},
         NEW k \in Kinds, Gives(it) = <<k>>,
         NEW r \in Stack, NEW n \in Nat, n >= 1
  PROVE  /\ Effect(it, Above(r, <<>>, n), Above(r, <<k>>, n))
         /\ \A a \in Kinds : Effect(it, Above(r, <<a>>, n), Above(r, <<a, k>>, n))
         /\ \A a, b \in Kinds : Effect(it, Above(r, <<a, b>>, n), Above(r, <<a, b, k>>, n))
         /\ \A a, b, c \in Kinds :
              Effect(it, Above(r, <<a, b, c>>, n), Above(r, <<a, b, c, k>>, n))
<1>1. it.k \in PlainKinds /\ Needs(it) = <<>>
  BY Roles DEF PlainKinds
<1>2. <<>> \in Seq(Kinds) /\ <<k>> \in Seq(Kinds)
  BY ShortStacks
<1>3. ASSUME NEW p \in Seq(Kinds)
      PROVE  Effect(it, Above(r, p, n), Above(r, p \o <<k>>, n))
  <2>1. p \o <<>> = p
    BY ConcatEmptySeq
  <2> QED
    BY <1>1, <1>2, <2>1, WorksAbove
<1>4. <<>> \o <<k>> = <<k>>
  BY <1>2, ConcatEmptySeq
<1>5. Effect(it, Above(r, <<>>, n), Above(r, <<k>>, n))
  BY <1>2, <1>3, <1>4
<1>6. ASSUME NEW a \in Kinds
      PROVE  Effect(it, Above(r, <<a>>, n), Above(r, <<a, k>>, n))
  BY <1>3, ShortStacks, ShortConcat
<1>7. ASSUME NEW a \in Kinds, NEW b \in Kinds
      PROVE  Effect(it, Above(r, <<a, b>>, n), Above(r, <<a, b, k>>, n))
  BY <1>3, ShortStacks, ShortConcat
<1>8. ASSUME NEW a \in Kinds, NEW b \in Kinds, NEW c \in Kinds
      PROVE  Effect(it, Above(r, <<a, b, c>>, n), Above(r, <<a, b, c, k>>, n))
  BY <1>3, ShortStacks, ShortConcat, ZenonT(30)
<1> QED
  BY <1>5, <1>6, <1>7, <1>8

LEMMA ReducesAbove ==
  ASSUME NEW it, it.k \in PlainKinds, NEW r \in Stack, NEW n \in Nat, n >= 1,
         Needs(it) \in Seq(Kinds), Gives(it) \in Seq(Kinds)
  PROVE  Effect(it, Above(r, Needs(it), n), Above(r, Gives(it), n))
<1>1. <<>> \in Seq(Kinds) /\ <<>> \o Needs(it) = Needs(it) /\ <<>> \o Gives(it) = Gives(it)
  BY ShortStacks, ConcatEmptySeq
<1>2. Effect(it, Above(r, <<>> \o Needs(it), n), Above(r, <<>> \o Gives(it), n))
  BY <1>1, WorksAbove
<1> QED
  BY <1>1, <1>2

LEMMA AboveTyped ==
  ASSUME NEW r \in Stack, NEW t \in Seq(Kinds), NEW n \in Nat
  PROVE  Above(r, t, n) \in Situation
<1>1. r \o t \in Seq(Kinds)
  BY ConcatProperties DEF Stack
<1> QED
  BY <1>1 DEF Above, Sit, Situation, Stages

-----------------------------------------------------------------------------
(* Expansions: what takes the place of a symbol leads where it leads.         *)

IsSymbol(it) == \E x, n : n \in Nat /\ it = Named(it.k, x, n)
IsSentence(s) == IsTuple(s) /\ \A i \in DOMAIN s : IsSymbol(s[i])

Replaces(it, items) ==
  /\ IsSentence(items)
  /\ \A u, v \in Situation : Effect(it, u, v) => Leads(items, u, v)

(* In the body it is enough to look at what lies above.                       *)
LEMMA ReplacesInBody ==
  ASSUME NEW it, it.k \in PlainKinds, NEW items, IsSentence(items),
         \A r \in Stack, n \in Nat :
           n >= 1 => Leads(items, Above(r, Needs(it), n), Above(r, Gives(it), n))
  PROVE  Replaces(it, items)
<1>1. ASSUME NEW u \in Situation, NEW v \in Situation, Effect(it, u, v)
      PROVE  Leads(items, u, v)
  BY <1>1, PlainEffect
<1> QED
  BY <1>1 DEF Replaces

LEMMA LeadsTwo ==
  ASSUME NEW a, NEW b, NEW u \in Situation, NEW x \in Situation, NEW v \in Situation,
         Effect(a, u, x), Effect(b, x, v)
  PROVE  Leads(<<a, b>>, u, v)
<1>1. Leads(<<a>>, u, x) /\ Leads(<<b>>, x, v)
  BY LeadsOne
<1>2. Leads(<<a>> \o <<b>>, u, v)
  BY <1>1, LeadsJoined, ShortTuples
<1> QED
  BY <1>2, ShortConcat

LEMMA LeadsThree ==
  ASSUME NEW a, NEW b, NEW c, NEW u \in Situation, NEW x \in Situation,
         NEW y \in Situation, NEW v \in Situation,
         Effect(a, u, x), Effect(b, x, y), Effect(c, y, v)
  PROVE  Leads(<<a, b, c>>, u, v)
<1>1. Leads(<<a, b>>, u, y) /\ Leads(<<c>>, y, v)
  BY LeadsOne, LeadsTwo
<1>2. Leads(<<a, b>> \o <<c>>, u, v)
  BY <1>1, LeadsJoined, ShortTuples
<1> QED
  BY <1>2, ShortConcat

LEMMA LeadsFour ==
  ASSUME NEW a, NEW b, NEW c, NEW d, NEW u \in Situation, NEW x \in Situation,
         NEW y \in Situation, NEW z \in Situation, NEW v \in Situation,
         Effect(a, u, x), Effect(b, x, y), Effect(c, y, z), Effect(d, z, v)
  PROVE  Leads(<<a, b, c, d>>, u, v)
<1>1. Leads(<<a, b, c>>, u, z) /\ Leads(<<d>>, z, v)
  BY LeadsOne, LeadsThree
<1>2. Leads(<<a, b, c>> \o <<d>>, u, v)
  BY <1>1, LeadsJoined, ShortTuples
<1> QED
  BY <1>2, ShortConcat

LEMMA Symbols ==
  /\ \A k : IsSymbol(Item(k)) /\ Item(k).k = k /\ Item(k).n = 0
  /\ \A k, x : \A n \in Nat :
       /\ IsSymbol(Named(k, x, n)) /\ Named(k, x, n).k = k
       /\ Named(k, x, n).name = x /\ Named(k, x, n).n = n
<1>1. ASSUME NEW k, NEW x, NEW n \in Nat
      PROVE  /\ Named(k, x, n).k = k /\ Named(k, x, n).name = x
             /\ Named(k, x, n).n = n
  BY DEF Named
<1>2. ASSUME NEW k, NEW x, NEW n \in Nat
      PROVE  IsSymbol(Named(k, x, n))
  BY <1>1, ZenonT(30) DEF IsSymbol
<1>3. ASSUME NEW k
      PROVE  \E x : Item(k) = Named(k, x, 0) /\ 0 \in Nat
  BY Zenon DEF Item, Named
<1>4. ASSUME NEW k
      PROVE  IsSymbol(Item(k)) /\ Item(k).k = k /\ Item(k).n = 0
  <2>1. PICK x : Item(k) = Named(k, x, 0) /\ 0 \in Nat
    BY <1>3
  <2> QED
    BY <1>1, <1>2, <2>1
<1> QED
  BY <1>1, <1>2, <1>4

LEMMA Sentences ==
  /\ IsSentence(<<>>)
  /\ \A s, t : IsSentence(s) /\ IsSentence(t) => IsSentence(s \o t)
  /\ \A a : IsSymbol(a) => IsSentence(<<a>>)
  /\ \A a, b : IsSymbol(a) /\ IsSymbol(b) => IsSentence(<<a, b>>)
  /\ \A a, b, c :
       IsSymbol(a) /\ IsSymbol(b) /\ IsSymbol(c) => IsSentence(<<a, b, c>>)
  /\ \A a, b, c, d :
       IsSymbol(a) /\ IsSymbol(b) /\ IsSymbol(c) /\ IsSymbol(d)
         => IsSentence(<<a, b, c, d>>)
<1>1. IsSentence(<<>>) /\ \A a : IsSymbol(a) => IsSentence(<<a>>)
  BY ShortTuples, ShortItems DEF IsSentence
<1>2. ASSUME NEW s, NEW t, IsSentence(s), IsSentence(t)
      PROVE  IsSentence(s \o t)
  <2>1. IsJoined(s, t, s \o t)
    BY <1>2, Joined DEF IsSentence
  <2> QED
    BY <1>2, <2>1 DEF IsSentence, IsJoined
<1>3. ASSUME NEW a, NEW b, IsSymbol(a), IsSymbol(b)
      PROVE  IsSentence(<<a, b>>)
  BY <1>1, <1>2, <1>3, ShortConcat, Zenon
<1>4. ASSUME NEW a, NEW b, NEW c, IsSymbol(a), IsSymbol(b), IsSymbol(c)
      PROVE  IsSentence(<<a, b, c>>)
  <2>1. IsSentence(<<a, b>>) /\ IsSentence(<<c>>)
    BY <1>1, <1>3, <1>4
  <2>2. IsSentence(<<a, b>> \o <<c>>)
    BY <1>2, <2>1
  <2> QED
    BY <2>2, ShortConcat
<1>5. ASSUME NEW a, NEW b, NEW c, NEW d,
             IsSymbol(a), IsSymbol(b), IsSymbol(c), IsSymbol(d)
      PROVE  IsSentence(<<a, b, c, d>>)
  <2>1. IsSentence(<<a, b, c>>) /\ IsSentence(<<d>>)
    BY <1>1, <1>4, <1>5
  <2>2. IsSentence(<<a, b, c>> \o <<d>>)
    BY <1>2, <2>1
  <2> QED
    BY <2>2, ShortConcat
<1> QED
  BY <1>1, <1>2, <1>3, <1>4, <1>5

(* Symbols that leave the stacks as they are, and those of a declaration.      *)
IsInner(u, stages) ==
  u \in Situation /\ u.stage \in stages /\ u.kinds # <<>> /\ u.open >= 1

Pushed(u) == Sit(u.stage, u.kinds \o <<T>>, u.open + 1)

LEMMA InnerTyped ==
  ASSUME NEW u, NEW stages, IsInner(u, stages)
  PROVE  /\ u.kinds \in Seq(Kinds) /\ u.open \in Nat /\ u.stage \in stages
         /\ u = Sit(u.stage, u.kinds, u.open)
         /\ u.kinds \o <<>> = u.kinds
         /\ IsInner(Pushed(u), stages)
<1>1. /\ u.kinds \in Seq(Kinds) /\ u.open \in Nat /\ u.stage \in stages
      /\ u = Sit(u.stage, u.kinds, u.open) /\ u.stage \in Stages
  BY DEF IsInner, Situation, Sit
<1>2. u.kinds \o <<>> = u.kinds
  BY <1>1, ConcatEmptySeq
<1>3. u.kinds \o <<T>> \in Seq(Kinds) /\ u.kinds \o <<T>> # <<>>
  <2>1. <<T>> \in Seq(Kinds)
    BY ShortStacks
  <2> QED
    BY <1>1, <2>1, ConcatProperties, ConcatEqualIffEmpty DEF IsInner
<1>4. u.open + 1 \in Nat /\ u.open + 1 >= 1
  BY <1>1
<1>5. IsInner(Pushed(u), stages)
  BY <1>1, <1>3, <1>4 DEF IsInner, Pushed, Sit, Situation
<1> QED
  BY <1>1, <1>2, <1>5

IsNeutral(it, stages) ==
  \/ /\ stages = {"typed", "body"}
     /\ \/ it.k \in {"declarator", "declarator_list", "parameter_list"}
        \/ it.k = "function_declarator" /\ it.n = 1 /\ it.name \in Names
  \/ stages = {"body"} /\ it.k \in {"declaration_list", "block_end"}

LEMMA NeutralEffect ==
  ASSUME NEW it, NEW stages, IsNeutral(it, stages), NEW u \in Situation, NEW v
  PROVE  Effect(it, u, v) <=> v = u /\ IsInner(u, stages)
<1>1. /\ ~Passes(it, u, v) /\ Opens(it) = 0 /\ Needs(it) = <<>> /\ Gives(it) = <<>>
  <2>1. ~Passes(it, u, v) /\ Opens(it) = 0
    BY DEF IsNeutral, Passes, Opens
  <2>2. Needs(it) = <<>> /\ Gives(it) = <<>>
    BY DEF IsNeutral, Needs, Gives
  <2> QED
    BY <2>1, <2>2
<1>2. (\/ Anywhere(it) /\ u.stage \in {"typed", "body"}
       \/ InBody(it) /\ u.stage = "body") <=> u.stage \in stages
  BY DEF IsNeutral, Anywhere, InBody
<1>3. u.open \in Nat /\ u.open + 0 = u.open /\ u.kinds \in Seq(Kinds)
  BY DEF Situation
<1>4. ASSUME Effect(it, u, v)
      PROVE  v = u /\ IsInner(u, stages)
  <2>1. PICK r \in Seq(Kinds) :
          r # <<>> /\ u.kinds = r \o <<>> /\ v = Sit(u.stage, r \o <<>>, u.open + 0)
    BY <1>1, <1>4 DEF Effect, Works
  <2>2. u.open >= 1 /\ u.stage \in stages
    BY <1>1, <1>2, <1>4 DEF Effect, Works
  <2>3. r \o <<>> = r
    BY ConcatEmptySeq
  <2>4. IsInner(u, stages)
    BY <2>1, <2>2, <2>3 DEF IsInner
  <2> QED
    BY <1>3, <2>1, <2>4, InnerTyped
<1>5. ASSUME v = u, IsInner(u, stages)
      PROVE  Effect(it, u, v)
  <2>1. u.kinds # <<>> /\ u.kinds = u.kinds \o <<>> /\ u = Sit(u.stage, u.kinds, u.open)
        /\ u.open >= 1 /\ u.stage \in stages
    BY <1>5, InnerTyped DEF IsInner
  <2>2. \E r \in Seq(Kinds) :
          /\ r # <<>> /\ u.kinds = r \o Needs(it)
          /\ v = Sit(u.stage, r \o Gives(it), u.open + Opens(it))
    BY <1>1, <1>3, <1>5, <2>1
  <2>3. u.open + Opens(it) >= 1
    BY <1>1, <1>3, <2>1
  <2> QED
    BY <1>2, <2>1, <2>2, <2>3 DEF Effect, Works
<1> QED
  BY <1>4, <1>5

(* A type is pushed twice, and claimed twice, by the symbol that reduces.      *)
IsClaim(it, stages) ==
  \/ it.k = "parameter_declaration" /\ stages = {"typed", "body"}
  \/ it.k = "declaration" /\ it.name = "local" /\ stages = {"body"}

LEMMA TypeEffect ==
  ASSUME NEW it, it.k = "type", NEW u, IsInner(u, {"typed", "body"})
  PROVE  Effect(it, u, Pushed(u))
<1>1. /\ u.kinds # <<>> /\ u.kinds \in Seq(Kinds) /\ u.kinds = u.kinds \o <<>>
      /\ u.open \in Nat /\ u.open >= 1 /\ u.stage \in {"typed", "body"}
  BY InnerTyped DEF IsInner
<1>2. Needs(it) = <<>> /\ Gives(it) = <<T>> /\ Opens(it) = 1 /\ Anywhere(it)
  BY DEF Needs, Gives, Opens, Anywhere, T
<1>3. \E r \in Seq(Kinds) :
        /\ r # <<>> /\ u.kinds = r \o Needs(it)
        /\ Pushed(u) = Sit(u.stage, r \o Gives(it), u.open + Opens(it))
  BY <1>1, <1>2 DEF Pushed
<1>4. u.open + Opens(it) >= 1
  BY <1>1, <1>2
<1> QED
  BY <1>1, <1>2, <1>3, <1>4 DEF Effect, Works

LEMMA ClaimEffect ==
  ASSUME NEW it, NEW stages, IsClaim(it, stages)
  PROVE  /\ \A u : IsInner(u, stages) => Effect(it, Pushed(u), u)
         /\ \A u \in Situation, v \in Situation :
              Effect(it, u, v) => IsInner(v, stages) /\ u = Pushed(v)
<1>1. Needs(it) = <<T>> /\ Gives(it) = <<>> /\ Opens(it) = -1
  BY DEF IsClaim, Needs, Gives, Opens, T
<1>2. ASSUME NEW u
      PROVE  (\/ Anywhere(it) /\ u.stage \in {"typed", "body"}
              \/ InBody(it) /\ u.stage = "body") <=> u.stage \in stages
  BY DEF IsClaim, Anywhere, InBody
<1>3. ASSUME NEW u, IsInner(u, stages)
      PROVE  Effect(it, Pushed(u), u)
  <2> DEFINE p == Pushed(u)
  <2>1. /\ u.kinds # <<>> /\ u.kinds \in Seq(Kinds) /\ u.kinds = u.kinds \o <<>>
        /\ u.open \in Nat /\ u.open >= 1 /\ u.stage \in stages
        /\ u = Sit(u.stage, u.kinds, u.open)
    BY <1>3, InnerTyped DEF IsInner
  <2>2. p.stage = u.stage /\ p.kinds = u.kinds \o <<T>> /\ p.open = u.open + 1
    BY DEF Pushed, Sit
  <2> HIDE DEF p
  <2>3. p.open >= 1 /\ p.open + Opens(it) >= 1 /\ p.open + Opens(it) = u.open
    BY <1>1, <2>1, <2>2
  <2>4. \E r \in Seq(Kinds) :
          /\ r # <<>> /\ p.kinds = r \o Needs(it)
          /\ u = Sit(p.stage, r \o Gives(it), p.open + Opens(it))
    BY <1>1, <2>1, <2>2, <2>3
  <2>5. Effect(it, p, u)
    BY <1>2, <2>1, <2>2, <2>3, <2>4 DEF Effect, Works
  <2> QED
    BY <2>5 DEF p
<1>4. ASSUME NEW u \in Situation, NEW v \in Situation, Effect(it, u, v)
      PROVE  IsInner(v, stages) /\ u = Pushed(v)
  <2>1. ~Passes(it, u, v)
    BY DEF IsClaim, Passes
  <2>2. u.stage \in stages /\ u.open + Opens(it) >= 1
    BY <1>2, <1>4, <2>1 DEF Effect, Works
  <2>3. PICK r \in Seq(Kinds) : r # <<>> /\ u.kinds = r \o <<T>>
                                /\ v = Sit(u.stage, r \o <<>>, u.open + Opens(it))
    BY <1>1, <1>4, <2>1 DEF Effect, Works
  <2>4. r \o <<>> = r
    BY ConcatEmptySeq
  <2>5. v.stage = u.stage /\ v.kinds = r /\ v.open = u.open + Opens(it)
    BY <2>3, <2>4 DEF Sit
  <2>6. u.open \in Nat /\ u = Sit(u.stage, u.kinds, u.open)
    BY DEF Situation, Sit
  <2>7. u.open = v.open + 1
    BY <1>1, <2>5, <2>6
  <2> QED
    BY <2>2, <2>3, <2>5, <2>6, <2>7 DEF IsInner, Pushed
<1> QED
  BY <1>3, <1>4

-----------------------------------------------------------------------------
(* The expansions of the grammar, one by one.                                *)

LEMMA NothingReplaces ==
  ASSUME NEW it, NEW stages, IsNeutral(it, stages)
  PROVE  Replaces(it, <<>>)
BY NeutralEffect, LeadsNone, Sentences DEF Replaces

LEMMA FunctionDeclaratorReplaces ==
  ASSUME NEW it, it.k = "declarator", NEW x \in Names
  PROVE  Replaces(it, <<Item("parameter_list"), Named("function_declarator", x, 1)>>)
<1> DEFINE a == Item("parameter_list")
           b == Named("function_declarator", x, 1)
           stages == {"typed", "body"}
<1>1. /\ IsSymbol(a) /\ IsSymbol(b) /\ a.k = "parameter_list"
      /\ b.k = "function_declarator" /\ b.n = 1 /\ b.name = x
  BY Symbols
<1> HIDE DEF a, b
<1>2. IsNeutral(it, stages) /\ IsNeutral(a, stages) /\ IsNeutral(b, stages)
  BY <1>1 DEF IsNeutral
<1> HIDE DEF stages
<1>3. ASSUME NEW u \in Situation, NEW v \in Situation, Effect(it, u, v)
      PROVE  Leads(<<a, b>>, u, v)
  <2>1. v = u /\ Effect(a, u, u) /\ Effect(b, u, u)
    BY <1>2, <1>3, NeutralEffect
  <2> QED
    BY <2>1, LeadsTwo
<1>4. IsSentence(<<a, b>>)
  BY <1>1, Sentences
<1> QED
  BY <1>3, <1>4 DEF Replaces, a, b

LEMMA DeclaratorListReplaces ==
  ASSUME NEW it, it.k = "declarator_list"
  PROVE  Replaces(it, <<Item("declarator"), Item("declarator_list")>>)
<1> DEFINE a == Item("declarator")
           b == Item("declarator_list")
           stages == {"typed", "body"}
<1>1. IsSymbol(a) /\ IsSymbol(b) /\ a.k = "declarator" /\ b.k = "declarator_list"
  BY Symbols
<1> HIDE DEF a, b
<1>2. IsNeutral(it, stages) /\ IsNeutral(a, stages) /\ IsNeutral(b, stages)
  BY <1>1 DEF IsNeutral
<1> HIDE DEF stages
<1>3. ASSUME NEW u \in Situation, NEW v \in Situation, Effect(it, u, v)
      PROVE  Leads(<<a, b>>, u, v)
  <2>1. v = u /\ Effect(a, u, u) /\ Effect(b, u, u)
    BY <1>2, <1>3, NeutralEffect
  <2> QED
    BY <2>1, LeadsTwo
<1>4. IsSentence(<<a, b>>)
  BY <1>1, Sentences
<1> QED
  BY <1>3, <1>4 DEF Replaces, a, b

LEMMA ParameterListReplaces ==
  ASSUME NEW it, it.k = "parameter_list"
  PROVE  Replaces(it, <<Item("type"), Item("parameter_declaration"),
                        Item("parameter_list")>>)
<1> DEFINE a == Item("type")
           b == Item("parameter_declaration")
           c == Item("parameter_list")
           stages == {"typed", "body"}
<1>1. /\ IsSymbol(a) /\ IsSymbol(b) /\ IsSymbol(c)
      /\ a.k = "type" /\ b.k = "parameter_declaration" /\ c.k = "parameter_list"
  BY Symbols
<1> HIDE DEF a, b, c
<1>2. IsNeutral(it, stages) /\ IsNeutral(c, stages) /\ IsClaim(b, stages)
  BY <1>1 DEF IsNeutral, IsClaim
<1>3. ASSUME NEW u \in Situation, NEW v \in Situation, Effect(it, u, v)
      PROVE  Leads(<<a, b, c>>, u, v)
  <2>1. v = u /\ IsInner(u, stages) /\ Effect(c, u, u)
    BY <1>2, <1>3, NeutralEffect
  <2>2. Effect(a, u, Pushed(u)) /\ Effect(b, Pushed(u), u)
    BY <1>1, <1>2, <2>1, TypeEffect, ClaimEffect
  <2>3. Pushed(u) \in Situation
    BY <2>1, InnerTyped DEF IsInner
  <2> QED
    BY <2>1, <2>2, <2>3, LeadsThree
<1>4. IsSentence(<<a, b, c>>)
  BY <1>1, Sentences
<1> QED
  BY <1>3, <1>4 DEF Replaces, a, b, c

(* The first three symbols of a declaration.                                 *)
LEMMA DeclarationLeads ==
  ASSUME NEW where, NEW u \in Situation, NEW p, NEW v \in Situation,
         IsInner(p, {"typed", "body"}), Effect(Item("type"), u, p),
         Effect(Named("declaration", where, 0), p, v)
  PROVE  IsSentence(Declaration(where)) /\ Leads(Declaration(where), u, v)
<1> DEFINE a == Item("type")
           b == Item("declarator")
           c == Item("declarator_list")
           d == Named("declaration", where, 0)
<1>1. /\ IsSymbol(a) /\ IsSymbol(b) /\ IsSymbol(c) /\ IsSymbol(d)
      /\ b.k = "declarator" /\ c.k = "declarator_list"
  BY Symbols
<1>2. Effect(a, u, p) /\ Effect(d, p, v) /\ p \in Situation
  BY DEF IsInner
<1> HIDE DEF a, b, c, d
<1>3. Effect(b, p, p) /\ Effect(c, p, p)
  BY <1>1, <1>2, NeutralEffect DEF IsNeutral
<1>4. IsSentence(<<a, b, c, d>>)
  BY <1>1, Sentences
<1>5. Leads(<<a, b, c, d>>, u, v)
  BY <1>2, <1>3, LeadsFour
<1> QED
  BY <1>4, <1>5 DEF Declaration, a, b, c, d

LEMMA LocalDeclarationReplaces ==
  ASSUME NEW it, it.k = "declaration_list"
  PROVE  Replaces(it, Append(Declaration("local"), Item("declaration_list")))
<1> DEFINE a == Item("type")
           d == Named("declaration", "local", 0)
           e == Item("declaration_list")
           stages == {"body"}
<1>1. /\ a.k = "type" /\ d.k = "declaration" /\ d.name = "local"
      /\ IsSymbol(a) /\ IsSymbol(d) /\ IsSymbol(e) /\ e.k = "declaration_list"
  BY Symbols
<1>2. IsNeutral(it, stages) /\ IsNeutral(e, stages) /\ IsClaim(d, stages)
  BY <1>1 DEF IsNeutral, IsClaim
<1>3. ASSUME NEW u \in Situation, NEW v \in Situation, Effect(it, u, v)
      PROVE  /\ IsSentence(Declaration("local"))
             /\ Leads(Declaration("local") \o <<e>>, u, v)
  <2>1. v = u /\ IsInner(u, stages) /\ Effect(e, u, u)
    BY <1>2, <1>3, NeutralEffect
  <2>2. IsInner(u, {"typed", "body"}) /\ IsInner(Pushed(u), stages)
    BY <2>1, InnerTyped DEF IsInner
  <2>3. IsInner(Pushed(u), {"typed", "body"})
    BY <2>2 DEF IsInner
  <2>4. Effect(a, u, Pushed(u)) /\ Effect(d, Pushed(u), u)
    BY <1>1, <1>2, <2>1, <2>2, TypeEffect, ClaimEffect
  <2>5. IsSentence(Declaration("local")) /\ Leads(Declaration("local"), u, u)
    BY <2>3, <2>4, DeclarationLeads
  <2>6. Leads(<<e>>, u, u)
    BY <2>1, LeadsOne
  <2>7. IsTuple(Declaration("local")) /\ IsTuple(<<e>>)
    BY <2>5, ShortTuples DEF IsSentence
  <2> QED
    BY <2>1, <2>5, <2>6, <2>7, LeadsJoined
<1>4. IsSentence(Declaration("local")) /\ IsSentence(<<e>>)
  <2>1. /\ \A k : IsSymbol(Item(k))
        /\ IsSymbol(Named("declaration", "local", 0))
    BY Symbols
  <2> QED
    BY <2>1, Sentences DEF Declaration
<1>5. Append(Declaration("local"), e) = Declaration("local") \o <<e>>
  <2> DEFINE s == Declaration("local")
             S == {s[i] : i \in DOMAIN s} \union {e}
  <2>1. s \in Seq(S)
    BY <1>4, SeqMonotonic DEF IsSentence, IsTuple
  <2>2. e \in S
    OBVIOUS
  <2> HIDE DEF s, S, e
  <2> QED
    BY <2>1, <2>2, AppendIsConcat DEF s
<1>6. IsSentence(Declaration("local") \o <<e>>)
  BY <1>4, Sentences
<1> HIDE DEF e
<1>7. \A u, v \in Situation :
        Effect(it, u, v) => Leads(Declaration("local") \o <<e>>, u, v)
  BY <1>3
<1>8. Replaces(it, Append(Declaration("local"), e))
  BY <1>5, <1>6, <1>7 DEF Replaces
<1> QED
  BY <1>8 DEF e

(* Instructions.                                                             *)
LEMMA InstructionListReplaces ==
  ASSUME NEW it, it.k = "instruction_list"
  PROVE  /\ Replaces(it, <<>>)
         /\ Replaces(it, <<Item("instruction"), Item("append"), Item("instruction_list")>>)
<1> DEFINE a == Item("instruction")
           b == Item("append")
           c == Item("instruction_list")
<1>1. /\ IsSymbol(a) /\ IsSymbol(b) /\ IsSymbol(c)
      /\ a.k = "instruction" /\ b.k = "append" /\ c.k = "instruction_list"
  BY Symbols
<1> HIDE DEF a, b, c
<1>2. /\ it.k \in PlainKinds /\ Needs(it) = <<O>> /\ Gives(it) = <<O>>
      /\ b.k \in PlainKinds /\ c.k \in PlainKinds
      /\ Needs(b) = <<O, O>> /\ Gives(b) = <<O>> /\ Needs(c) = <<O>> /\ Gives(c) = <<O>>
      /\ Gives(a) = <<O>>
  BY <1>1, Roles DEF PlainKinds
<1>3. O \in Kinds /\ <<O>> \in Seq(Kinds) /\ <<O, O>> \in Seq(Kinds)
  BY ShortStacks
<1>4. ASSUME NEW r \in Stack, NEW n \in Nat, n >= 1
      PROVE  /\ Leads(<<>>, Above(r, <<O>>, n), Above(r, <<O>>, n))
             /\ Leads(<<a, b, c>>, Above(r, <<O>>, n), Above(r, <<O>>, n))
  <2>1. Above(r, <<O>>, n) \in Situation /\ Above(r, <<O, O>>, n) \in Situation
    BY <1>3, AboveTyped
  <2>2. Effect(a, Above(r, <<O>>, n), Above(r, <<O, O>>, n))
    BY <1>1, <1>2, <1>3, <1>4, PushesAbove
  <2>3. Effect(b, Above(r, <<O, O>>, n), Above(r, <<O>>, n))
    BY <1>2, <1>3, <1>4, ReducesAbove
  <2>4. Effect(c, Above(r, <<O>>, n), Above(r, <<O>>, n))
    BY <1>2, <1>3, <1>4, ReducesAbove
  <2>5. Leads(<<>>, Above(r, <<O>>, n), Above(r, <<O>>, n))
    BY <2>1, LeadsNone
  <2>6. Leads(<<a, b, c>>, Above(r, <<O>>, n), Above(r, <<O>>, n))
    BY <2>1, <2>2, <2>3, <2>4, LeadsThree
  <2> QED
    BY <2>5, <2>6
<1>5. IsSentence(<<>>) /\ IsSentence(<<a, b, c>>)
  BY <1>1, Sentences
<1>6. Replaces(it, <<>>)
  BY <1>2, <1>4, <1>5, ReplacesInBody
<1>7. Replaces(it, <<a, b, c>>)
  BY <1>2, <1>4, <1>5, ReplacesInBody
<1> QED
  BY <1>6, <1>7 DEF a, b, c

LEMMA AssignmentLeads ==
  ASSUME NEW x, NEW r \in Stack, NEW n \in Nat, n >= 1
  PROVE  /\ IsSentence(Assignment(x))
         /\ Leads(Assignment(x), Above(r, <<>>, n), Above(r, <<T>>, n))
         /\ Leads(Assignment(x), Above(r, <<T, O>>, n), Above(r, <<T, O, T>>, n))
<1> DEFINE a == Item("expression")
           b == Named("assignment", x, 0)
<1>1. IsSymbol(a) /\ IsSymbol(b) /\ a.k = "expression" /\ b.k = "assignment"
  BY Symbols
<1> HIDE DEF a, b
<1>2. /\ Gives(a) = <<T>> /\ b.k \in PlainKinds /\ Needs(b) = <<T>> /\ Gives(b) = <<T>>
  BY <1>1, Roles DEF PlainKinds
<1>3. /\ T \in Kinds /\ O \in Kinds /\ <<>> \in Seq(Kinds) /\ <<T>> \in Seq(Kinds)
      /\ <<T, O>> \in Seq(Kinds) /\ <<T, O, T>> \in Seq(Kinds)
  BY ShortStacks
<1>4. /\ Effect(a, Above(r, <<>>, n), Above(r, <<T>>, n))
      /\ Effect(a, Above(r, <<T, O>>, n), Above(r, <<T, O, T>>, n))
  BY <1>1, <1>2, <1>3, PushesAbove
<1>5. Effect(b, Above(r, <<T>>, n), Above(r, <<T>>, n))
  BY <1>2, <1>3, ReducesAbove
<1>6. Effect(b, Above(r, <<T, O, T>>, n), Above(r, <<T, O, T>>, n))
  <2>1. <<T, O>> \o <<T>> = <<T, O, T>>
    BY ShortConcat
  <2>2. Effect(b, Above(r, <<T, O>> \o <<T>>, n), Above(r, <<T, O>> \o <<T>>, n))
    BY <1>2, <1>3, WorksAbove
  <2> QED
    BY <2>1, <2>2
<1>7. /\ Above(r, <<>>, n) \in Situation /\ Above(r, <<T>>, n) \in Situation
      /\ Above(r, <<T, O>>, n) \in Situation /\ Above(r, <<T, O, T>>, n) \in Situation
  BY <1>3, AboveTyped
<1>8. Leads(<<a, b>>, Above(r, <<>>, n), Above(r, <<T>>, n))
  BY <1>4, <1>5, <1>7, LeadsTwo
<1>9. Leads(<<a, b>>, Above(r, <<T, O>>, n), Above(r, <<T, O, T>>, n))
  BY <1>4, <1>6, <1>7, LeadsTwo
<1>10. IsSentence(<<a, b>>)
  BY <1>1, Sentences
<1> QED
  BY <1>8, <1>9, <1>10 DEF Assignment, a, b

LEMMA SimpleInstructionReplaces ==
  ASSUME NEW it, it.k = "instruction"
  PROVE  /\ Replaces(it, <<Item("compound")>>)
         /\ Replaces(it, <<Item("expression"), Item("expression_instruction")>>)
         /\ \A x : Replaces(it, Assignment(x) \o <<Item("expression_instruction")>>)
<1> DEFINE a == Item("compound")
           b == Item("expression")
           c == Item("expression_instruction")
<1>1. /\ IsSymbol(a) /\ IsSymbol(b) /\ IsSymbol(c) /\ a.k = "compound"
      /\ b.k = "expression" /\ c.k = "expression_instruction"
  BY Symbols
<1> HIDE DEF a, b, c
<1>2. /\ it.k \in PlainKinds /\ Needs(it) = <<>> /\ Gives(it) = <<O>>
      /\ Gives(b) = <<T>> /\ c.k \in PlainKinds /\ Needs(c) = <<T>> /\ Gives(c) = <<O>>
  BY <1>1, Roles DEF PlainKinds
<1>3. Needs(a) = <<>> /\ Gives(a) = <<O>>
  BY <1>1 DEF Needs, Gives, O
<1>4. /\ T \in Kinds /\ O \in Kinds /\ <<>> \in Seq(Kinds) /\ <<T>> \in Seq(Kinds)
      /\ <<O>> \in Seq(Kinds) /\ <<>> \o <<>> = <<>> /\ <<>> \o <<O>> = <<O>>
  BY ShortStacks, ConcatEmptySeq
<1>5. ASSUME NEW r \in Stack, NEW n \in Nat, n >= 1
      PROVE  /\ Leads(<<a>>, Above(r, <<>>, n), Above(r, <<O>>, n))
             /\ Leads(<<b, c>>, Above(r, <<>>, n), Above(r, <<O>>, n))
             /\ Leads(<<c>>, Above(r, <<T>>, n), Above(r, <<O>>, n))
  <2>1. /\ Above(r, <<>>, n) \in Situation /\ Above(r, <<T>>, n) \in Situation
        /\ Above(r, <<O>>, n) \in Situation
    BY <1>4, AboveTyped
  <2>2. Effect(a, Above(r, <<>>, n), Above(r, <<O>>, n))
    <3>1. Effect(a, Above(r, <<>> \o <<>>, n), Above(r, <<>> \o <<O>>, n))
      BY <1>1, <1>3, <1>4, <1>5, WorksAbove
    <3> QED
      BY <1>4, <3>1
  <2>3. Effect(b, Above(r, <<>>, n), Above(r, <<T>>, n))
    BY <1>1, <1>2, <1>4, <1>5, PushesAbove
  <2>4. Effect(c, Above(r, <<T>>, n), Above(r, <<O>>, n))
    BY <1>2, <1>4, <1>5, ReducesAbove
  <2> QED
    BY <2>1, <2>2, <2>3, <2>4, LeadsOne, LeadsTwo
<1>6. /\ IsSentence(<<a>>) /\ IsSentence(<<b, c>>) /\ IsSentence(<<c>>)
  BY <1>1, Sentences
<1>7. Replaces(it, <<a>>)
  BY <1>2, <1>5, <1>6, ReplacesInBody
<1>8. Replaces(it, <<b, c>>)
  BY <1>2, <1>5, <1>6, ReplacesInBody
<1>9. ASSUME NEW x
      PROVE  Replaces(it, Assignment(x) \o <<c>>)
  <2>1. ASSUME NEW r \in Stack, NEW n \in Nat, n >= 1
        PROVE  /\ IsSentence(Assignment(x))
               /\ Leads(Assignment(x) \o <<c>>, Above(r, <<>>, n), Above(r, <<O>>, n))
    <3>1. /\ IsSentence(Assignment(x))
          /\ Leads(Assignment(x), Above(r, <<>>, n), Above(r, <<T>>, n))
      BY <2>1, AssignmentLeads
    <3>2. IsTuple(Assignment(x)) /\ IsTuple(<<c>>)
      BY <1>6, <3>1 DEF IsSentence
    <3>3. Leads(<<c>>, Above(r, <<T>>, n), Above(r, <<O>>, n))
      BY <1>5, <2>1
    <3> QED
      BY <3>1, <3>2, <3>3, LeadsJoined
  <2>2. IsSentence(Assignment(x))
    BY Symbols, Sentences DEF Assignment
  <2>3. IsSentence(Assignment(x) \o <<c>>)
    BY <1>6, <2>2, Sentences
  <2> QED
    BY <1>2, <2>1, <2>3, ReplacesInBody
<1> QED
  BY <1>7, <1>8, <1>9 DEF a, b, c

LEMMA ControlReplaces ==
  ASSUME NEW it, it.k = "instruction"
  PROVE  /\ \A k \in {"if", "while"} :
              Replaces(it, <<Item("condition"), Item("instruction"), Item(k)>>)
         /\ Replaces(it, <<Item("instruction"), Item("condition"), Item("do")>>)
         /\ Replaces(it, <<Item("condition"), Item("instruction"), Item("instruction"),
                           Item("if_else")>>)
<1> DEFINE a == Item("condition")
           b == Item("instruction")
           d == Item("do")
           e == Item("if_else")
<1>1. /\ IsSymbol(a) /\ IsSymbol(b) /\ IsSymbol(d) /\ IsSymbol(e)
      /\ a.k = "condition" /\ b.k = "instruction" /\ d.k = "do" /\ e.k = "if_else"
  BY Symbols
<1> HIDE DEF a, b, d, e
<1>2. /\ it.k \in PlainKinds /\ Needs(it) = <<>> /\ Gives(it) = <<O>>
      /\ Gives(a) = <<O>> /\ Gives(b) = <<O>>
      /\ d.k \in PlainKinds /\ Needs(d) = <<O, O>> /\ Gives(d) = <<O>>
      /\ e.k \in PlainKinds /\ Needs(e) = <<O, O, O>> /\ Gives(e) = <<O>>
  BY <1>1, Roles DEF PlainKinds
<1>3. /\ O \in Kinds /\ <<>> \in Seq(Kinds) /\ <<O>> \in Seq(Kinds)
      /\ <<O, O>> \in Seq(Kinds) /\ <<O, O, O>> \in Seq(Kinds)
  BY ShortStacks
<1>4. ASSUME NEW r \in Stack, NEW n \in Nat, n >= 1
      PROVE  /\ Above(r, <<>>, n) \in Situation /\ Above(r, <<O>>, n) \in Situation
             /\ Above(r, <<O, O>>, n) \in Situation /\ Above(r, <<O, O, O>>, n) \in Situation
             /\ Effect(a, Above(r, <<>>, n), Above(r, <<O>>, n))
             /\ Effect(a, Above(r, <<O>>, n), Above(r, <<O, O>>, n))
             /\ Effect(b, Above(r, <<>>, n), Above(r, <<O>>, n))
             /\ Effect(b, Above(r, <<O>>, n), Above(r, <<O, O>>, n))
             /\ Effect(b, Above(r, <<O, O>>, n), Above(r, <<O, O, O>>, n))
  <2>1. /\ Above(r, <<>>, n) \in Situation /\ Above(r, <<O>>, n) \in Situation
        /\ Above(r, <<O, O>>, n) \in Situation /\ Above(r, <<O, O, O>>, n) \in Situation
    BY <1>3, AboveTyped
  <2>2. /\ Effect(a, Above(r, <<>>, n), Above(r, <<O>>, n))
        /\ Effect(a, Above(r, <<O>>, n), Above(r, <<O, O>>, n))
    BY <1>1, <1>2, <1>3, <1>4, PushesAbove
  <2>3. /\ Effect(b, Above(r, <<>>, n), Above(r, <<O>>, n))
        /\ Effect(b, Above(r, <<O>>, n), Above(r, <<O, O>>, n))
        /\ Effect(b, Above(r, <<O, O>>, n), Above(r, <<O, O, O>>, n))
    BY <1>1, <1>2, <1>3, <1>4, PushesAbove
  <2> QED
    BY <2>1, <2>2, <2>3
<1>5. ASSUME NEW k \in {"if", "while"}
      PROVE  Replaces(it, <<a, b, Item(k)>>)
  <2> DEFINE c == Item(k)
  <2>1. IsSymbol(c) /\ c.k = k
    BY Symbols
  <2> HIDE DEF c
  <2>2. c.k \in PlainKinds /\ Needs(c) = <<O, O>> /\ Gives(c) = <<O>>
    BY <2>1, Roles DEF PlainKinds
  <2>3. ASSUME NEW r \in Stack, NEW n \in Nat, n >= 1
        PROVE  Leads(<<a, b, c>>, Above(r, <<>>, n), Above(r, <<O>>, n))
    <3>1. Effect(c, Above(r, <<O, O>>, n), Above(r, <<O>>, n))
      BY <1>3, <2>2, <2>3, ReducesAbove
    <3>2. /\ Effect(a, Above(r, <<>>, n), Above(r, <<O>>, n))
          /\ Effect(b, Above(r, <<O>>, n), Above(r, <<O, O>>, n))
          /\ Above(r, <<>>, n) \in Situation /\ Above(r, <<O>>, n) \in Situation
          /\ Above(r, <<O, O>>, n) \in Situation
      BY <1>4, <2>3
    <3> QED
      BY <3>1, <3>2, LeadsThree
  <2>4. IsSentence(<<a, b, c>>)
    BY <1>1, <2>1, Sentences
  <2>5. Replaces(it, <<a, b, c>>)
    BY <1>2, <2>3, <2>4, ReplacesInBody
  <2> QED
    BY <2>5 DEF c
<1>6. Replaces(it, <<b, a, d>>)
  <2>1. ASSUME NEW r \in Stack, NEW n \in Nat, n >= 1
        PROVE  Leads(<<b, a, d>>, Above(r, <<>>, n), Above(r, <<O>>, n))
    <3>1. Effect(d, Above(r, <<O, O>>, n), Above(r, <<O>>, n))
      BY <1>2, <1>3, <2>1, ReducesAbove
    <3>2. /\ Effect(b, Above(r, <<>>, n), Above(r, <<O>>, n))
          /\ Effect(a, Above(r, <<O>>, n), Above(r, <<O, O>>, n))
          /\ Above(r, <<>>, n) \in Situation /\ Above(r, <<O>>, n) \in Situation
          /\ Above(r, <<O, O>>, n) \in Situation
      BY <1>4, <2>1
    <3> QED
      BY <3>1, <3>2, LeadsThree
  <2>2. IsSentence(<<b, a, d>>)
    BY <1>1, Sentences
  <2> QED
    BY <1>2, <2>1, <2>2, ReplacesInBody
<1>7. Replaces(it, <<a, b, b, e>>)
  <2>1. ASSUME NEW r \in Stack, NEW n \in Nat, n >= 1
        PROVE  Leads(<<a, b, b, e>>, Above(r, <<>>, n), Above(r, <<O>>, n))
    <3>1. Effect(e, Above(r, <<O, O, O>>, n), Above(r, <<O>>, n))
      BY <1>2, <1>3, <2>1, ReducesAbove
    <3>2. /\ Effect(a, Above(r, <<>>, n), Above(r, <<O>>, n))
          /\ Effect(b, Above(r, <<O>>, n), Above(r, <<O, O>>, n))
          /\ Effect(b, Above(r, <<O, O>>, n), Above(r, <<O, O, O>>, n))
          /\ Above(r, <<>>, n) \in Situation /\ Above(r, <<O>>, n) \in Situation
          /\ Above(r, <<O, O>>, n) \in Situation /\ Above(r, <<O, O, O>>, n) \in Situation
      BY <1>4, <2>1
    <3> QED
      BY <3>1, <3>2, LeadsFour
  <2>2. IsSentence(<<a, b, b, e>>)
    BY <1>1, Sentences
  <2> QED
    BY <1>2, <2>1, <2>2, ReplacesInBody
<1> QED
  BY <1>5, <1>6, <1>7 DEF a, b, d, e

LEMMA ForReplaces ==
  ASSUME NEW it, it.k = "instruction", NEW x, NEW y
  PROVE  Replaces(it, Assignment(x) \o <<Item("condition")>>
                        \o Assignment(y) \o <<Item("instruction"), Item("for")>>)
<1> DEFINE a == Item("condition")
           b == Item("instruction")
           c == Item("for")
           items == Assignment(x) \o <<a>> \o Assignment(y) \o <<b, c>>
<1>1. /\ IsSymbol(a) /\ IsSymbol(b) /\ IsSymbol(c)
      /\ a.k = "condition" /\ b.k = "instruction" /\ c.k = "for"
  BY Symbols
<1> HIDE DEF a, b, c
<1>2. /\ it.k \in PlainKinds /\ Needs(it) = <<>> /\ Gives(it) = <<O>>
      /\ Gives(a) = <<O>> /\ Gives(b) = <<O>>
      /\ c.k \in PlainKinds /\ Needs(c) = <<T, O, T, O>> /\ Gives(c) = <<O>>
  BY <1>1, Roles DEF PlainKinds
<1>3. /\ O \in Kinds /\ T \in Kinds /\ <<>> \in Seq(Kinds) /\ <<O>> \in Seq(Kinds)
      /\ <<T>> \in Seq(Kinds) /\ <<T, O>> \in Seq(Kinds) /\ <<T, O, T>> \in Seq(Kinds)
      /\ <<T, O, T, O>> \in Seq(Kinds)
  BY ShortStacks
<1>4. ASSUME NEW z
      PROVE  IsSentence(Assignment(z)) /\ IsTuple(Assignment(z))
  BY Symbols, Sentences DEF Assignment, IsSentence
<1>5. IsSentence(<<a>>) /\ IsSentence(<<b, c>>) /\ IsTuple(<<a>>) /\ IsTuple(<<b, c>>)
  BY <1>1, Sentences, ShortTuples
<1>6. /\ IsSentence(Assignment(x) \o <<a>>)
      /\ IsSentence(Assignment(x) \o <<a>> \o Assignment(y))
      /\ IsSentence(items)
  BY <1>4, <1>5, Sentences
<1>7. ASSUME NEW r \in Stack, NEW n \in Nat, n >= 1
      PROVE  Leads(items, Above(r, <<>>, n), Above(r, <<O>>, n))
  <2>1. /\ Above(r, <<>>, n) \in Situation /\ Above(r, <<T>>, n) \in Situation
        /\ Above(r, <<T, O>>, n) \in Situation /\ Above(r, <<T, O, T>>, n) \in Situation
        /\ Above(r, <<T, O, T, O>>, n) \in Situation /\ Above(r, <<O>>, n) \in Situation
    BY <1>3, AboveTyped
  <2>2. /\ Leads(Assignment(x), Above(r, <<>>, n), Above(r, <<T>>, n))
        /\ Leads(Assignment(y), Above(r, <<T, O>>, n), Above(r, <<T, O, T>>, n))
    BY <1>7, AssignmentLeads
  <2>3. Leads(<<a>>, Above(r, <<T>>, n), Above(r, <<T, O>>, n))
    <3>1. Effect(a, Above(r, <<T>>, n), Above(r, <<T, O>>, n))
      BY <1>1, <1>2, <1>3, <1>7, PushesAbove
    <3> QED
      BY <2>1, <3>1, LeadsOne
  <2>4. Leads(<<b, c>>, Above(r, <<T, O, T>>, n), Above(r, <<O>>, n))
    <3>1. Effect(b, Above(r, <<T, O, T>>, n), Above(r, <<T, O, T, O>>, n))
      BY <1>1, <1>2, <1>3, <1>7, PushesAbove
    <3>2. Effect(c, Above(r, <<T, O, T, O>>, n), Above(r, <<O>>, n))
      BY <1>2, <1>3, <1>7, ReducesAbove
    <3> QED
      BY <2>1, <3>1, <3>2, LeadsTwo
  <2>5. Leads(Assignment(x) \o <<a>>, Above(r, <<>>, n), Above(r, <<T, O>>, n))
    BY <1>4, <1>5, <2>2, <2>3, LeadsJoined
  <2>6. Leads(Assignment(x) \o <<a>> \o Assignment(y),
              Above(r, <<>>, n), Above(r, <<T, O, T>>, n))
    BY <1>4, <1>6, <2>2, <2>5, LeadsJoined DEF IsSentence
  <2> QED
    BY <1>5, <1>6, <2>4, <2>6, LeadsJoined DEF IsSentence
<1> HIDE DEF items
<1>8. Replaces(it, items)
  BY <1>2, <1>6, <1>7, ReplacesInBody
<1> QED
  BY <1>8 DEF items, a, b, c

(* Conditions and expressions.                                               *)
LEMMA OperandsReplace ==
  ASSUME NEW it, NEW c, IsSymbol(c),
         \/ it.k = "condition" /\ c.k = "comparison"
         \/ it.k = "expression" /\ c.k \in {"plus", "other"}
  PROVE  Replaces(it, <<Item("expression"), Item("expression"), c>>)
<1> DEFINE a == Item("expression")
<1>1. IsSymbol(a) /\ a.k = "expression"
  BY Symbols
<1> HIDE DEF a
<1>2. /\ it.k \in PlainKinds /\ Needs(it) = <<>> /\ Gives(a) = <<T>>
      /\ c.k \in PlainKinds /\ Needs(c) = <<T, T>> /\ Gives(c) = Gives(it)
      /\ Gives(it) \in {<<T>>, <<O>>}
  BY <1>1, Roles DEF PlainKinds
<1>3. /\ T \in Kinds /\ <<>> \in Seq(Kinds) /\ <<T>> \in Seq(Kinds)
      /\ <<T, T>> \in Seq(Kinds) /\ Gives(it) \in Seq(Kinds)
  BY <1>2, ShortStacks
<1>4. ASSUME NEW r \in Stack, NEW n \in Nat, n >= 1
      PROVE  Leads(<<a, a, c>>, Above(r, <<>>, n), Above(r, Gives(it), n))
  <2>1. /\ Above(r, <<>>, n) \in Situation /\ Above(r, <<T>>, n) \in Situation
        /\ Above(r, <<T, T>>, n) \in Situation /\ Above(r, Gives(it), n) \in Situation
    BY <1>3, AboveTyped
  <2>2. /\ Effect(a, Above(r, <<>>, n), Above(r, <<T>>, n))
        /\ Effect(a, Above(r, <<T>>, n), Above(r, <<T, T>>, n))
    BY <1>1, <1>2, <1>3, <1>4, PushesAbove
  <2>3. Effect(c, Above(r, <<T, T>>, n), Above(r, Gives(it), n))
    BY <1>2, <1>3, <1>4, ReducesAbove
  <2> QED
    BY <2>1, <2>2, <2>3, LeadsThree
<1>5. IsSentence(<<a, a, c>>)
  BY <1>1, Sentences
<1>6. Replaces(it, <<a, a, c>>)
  BY <1>2, <1>4, <1>5, ReplacesInBody
<1> QED
  BY <1>6 DEF a

LEMMA UnaryReplaces ==
  ASSUME NEW it, it.k = "expression"
  PROVE  Replaces(it, <<Item("expression"), Item("unary")>>)
<1> DEFINE a == Item("expression")
           b == Item("unary")
<1>1. IsSymbol(a) /\ IsSymbol(b) /\ a.k = "expression" /\ b.k = "unary"
  BY Symbols
<1> HIDE DEF a, b
<1>2. /\ it.k \in PlainKinds /\ Needs(it) = <<>> /\ Gives(it) = <<T>> /\ Gives(a) = <<T>>
      /\ b.k \in PlainKinds /\ Needs(b) = <<T>> /\ Gives(b) = <<T>>
  BY <1>1, Roles DEF PlainKinds
<1>3. T \in Kinds /\ <<>> \in Seq(Kinds) /\ <<T>> \in Seq(Kinds)
  BY ShortStacks
<1>4. ASSUME NEW r \in Stack, NEW n \in Nat, n >= 1
      PROVE  Leads(<<a, b>>, Above(r, <<>>, n), Above(r, <<T>>, n))
  <2>1. Above(r, <<>>, n) \in Situation /\ Above(r, <<T>>, n) \in Situation
    BY <1>3, AboveTyped
  <2>2. Effect(a, Above(r, <<>>, n), Above(r, <<T>>, n))
    BY <1>1, <1>2, <1>3, <1>4, PushesAbove
  <2>3. Effect(b, Above(r, <<T>>, n), Above(r, <<T>>, n))
    BY <1>2, <1>3, <1>4, ReducesAbove
  <2> QED
    BY <2>1, <2>2, <2>3, LeadsTwo
<1>5. IsSentence(<<a, b>>)
  BY <1>1, Sentences
<1>6. Replaces(it, <<a, b>>)
  BY <1>2, <1>4, <1>5, ReplacesInBody
<1> QED
  BY <1>6 DEF a, b

(* The arguments of a call leave a type each.                                *)
LEMMA CallReplaces ==
  ASSUME NEW it, it.k = "expression", NEW x, NEW m \in Nat
  PROVE  Replaces(it, [i \in 1..m |-> Item("expression")] \o <<Named("call", x, m)>>)
<1> DEFINE a == Item("expression")
           b == Named("call", x, m)
           args == [i \in 1..m |-> a]
           types(j) == [i \in 1..j |-> T]
<1>1. IsSymbol(a) /\ IsSymbol(b) /\ a.k = "expression" /\ b.k = "call" /\ b.n = m
  BY Symbols
<1>2. args \in Seq({a}) /\ Len(args) = m /\ DOMAIN args = 1..m
  BY IsASeq
<1>3. ASSUME NEW j \in Nat
      PROVE  /\ types(j) \in Seq(Kinds) /\ Len(types(j)) = j
             /\ \A i \in 1..j : types(j)[i] = T
  BY ShortStacks, IsASeq
<1> HIDE DEF a, b
<1>4. /\ it.k \in PlainKinds /\ Needs(it) = <<>> /\ Gives(it) = <<T>>
      /\ a.k \in PlainKinds /\ Needs(a) = <<>> /\ Gives(a) = <<T>>
      /\ b.k \in PlainKinds /\ Needs(b) = types(m) /\ Gives(b) = <<T>>
  BY <1>1, Roles DEF PlainKinds
<1>5. T \in Kinds /\ <<>> \in Seq(Kinds) /\ <<T>> \in Seq(Kinds)
  BY ShortStacks
<1>6. ASSUME NEW j \in Nat
      PROVE  types(j) \o <<T>> = types(j + 1) /\ types(j) \o <<>> = types(j)
  <2>1. /\ types(j) \in Seq(Kinds) /\ Len(types(j)) = j
        /\ types(j + 1) \in Seq(Kinds) /\ Len(types(j + 1)) = j + 1
        /\ \A i \in 1..j : types(j)[i] = T
        /\ \A i \in 1..j + 1 : types(j + 1)[i] = T
    BY <1>3
  <2>2. <<T>> \in Seq(Kinds) /\ Len(<<T>>) = 1 /\ <<T>>[1] = T
    BY <1>5
  <2> DEFINE s == types(j)
             t == <<T>>
             u == types(j + 1)
  <2> HIDE DEF s, t, u
  <2>3. /\ Len(u) = Len(s) + Len(t) /\ \A i \in 1..Len(s) : s[i] = u[i]
        /\ \A i \in 1..Len(t) : t[i] = u[Len(s) + i]
    <3>1. Len(s) = j /\ Len(t) = 1 /\ Len(u) = j + 1
      BY <2>1, <2>2 DEF s, t, u
    <3>2. ASSUME NEW i \in 1..j
          PROVE  s[i] = u[i]
      BY <2>1 DEF s, u
    <3>3. t[1] = u[j + 1]
      BY <2>1, <2>2 DEF t, u
    <3> QED
      BY <3>1, <3>2, <3>3
  <2>4. s \o t = u
    BY <2>1, <2>2, <2>3, Spelled DEF s, t, u
  <2>5. types(j) \o <<>> = types(j)
    BY <2>1, ConcatEmptySeq
  <2> QED
    BY <2>4, <2>5 DEF s, t, u
<1>7. types(0) = <<>>
  <2>1. types(0) \in Seq(Kinds) /\ Len(types(0)) = 0
    BY <1>3
  <2> QED
    BY <2>1, EmptySeq
<1>8. IsTuple(args) /\ IsSentence(args) /\ IsSentence(<<b>>)
  <2>1. \A i \in DOMAIN args : IsSymbol(args[i])
    BY <1>1, <1>2
  <2> QED
    BY <1>1, <1>2, <2>1, Tuples, Sentences DEF IsSentence
<1>9. ASSUME NEW r \in Stack, NEW n \in Nat, n >= 1
      PROVE  Leads(args \o <<b>>, Above(r, <<>>, n), Above(r, <<T>>, n))
  <2> DEFINE w == [i \in 1..m + 1 |-> Above(r, types(i - 1), n)]
  <2>1. ASSUME NEW j \in Nat
        PROVE  /\ Above(r, types(j), n) \in Situation
               /\ Effect(a, Above(r, types(j), n), Above(r, types(j + 1), n))
    <3>1. types(j) \in Seq(Kinds)
      BY <1>3
    <3>2. types(j) \o Needs(a) = types(j) /\ types(j) \o Gives(a) = types(j + 1)
      BY <1>4, <1>6
    <3>3. Needs(a) \in Seq(Kinds) /\ Gives(a) \in Seq(Kinds)
      BY <1>4, <1>5
    <3> HIDE DEF types
    <3>4. Effect(a, Above(r, types(j) \o Needs(a), n), Above(r, types(j) \o Gives(a), n))
      BY <1>4, <1>9, <3>1, <3>3, WorksAbove
    <3> QED
      BY <3>1, <3>2, <3>4, AboveTyped
  <2> HIDE DEF types
  <2>2. w \in [1..m + 1 -> Situation]
    <3> SUFFICES ASSUME NEW i \in 1..m + 1
                 PROVE  Above(r, types(i - 1), n) \in Situation
      OBVIOUS
    <3>1. i - 1 \in Nat
      OBVIOUS
    <3> QED
      BY <2>1, <3>1
  <2>3. w[1] = Above(r, <<>>, n) /\ w[m + 1] = Above(r, types(m), n)
    <3>1. 1 \in 1..m + 1 /\ m + 1 \in 1..m + 1 /\ 1 - 1 = 0 /\ m + 1 - 1 = m
      OBVIOUS
    <3> QED
      BY <1>7, <3>1
  <2>4. ASSUME NEW i \in 1..m
        PROVE  Effect(args[i], w[i], w[i + 1])
    <3>1. /\ i - 1 \in Nat /\ i - 1 + 1 = i /\ i + 1 - 1 = i
          /\ i \in 1..m + 1 /\ i + 1 \in 1..m + 1
      OBVIOUS
    <3>2. w[i] = Above(r, types(i - 1), n) /\ w[i + 1] = Above(r, types(i), n)
      BY <3>1
    <3>3. Effect(a, Above(r, types(i - 1), n), Above(r, types(i), n))
      BY <2>1, <3>1
    <3> QED
      BY <3>2, <3>3
  <2> HIDE DEF w, args
  <2>5. Leads(args, Above(r, <<>>, n), Above(r, types(m), n))
    BY <1>2, <2>2, <2>3, <2>4 DEF Leads
  <2>6. Leads(<<b>>, Above(r, types(m), n), Above(r, <<T>>, n))
    <3>1. types(m) \in Seq(Kinds)
      BY <1>3 DEF types
    <3>2. Effect(b, Above(r, types(m), n), Above(r, <<T>>, n))
      BY <1>4, <1>5, <1>9, <3>1, ReducesAbove
    <3> QED
      BY <1>5, <3>1, <3>2, AboveTyped, LeadsOne
  <2> QED
    BY <1>8, <2>5, <2>6, LeadsJoined DEF IsSentence
<1>10. IsSentence(args \o <<b>>)
  BY <1>8, Sentences
<1> HIDE DEF args
<1>11. Replaces(it, args \o <<b>>)
  BY <1>4, <1>9, <1>10, ReplacesInBody
<1> QED
  BY <1>11 DEF args, a, b

(* External declarations and function definitions: what comes before the rest  *)
(* of the program.                                                           *)
LEMMA PassedTyped ==
  /\ Start \in Situation /\ Written \in Situation /\ Defined \in Situation
  /\ \A stage \in Stages : Claimed(stage) \in Situation
  /\ \A stage \in {"typed", "body"} : IsInner(Claimed(stage), {"typed", "body"})
<1>1. <<>> \in Seq(Kinds) /\ <<"type">> \in Seq(Kinds) /\ <<"type", "outcome">> \in Seq(Kinds)
  BY ShortStacks DEF Kinds
<1>2. Start \in Situation /\ Written \in Situation /\ Defined \in Situation
  BY <1>1 DEF Start, Written, Defined, Sit, Situation, Stages
<1>3. ASSUME NEW stage \in Stages
      PROVE  Claimed(stage) \in Situation
  BY <1>1 DEF Claimed, Sit, Situation
<1>4. ASSUME NEW stage \in {"typed", "body"}
      PROVE  IsInner(Claimed(stage), {"typed", "body"})
  <2>1. Claimed(stage) \in Situation
    BY <1>3 DEF Stages
  <2>2. <<"type">> # <<>>
    OBVIOUS
  <2>3. Claimed(stage).stage = stage /\ Claimed(stage).kinds = <<"type">>
        /\ Claimed(stage).open = 1
    BY DEF Claimed, Sit
  <2> QED
    BY <2>1, <2>2, <2>3 DEF IsInner
<1> QED
  BY <1>2, <1>3, <1>4

LEMMA ProgramEffect ==
  ASSUME NEW it, it.k = "program", NEW u, NEW v
  PROVE  Effect(it, u, v) <=> u = Start /\ v = Start
<1>1. ~Anywhere(it) /\ ~InBody(it)
  BY DEF Anywhere, InBody
<1> QED
  BY <1>1 DEF Effect, Works, Passes

LEMMA ExternalReplaces ==
  ASSUME NEW it, IsSymbol(it), it.k = "program", NEW x, NEW n \in Nat
  PROVE  Replaces(it, Declaration("global")
                        \o <<Named("external_declaration", x, n)>> \o <<it>>)
<1> DEFINE a == Item("type")
           b == Named("declaration", "global", 0)
           c == Named("external_declaration", x, n)
           p == Claimed("typed")
           items == Declaration("global") \o <<c>> \o <<it>>
<1>1. /\ IsSymbol(c) /\ a.k = "type" /\ b.k = "declaration" /\ b.name = "global"
      /\ c.k = "external_declaration"
  BY Symbols
<1>2. /\ Start \in Situation /\ Written \in Situation /\ IsInner(p, {"typed", "body"})
  BY PassedTyped
<1>3. Effect(a, Start, p) /\ Effect(b, p, Written) /\ Effect(c, Written, Start)
  BY <1>1 DEF Effect, Passes
<1> HIDE DEF p, c
<1>4. IsSentence(Declaration("global")) /\ Leads(Declaration("global"), Start, Written)
  BY <1>2, <1>3, DeclarationLeads
<1>5. Leads(<<c>>, Written, Start)
  BY <1>2, <1>3, LeadsOne
<1>6. Leads(<<it>>, Start, Start)
  BY <1>2, ProgramEffect, LeadsOne
<1>7. IsSentence(<<c>>) /\ IsSentence(<<it>>) /\ IsSentence(Declaration("global") \o <<c>>)
      /\ IsSentence(items)
  BY <1>1, <1>4, Sentences
<1>8. Leads(Declaration("global") \o <<c>>, Start, Start)
  BY <1>4, <1>5, <1>7, LeadsJoined DEF IsSentence
<1>9. Leads(items, Start, Start)
  BY <1>6, <1>7, <1>8, LeadsJoined DEF IsSentence
<1> HIDE DEF items
<1>10. Replaces(it, items)
  BY <1>7, <1>9, ProgramEffect DEF Replaces
<1> QED
  BY <1>10 DEF items, c

(* Six symbols are three and three.                                          *)
LEMMA SixSymbols ==
  ASSUME NEW a, NEW b, NEW c, NEW d, NEW e, NEW f
  PROVE  <<a, b, c>> \o <<d, e, f>> = <<a, b, c, d, e, f>>
<1> DEFINE s == <<a, b, c>>
           t == <<d, e, f>>
           u == <<a, b, c, d, e, f>>
           S == {a, b, c, d, e, f}
<1>1. s \in Seq(S) /\ t \in Seq(S) /\ u \in Seq(S)
  OBVIOUS
<1>2. /\ Len(u) = Len(s) + Len(t) /\ \A i \in 1..Len(s) : s[i] = u[i]
      /\ \A i \in 1..Len(t) : t[i] = u[Len(s) + i]
  OBVIOUS
<1>3. s \o t = u
  <2> HIDE DEF s, t, u, S
  <2> QED
    BY <1>1, <1>2, Spelled
<1> QED
  BY <1>3

LEMMA FunctionDefinitionReplaces ==
  ASSUME NEW it, IsSymbol(it), it.k = "program", NEW x \in Names
  PROVE  Replaces(it, <<Item("type"), Item("parameter_list"),
                        Named("function_declarator", x, 0), Item("decl_glb_fct"),
                        Item("compound"), Item("function_definition")>> \o <<it>>)
<1> DEFINE a == Item("type")
           b == Item("parameter_list")
           c == Named("function_declarator", x, 0)
           d == Item("decl_glb_fct")
           e == Item("compound")
           f == Item("function_definition")
           s == <<a, b, c>>
           t == <<d, e, f>>
           p == Claimed("typed")
           q == Claimed("named")
           o == Claimed("opened")
<1>1. /\ IsSymbol(a) /\ IsSymbol(b) /\ IsSymbol(c) /\ a.k = "type" /\ b.k = "parameter_list"
      /\ c.k = "function_declarator" /\ c.name = x /\ c.n = 0
  BY Symbols
<1>2. /\ IsSymbol(d) /\ IsSymbol(e) /\ IsSymbol(f) /\ d.k = "decl_glb_fct"
      /\ e.k = "compound" /\ f.k = "function_definition"
  BY Symbols
<1>3. /\ Start \in Situation /\ Defined \in Situation /\ IsInner(p, {"typed", "body"})
      /\ p \in Situation /\ q \in Situation /\ o \in Situation
  BY PassedTyped DEF Stages
<1>4. Effect(a, Start, p) /\ Effect(c, p, q)
  BY <1>1 DEF Effect, Passes
<1>5. Effect(d, q, o) /\ Effect(e, o, Defined) /\ Effect(f, Defined, Start)
  BY <1>2 DEF Effect, Passes
<1> HIDE DEF a, b, c, d, e, f, p, q, o
<1>6. Effect(b, p, p)
  BY <1>1, <1>3, NeutralEffect DEF IsNeutral
<1>7. Leads(s, Start, q)
  BY <1>3, <1>4, <1>6, LeadsThree
<1>8. Leads(t, q, Start)
  BY <1>3, <1>5, LeadsThree
<1>9. Leads(<<it>>, Start, Start)
  BY <1>3, ProgramEffect, LeadsOne
<1>10. IsSentence(s) /\ IsSentence(t) /\ IsSentence(<<it>>)
  BY <1>1, <1>2, Sentences
<1>11. s \o t = <<a, b, c, d, e, f>>
  BY SixSymbols
<1> HIDE DEF s, t
<1>12. IsSentence(s \o t) /\ IsSentence(s \o t \o <<it>>)
  BY <1>10, Sentences
<1>13. Leads(s \o t, Start, Start)
  BY <1>7, <1>8, <1>10, LeadsJoined DEF IsSentence
<1>14. Leads(s \o t \o <<it>>, Start, Start)
  BY <1>9, <1>10, <1>12, <1>13, LeadsJoined DEF IsSentence
<1>15. Replaces(it, s \o t \o <<it>>)
  BY <1>12, <1>14, ProgramEffect DEF Replaces
<1> QED
  BY <1>11, <1>15 DEF a, b, c, d, e, f

-----------------------------------------------------------------------------
(* The innermost table with a name.                                          *)

LEMMA LeastNatural ==
  ASSUME NEW N, N \subseteq Nat, N # {}
  PROVE  \E m \in N : \A k \in N : m <= k
<1> DEFINE R == OpToRel(<, Nat)
<1>1. IsWellFoundedOn(R, Nat)
  BY NatLessThanWellFounded
<1>2. \A m, k \in Nat : k < m => <<k, m>> \in R
  BY DEF OpToRel
<1> HIDE DEF R
<1>3. PICK m \in N : \A k \in N : <<k, m>> \notin R
  BY <1>1, WFMin
<1>4. ASSUME NEW k \in N
      PROVE  m <= k
  <2>1. m \in Nat /\ k \in Nat /\ ~(k < m)
    BY <1>2, <1>3
  <2> QED
    BY <2>1
<1> QED
  BY <1>4

InnermostIn(s, n, x) ==
  CHOOSE k \in 1..n : /\ x \in DOMAIN s[k]
                      /\ \A j \in k + 1..n : x \notin DOMAIN s[j]

LEMMA InnermostFoundIn ==
  ASSUME NEW s, NEW x, NEW n \in Nat, \E k \in 1..n : x \in DOMAIN s[k]
  PROVE  /\ InnermostIn(s, n, x) \in 1..n
         /\ x \in DOMAIN s[InnermostIn(s, n, x)]
         /\ \A j \in InnermostIn(s, n, x) + 1..n : x \notin DOMAIN s[j]
<1> DEFINE N == {i \in 0..n : n - i \in 1..n /\ x \in DOMAIN s[n - i]}
<1>1. PICK m \in N : \A i \in N : m <= i
  <2>1. PICK k \in 1..n : x \in DOMAIN s[k]
    OBVIOUS
  <2>2. n - k \in N
    <3>1. n - k \in 0..n /\ n - (n - k) = k
      OBVIOUS
    <3> QED
      BY <2>1, <3>1
  <2>3. N \subseteq Nat
    OBVIOUS
  <2> HIDE DEF N
  <2> QED
    BY <2>2, <2>3, LeastNatural
<1>2. n - m \in 1..n /\ x \in DOMAIN s[n - m]
  OBVIOUS
<1>3. ASSUME NEW j \in (n - m) + 1..n
      PROVE  x \notin DOMAIN s[j]
  <2>1. n - j \in 0..n /\ n - (n - j) = j /\ j \in 1..n /\ ~(m <= n - j)
    BY <1>2
  <2> QED
    BY <1>1, <2>1
<1>4. \E k \in 1..n : /\ x \in DOMAIN s[k]
                      /\ \A j \in k + 1..n : x \notin DOMAIN s[j]
  BY <1>2, <1>3
<1> QED
  BY <1>4 DEF InnermostIn

LEMMA InnermostFound ==
  ASSUME NEW x, NEW n \in Nat, \E k \in 1..n : x \in DOMAIN symbol_table[k]
  PROVE  /\ InnermostWith(x, n) \in 1..n
         /\ x \in DOMAIN symbol_table[InnermostWith(x, n)]
         /\ \A j \in InnermostWith(x, n) + 1..n : x \notin DOMAIN symbol_table[j]
<1>1. InnermostWith(x, n) = InnermostIn(symbol_table, n, x)
  BY DEF InnermostWith, InnermostIn
<1> QED
  BY <1>1, InnermostFoundIn

-----------------------------------------------------------------------------
(* The value stack.                                                          *)

Value == Type \union Outcome
KindOf(k) == IF k = T THEN Type ELSE Outcome

Fits(vals, ks) ==
  /\ Len(vals) = Len(ks)
  /\ \A i \in 1..Len(ks) : vals[i] \in KindOf(ks[i])

LEMMA SeqFromFunction ==
  ASSUME NEW S, NEW n \in Nat, NEW s \in [1..n -> S]
  PROVE  s \in Seq(S) /\ Len(s) = n /\ DOMAIN s = 1..n
<1>1. s \in Seq(S)
  BY SeqDef
<1>2. Len(s) \in Nat /\ DOMAIN s = 1..Len(s)
  BY <1>1, LenProperties
<1> QED
  BY <1>1, <1>2, SameInterval

LEMMA PopProperties ==
  ASSUME NEW S, NEW s \in Seq(S), NEW n \in 0..Len(s)
  PROVE  /\ Pop(s, n) \in Seq(S) /\ Len(Pop(s, n)) = Len(s) - n
         /\ \A i \in 1..Len(s) - n : Pop(s, n)[i] = s[i]
<1>1. Len(s) \in Nat /\ Len(s) - n \in Nat /\ \A i \in 1..Len(s) : s[i] \in S
  BY LenProperties, ElementOfSeq
<1>2. \A i \in 1..Len(s) - n : s[i] \in S
  BY <1>1
<1> DEFINE m == Len(s) - n
<1> HIDE DEF m
<1>3. m \in Int /\ 1 \in Int /\ \A i \in 1..m : s[i] \in S
  BY <1>1, <1>2 DEF m
<1>4. /\ SubSeq(s, 1, m) \in Seq(S)
      /\ Len(SubSeq(s, 1, m)) = IF 1 <= m THEN m - 1 + 1 ELSE 0
      /\ \A i \in 1..m - 1 + 1 : SubSeq(s, 1, m)[i] = s[1 + i - 1]
  BY <1>3, SubSeqProperties
<1>5. Len(SubSeq(s, 1, m)) = m
  BY <1>1, <1>4 DEF m
<1>6. ASSUME NEW i \in 1..m
      PROVE  SubSeq(s, 1, m)[i] = s[i]
  <2>1. i \in 1..m - 1 + 1 /\ 1 + i - 1 = i
    BY <1>3
  <2> QED
    BY <1>4, <2>1
<1> QED
  BY <1>4, <1>5, <1>6 DEF Pop, m

LEMMA FitsPushed ==
  ASSUME NEW vals \in Seq(Value), NEW ks \in Seq(Kinds), Fits(vals, ks),
         NEW k \in Kinds, NEW v \in KindOf(k)
  PROVE  /\ Append(vals, v) \in Seq(Value) /\ Fits(Append(vals, v), ks \o <<k>>)
         /\ ks # <<>> => Append(vals, v)[1] = vals[1]
<1>1. v \in Value
  BY DEF KindOf, Value
<1> DEFINE s == Append(vals, v)
           t == ks \o <<k>>
<1>2. /\ s \in Seq(Value) /\ Len(s) = Len(vals) + 1 /\ s[Len(vals) + 1] = v
      /\ \A i \in 1..Len(vals) : s[i] = vals[i]
  BY <1>1, AppendProperties
<1>3. t = Append(ks, k)
  BY AppendIsConcat
<1>4. /\ t \in Seq(Kinds) /\ Len(t) = Len(ks) + 1 /\ t[Len(ks) + 1] = k
      /\ \A i \in 1..Len(ks) : t[i] = ks[i]
  BY <1>3, AppendProperties
<1>5. Len(ks) \in Nat /\ Len(vals) = Len(ks) /\ (ks # <<>> => Len(ks) >= 1)
  BY EmptySeq, LenProperties DEF Fits
<1> HIDE DEF s, t
<1>6. ASSUME NEW i \in 1..Len(t)
      PROVE  s[i] \in KindOf(t[i])
  <2>1. CASE i \in 1..Len(ks)
    BY <1>2, <1>4, <1>5, <2>1 DEF Fits
  <2>2. CASE i = Len(ks) + 1
    BY <1>2, <1>4, <1>5, <2>2
  <2> QED
    BY <1>4, <1>5, <2>1, <2>2
<1>7. Fits(s, t)
  BY <1>2, <1>4, <1>5, <1>6 DEF Fits
<1>8. ks # <<>> => s[1] = vals[1]
  BY <1>2, <1>5
<1> QED
  BY <1>2, <1>7, <1>8 DEF s, t

LEMMA FitsPopped ==
  ASSUME NEW vals \in Seq(Value), NEW r \in Seq(Kinds), NEW t \in Seq(Kinds),
         Fits(vals, r \o t)
  PROVE  /\ Len(vals) = Len(r) + Len(t) /\ Len(r) \in Nat /\ Len(t) \in Nat
         /\ Pop(vals, Len(t)) \in Seq(Value) /\ Fits(Pop(vals, Len(t)), r)
         /\ \A i \in 1..Len(t) : vals[Len(vals) - Len(t) + i] \in KindOf(t[i])
         /\ r # <<>> => Len(r) >= 1 /\ Pop(vals, Len(t))[1] = vals[1]
<1> DEFINE ks == r \o t
<1>1. /\ ks \in Seq(Kinds) /\ Len(ks) = Len(r) + Len(t)
      /\ \A i \in 1..Len(r) + Len(t) : ks[i] = IF i <= Len(r) THEN r[i] ELSE t[i - Len(r)]
  BY ConcatProperties, Zenon
<1>2. Len(r) \in Nat /\ Len(t) \in Nat /\ (r # <<>> => Len(r) >= 1)
  BY EmptySeq, LenProperties
<1> HIDE DEF ks
<1>3. Len(vals) = Len(r) + Len(t) /\ \A i \in 1..Len(r) + Len(t) : vals[i] \in KindOf(ks[i])
  BY <1>1 DEF Fits, ks
<1> DEFINE p == Pop(vals, Len(t))
<1>4. /\ p \in Seq(Value) /\ Len(p) = Len(r) /\ \A i \in 1..Len(r) : p[i] = vals[i]
  <2>1. Len(t) \in 0..Len(vals) /\ Len(vals) - Len(t) = Len(r)
    BY <1>2, <1>3
  <2> QED
    BY <2>1, PopProperties
<1> HIDE DEF p
<1>5. ASSUME NEW i \in 1..Len(r)
      PROVE  p[i] \in KindOf(r[i])
  <2>1. i \in 1..Len(r) + Len(t) /\ i <= Len(r)
    BY <1>2
  <2> QED
    BY <1>1, <1>3, <1>4, <2>1
<1>6. ASSUME NEW i \in 1..Len(t)
      PROVE  vals[Len(vals) - Len(t) + i] \in KindOf(t[i])
  <2>1. /\ Len(vals) - Len(t) + i = Len(r) + i /\ Len(r) + i \in 1..Len(r) + Len(t)
        /\ ~(Len(r) + i <= Len(r)) /\ Len(r) + i - Len(r) = i
    BY <1>2, <1>3
  <2>2. ks[Len(r) + i] = t[i] /\ vals[Len(r) + i] \in KindOf(ks[Len(r) + i])
    BY <1>1, <1>3, <2>1
  <2> QED
    BY <2>1, <2>2
<1>7. r # <<>> => Len(r) >= 1 /\ p[1] = vals[1]
  BY <1>2, <1>4
<1> QED
  BY <1>2, <1>3, <1>4, <1>5, <1>6, <1>7 DEF Fits, p

(* The first entry is the type of the function or declaration under way.       *)
LEMMA FitsFirst ==
  ASSUME NEW s \in Seq(Type), NEW t \in Type
  PROVE  /\ Append(s, t) \in Seq(Type) /\ Len(Append(s, t)) = Len(s) + 1
         /\ Len(s) >= 1 => Append(s, t)[1] = s[1]
         /\ Len(s) >= 1 => /\ Front(s) \in Seq(Type) /\ Len(Front(s)) = Len(s) - 1
                           /\ Last(s) \in Type
         /\ Len(s) >= 2 => Front(s)[1] = s[1]
<1>1. Len(s) \in Nat
  BY LenProperties
<1>2. /\ Append(s, t) \in Seq(Type) /\ Len(Append(s, t)) = Len(s) + 1
      /\ \A i \in 1..Len(s) : Append(s, t)[i] = s[i]
  BY AppendProperties
<1>3. ASSUME Len(s) >= 1
      PROVE  /\ Front(s) \in Seq(Type) /\ Len(Front(s)) = Len(s) - 1
             /\ \A i \in 1..Len(s) - 1 : Front(s)[i] = s[i]
             /\ Last(s) \in Type
  <2>1. 1 \in 0..Len(s) /\ Len(s) \in 1..Len(s)
    BY <1>1, <1>3
  <2>2. Front(s) = Pop(s, 1)
    BY DEF Front, Pop
  <2> QED
    BY <2>1, <2>2, PopProperties, ElementOfSeq, ZenonT(30) DEF Last
<1> QED
  BY <1>1, <1>2, <1>3

-----------------------------------------------------------------------------
(* Symbols pending in a sentence.                                            *)

PendingIn(s, kinds) == Cardinality({i \in DOMAIN s : s[i].k \in kinds})

LEMMA PendingJoined ==
  ASSUME NEW s, IsTuple(s), NEW t, IsTuple(t), NEW kinds
  PROVE  /\ PendingIn(s, kinds) \in Nat /\ PendingIn(t, kinds) \in Nat
         /\ PendingIn(s \o t, kinds) = PendingIn(s, kinds) + PendingIn(t, kinds)
<1> DEFINE x == Item("program")
           A == {s[i] : i \in DOMAIN s}
           B == {t[i] : i \in DOMAIN t}
           S == A \union B \union {x}
           K == {it \in S : it.k \in kinds}
           h == <<x>> \o t
<1>1. /\ s \in Seq(A) /\ t \in Seq(B) /\ A \subseteq S /\ B \subseteq S /\ x \in S
  BY DEF IsTuple
<1> HIDE DEF A, B, S, x
<1>2. s \in Seq(S) /\ t \in Seq(S) /\ <<x>> \in Seq(S) /\ <<>> \in Seq(S)
  BY <1>1, SeqMonotonic, EmptySeq
<1>3. h \in Seq(S) /\ s \o t \in Seq(S) /\ h # <<>>
  <2>1. <<x>> # <<>>
    OBVIOUS
  <2> QED
    BY <1>2, <2>1, ConcatProperties, ConcatEqualIffEmpty
<1>4. ASSUME NEW q \in Seq(S)
      PROVE  PendingIn(q, kinds) = Count(q, K) /\ Count(q, K) \in Nat
  <2>1. \A i \in DOMAIN q : q[i] \in K <=> q[i].k \in kinds
    BY LenProperties, ElementOfSeq
  <2>2. {i \in DOMAIN q : q[i] \in K} = {i \in DOMAIN q : q[i].k \in kinds}
    BY <2>1
  <2> QED
    BY <2>2, CountTyped DEF PendingIn, Count
<1> HIDE DEF K
<1>5. Tail(h) = t
  <2>1. /\ Len(<<x>>) = 1 /\ Len(t) \in Nat /\ Len(h) = 1 + Len(t)
        /\ \A i \in 1..1 + Len(t) : h[i] = IF i <= 1 THEN <<x>>[i] ELSE t[i - 1]
    BY <1>2, ConcatProperties, LenProperties
  <2> HIDE DEF h
  <2>2. /\ Tail(h) \in Seq(S) /\ Len(Tail(h)) = Len(h) - 1
        /\ \A i \in 1..Len(Tail(h)) : Tail(h)[i] = h[i + 1]
    BY <1>3, HeadTailProperties
  <2>3. ASSUME NEW i \in 1..Len(t)
        PROVE  Tail(h)[i] = t[i]
    <3>1. /\ i \in 1..Len(Tail(h)) /\ i + 1 \in 1..1 + Len(t) /\ ~(i + 1 <= 1)
          /\ i + 1 - 1 = i
      BY <2>1, <2>2
    <3> QED
      BY <2>1, <2>2, <3>1
  <2> QED
    BY <1>2, <2>1, <2>2, <2>3, SeqEqual
<1> HIDE DEF h
<1>6. Count(s \o t, K) + (IF h[1] \in K THEN 1 ELSE 0) = Count(s, K) + Count(h, K)
  BY <1>2, <1>3, <1>5, CountReplaced, ZenonT(30)
<1>7. Count(t, K) + (IF h[1] \in K THEN 1 ELSE 0) = Count(<<>>, K) + Count(h, K)
  <2> DEFINE e == <<>>
  <2>1. e \o t = t /\ e \in Seq(S)
    BY <1>2, ConcatEmptySeq
  <2> HIDE DEF e
  <2>2. Count(e \o Tail(h), K) + (IF h[1] \in K THEN 1 ELSE 0) = Count(e, K) + Count(h, K)
    BY <1>3, <2>1, CountReplaced
  <2> QED
    BY <1>5, <2>1, <2>2 DEF e
<1>8. Count(<<>>, K) = 0
  BY <1>2, CountNone, ShortItems
<1>9. /\ Count(s \o t, K) \in Nat /\ Count(s, K) \in Nat /\ Count(t, K) \in Nat
      /\ Count(h, K) \in Nat
  BY <1>2, <1>3, <1>4
<1>10. Count(s \o t, K) = Count(s, K) + Count(t, K)
  BY <1>6, <1>7, <1>8, <1>9
<1> QED
  BY <1>2, <1>3, <1>4, <1>9, <1>10

Weight(it, kinds) == IF it.k \in kinds THEN 1 ELSE 0

LEMMA PendingShort ==
  /\ \A kinds : PendingIn(<<>>, kinds) = 0
  /\ \A kinds, a : PendingIn(<<a>>, kinds) = Weight(a, kinds)
  /\ \A kinds, a, b : PendingIn(<<a, b>>, kinds) = Weight(a, kinds) + Weight(b, kinds)
  /\ \A kinds, a, b, c : PendingIn(<<a, b, c>>, kinds)
       = Weight(a, kinds) + Weight(b, kinds) + Weight(c, kinds)
  /\ \A kinds, a, b, c, d : PendingIn(<<a, b, c, d>>, kinds)
       = Weight(a, kinds) + Weight(b, kinds) + Weight(c, kinds) + Weight(d, kinds)
<1>1. ASSUME NEW kinds
      PROVE  PendingIn(<<>>, kinds) = 0
  <2>1. {i \in DOMAIN <<>> : <<>>[i].k \in kinds} = {}
    BY ShortItems
  <2> QED
    BY <2>1, FS_EmptySet DEF PendingIn
<1>2. ASSUME NEW kinds, NEW a
      PROVE  PendingIn(<<a>>, kinds) = Weight(a, kinds)
  <2>1. DOMAIN <<a>> = {1} /\ <<a>>[1] = a
    OBVIOUS
  <2>2. {i \in DOMAIN <<a>> : <<a>>[i].k \in kinds} = IF a.k \in kinds THEN {1} ELSE {}
    BY <2>1
  <2> QED
    BY <2>2, FS_EmptySet, FS_Singleton DEF PendingIn, Weight
<1>3. ASSUME NEW kinds, NEW a, NEW b
      PROVE  PendingIn(<<a, b>>, kinds) = Weight(a, kinds) + Weight(b, kinds)
  <2>1. PendingIn(<<a>> \o <<b>>, kinds) = PendingIn(<<a>>, kinds) + PendingIn(<<b>>, kinds)
    BY PendingJoined, ShortTuples
  <2> QED
    BY <1>2, <2>1, ShortConcat
<1>4. ASSUME NEW kinds, NEW a, NEW b, NEW c
      PROVE  PendingIn(<<a, b, c>>, kinds)
               = Weight(a, kinds) + Weight(b, kinds) + Weight(c, kinds)
  <2>1. PendingIn(<<a, b>> \o <<c>>, kinds)
          = PendingIn(<<a, b>>, kinds) + PendingIn(<<c>>, kinds)
    BY PendingJoined, ShortTuples
  <2> QED
    BY <1>2, <1>3, <2>1, ShortConcat
<1>5. ASSUME NEW kinds, NEW a, NEW b, NEW c, NEW d
      PROVE  PendingIn(<<a, b, c, d>>, kinds)
               = Weight(a, kinds) + Weight(b, kinds) + Weight(c, kinds) + Weight(d, kinds)
  <2>1. PendingIn(<<a, b, c>> \o <<d>>, kinds)
          = PendingIn(<<a, b, c>>, kinds) + PendingIn(<<d>>, kinds)
    BY PendingJoined, ShortTuples
  <2>2. <<a, b, c>> \o <<d>> = <<a, b, c, d>>
    BY ShortConcat
  <2>3. PendingIn(<<a, b, c>>, kinds)
          = Weight(a, kinds) + Weight(b, kinds) + Weight(c, kinds)
    BY <1>4
  <2>4. PendingIn(<<d>>, kinds) = Weight(d, kinds)
    BY <1>2
  <2> QED
    BY <2>1, <2>2, <2>3, <2>4
<1> QED
  BY <1>1, <1>2, <1>3, <1>4, <1>5

(* Of the symbols that claim a type, more than of types; the blocks that end.  *)
Claimers == {"declaration", "parameter_declaration", "function_definition"}
Balance(s) == PendingIn(s, Claimers) - PendingIn(s, {"type"})
Ends(s) == PendingIn(s, {"block_end"})

BalanceOf(it) ==
  IF it.k \in Claimers THEN 1 ELSE IF it.k = "type" THEN -1 ELSE 0
EndsOf(it) == IF it.k = "block_end" THEN 1 ELSE 0

LEMMA BalanceJoined ==
  ASSUME NEW s, IsTuple(s), NEW t, IsTuple(t)
  PROVE  /\ Balance(s) \in Int /\ Balance(t) \in Int /\ Ends(s) \in Nat /\ Ends(t) \in Nat
         /\ Balance(s \o t) = Balance(s) + Balance(t)
         /\ Ends(s \o t) = Ends(s) + Ends(t)
BY PendingJoined DEF Balance, Ends

LEMMA BalanceShort ==
  /\ Balance(<<>>) = 0 /\ Ends(<<>>) = 0
  /\ \A a : Balance(<<a>>) = BalanceOf(a) /\ Ends(<<a>>) = EndsOf(a)
  /\ \A a, b : /\ Balance(<<a, b>>) = BalanceOf(a) + BalanceOf(b)
               /\ Ends(<<a, b>>) = EndsOf(a) + EndsOf(b)
  /\ \A a, b, c :
       /\ Balance(<<a, b, c>>) = BalanceOf(a) + BalanceOf(b) + BalanceOf(c)
       /\ Ends(<<a, b, c>>) = EndsOf(a) + EndsOf(b) + EndsOf(c)
  /\ \A a, b, c, d :
       /\ Balance(<<a, b, c, d>>)
            = BalanceOf(a) + BalanceOf(b) + BalanceOf(c) + BalanceOf(d)
       /\ Ends(<<a, b, c, d>>) = EndsOf(a) + EndsOf(b) + EndsOf(c) + EndsOf(d)
<1>1. ASSUME NEW a
      PROVE  /\ Weight(a, Claimers) - Weight(a, {"type"}) = BalanceOf(a)
             /\ Weight(a, {"block_end"}) = EndsOf(a)
             /\ Weight(a, Claimers) \in Int /\ Weight(a, {"type"}) \in Int
  BY DEF Weight, BalanceOf, EndsOf, Claimers
<1>2. Balance(<<>>) = 0 /\ Ends(<<>>) = 0
  BY PendingShort DEF Balance, Ends
<1>3. ASSUME NEW a
      PROVE  Balance(<<a>>) = BalanceOf(a) /\ Ends(<<a>>) = EndsOf(a)
  BY <1>1, PendingShort DEF Balance, Ends
<1>4. ASSUME NEW a, NEW b
      PROVE  /\ Balance(<<a, b>>) = BalanceOf(a) + BalanceOf(b)
             /\ Ends(<<a, b>>) = EndsOf(a) + EndsOf(b)
  BY <1>1, PendingShort DEF Balance, Ends
<1>5. ASSUME NEW a, NEW b, NEW c
      PROVE  /\ Balance(<<a, b, c>>) = BalanceOf(a) + BalanceOf(b) + BalanceOf(c)
             /\ Ends(<<a, b, c>>) = EndsOf(a) + EndsOf(b) + EndsOf(c)
  BY <1>1, PendingShort DEF Balance, Ends
<1>6. ASSUME NEW a, NEW b, NEW c, NEW d
      PROVE  /\ Balance(<<a, b, c, d>>)
                  = BalanceOf(a) + BalanceOf(b) + BalanceOf(c) + BalanceOf(d)
             /\ Ends(<<a, b, c, d>>) = EndsOf(a) + EndsOf(b) + EndsOf(c) + EndsOf(d)
  <2> DEFINE W(it, kinds) == Weight(it, kinds)
  <2>1. ASSUME NEW kinds
        PROVE  PendingIn(<<a, b, c, d>>, kinds)
                 = W(a, kinds) + W(b, kinds) + W(c, kinds) + W(d, kinds)
    BY PendingShort
  <2>2. \A it : /\ W(it, Claimers) - W(it, {"type"}) = BalanceOf(it)
                /\ W(it, {"block_end"}) = EndsOf(it)
                /\ W(it, Claimers) \in Int /\ W(it, {"type"}) \in Int
    BY <1>1
  <2> HIDE DEF W
  <2>3. Balance(<<a, b, c, d>>)
          = BalanceOf(a) + BalanceOf(b) + BalanceOf(c) + BalanceOf(d)
    BY <2>1, <2>2 DEF Balance
  <2>4. Ends(<<a, b, c, d>>) = EndsOf(a) + EndsOf(b) + EndsOf(c) + EndsOf(d)
    BY <2>1, <2>2 DEF Ends
  <2> QED
    BY <2>3, <2>4
<1> QED
  BY <1>2, <1>3, <1>4, <1>5, <1>6

Balanced(items) == Balance(items) = 0 /\ Ends(items) = 0

LEMMA BalanceOfItems ==
  /\ \A k : k \notin Claimers \union {"type", "block_end"} =>
       /\ BalanceOf(Item(k)) = 0 /\ EndsOf(Item(k)) = 0
       /\ \A x : \A n \in Nat :
            BalanceOf(Named(k, x, n)) = 0 /\ EndsOf(Named(k, x, n)) = 0
  /\ BalanceOf(Item("type")) = -1 /\ EndsOf(Item("type")) = 0
  /\ BalanceOf(Item("block_end")) = 0 /\ EndsOf(Item("block_end")) = 1
  /\ \A k \in Claimers :
       /\ BalanceOf(Item(k)) = 1 /\ EndsOf(Item(k)) = 0
       /\ \A x : BalanceOf(Named(k, x, 0)) = 1 /\ EndsOf(Named(k, x, 0)) = 0
<1>1. /\ \A k : Item(k).k = k
      /\ \A k, x : \A n \in Nat : Named(k, x, n).k = k
  BY Symbols
<1> QED
  BY <1>1 DEF BalanceOf, EndsOf, Claimers

LEMMA AssignmentBalanced ==
  ASSUME NEW x
  PROVE  IsTuple(Assignment(x)) /\ Balanced(Assignment(x))
<1>1. /\ BalanceOf(Item("expression")) = 0 /\ EndsOf(Item("expression")) = 0
      /\ BalanceOf(Named("assignment", x, 0)) = 0 /\ EndsOf(Named("assignment", x, 0)) = 0
  BY BalanceOfItems DEF Claimers
<1> QED
  BY <1>1, BalanceShort, ShortTuples DEF Balanced, Assignment

LEMMA DeclarationBalanced ==
  ASSUME NEW where
  PROVE  IsTuple(Declaration(where)) /\ Balanced(Declaration(where))
<1> DEFINE a == Item("type")
           b == Item("declarator")
           c == Item("declarator_list")
           d == Named("declaration", where, 0)
<1>1. /\ BalanceOf(a) = -1 /\ EndsOf(a) = 0 /\ BalanceOf(b) = 0 /\ EndsOf(b) = 0
      /\ BalanceOf(c) = 0 /\ EndsOf(c) = 0
  BY BalanceOfItems DEF Claimers
<1>2. BalanceOf(d) = 1 /\ EndsOf(d) = 0
  BY BalanceOfItems DEF Claimers
<1>3. IsSentence(<<a, b, c, d>>)
  BY Symbols, Sentences
<1> HIDE DEF a, b, c, d
<1>4. IsTuple(<<a, b, c, d>>) /\ Balanced(<<a, b, c, d>>)
  <2>1. /\ Balance(<<a, b, c, d>>) = BalanceOf(a) + BalanceOf(b) + BalanceOf(c) + BalanceOf(d)
        /\ Ends(<<a, b, c, d>>) = EndsOf(a) + EndsOf(b) + EndsOf(c) + EndsOf(d)
    BY BalanceShort
  <2> QED
    BY <1>1, <1>2, <1>3, <2>1 DEF Balanced, IsSentence
<1> QED
  BY <1>4 DEF Declaration, a, b, c, d

LEMMA BalancedJoined ==
  ASSUME NEW s, IsTuple(s), Balanced(s), NEW t, IsTuple(t), Balanced(t)
  PROVE  IsTuple(s \o t) /\ Balanced(s \o t)
<1>1. IsTuple(s \o t)
  BY Joined DEF IsJoined
<1>2. Balance(s \o t) = Balance(s) + Balance(t) /\ Ends(s \o t) = Ends(s) + Ends(t)
  BY BalanceJoined
<1> QED
  BY <1>1, <1>2 DEF Balanced

LEMMA ExpansionsBalanced ==
  /\ Balanced(<<>>)
  /\ \A x : Balanced(<<Item("parameter_list"), Named("function_declarator", x, 1)>>)
  /\ Balanced(<<Item("declarator"), Item("declarator_list")>>)
  /\ Balanced(<<Item("type"), Item("parameter_declaration"), Item("parameter_list")>>)
  /\ Balanced(<<Item("instruction"), Item("append"), Item("instruction_list")>>)
  /\ Balanced(<<Item("compound")>>)
  /\ Balanced(<<Item("expression"), Item("expression_instruction")>>)
  /\ \A k \in {"if", "while"} :
       Balanced(<<Item("condition"), Item("instruction"), Item(k)>>)
  /\ Balanced(<<Item("instruction"), Item("condition"), Item("do")>>)
  /\ Balanced(<<Item("condition"), Item("instruction"), Item("instruction"),
                Item("if_else")>>)
  /\ \A c : (c.k \in {"comparison", "plus", "other"}) =>
       Balanced(<<Item("expression"), Item("expression"), c>>)
  /\ Balanced(<<Item("expression"), Item("unary")>>)
<1>1. ASSUME NEW k \in {"parameter_list", "declarator", "declarator_list", "instruction",
                        "append", "instruction_list", "compound", "expression",
                        "expression_instruction", "condition", "if", "while", "do",
                        "if_else", "unary"}
      PROVE  BalanceOf(Item(k)) = 0 /\ EndsOf(Item(k)) = 0
  BY BalanceOfItems DEF Claimers
<1>2. Balanced(<<>>) /\ Balanced(<<Item("compound")>>)
  BY <1>1, BalanceShort DEF Balanced
<1>3. ASSUME NEW x
      PROVE  Balanced(<<Item("parameter_list"), Named("function_declarator", x, 1)>>)
  <2>1. /\ BalanceOf(Named("function_declarator", x, 1)) = 0
        /\ EndsOf(Named("function_declarator", x, 1)) = 0
    BY BalanceOfItems DEF Claimers
  <2> QED
    BY <1>1, <2>1, BalanceShort DEF Balanced
<1>4. /\ Balanced(<<Item("declarator"), Item("declarator_list")>>)
      /\ Balanced(<<Item("expression"), Item("expression_instruction")>>)
      /\ Balanced(<<Item("expression"), Item("unary")>>)
  BY <1>1, BalanceShort DEF Balanced
<1>5. Balanced(<<Item("type"), Item("parameter_declaration"), Item("parameter_list")>>)
  <2>1. /\ BalanceOf(Item("type")) = -1 /\ EndsOf(Item("type")) = 0
        /\ BalanceOf(Item("parameter_declaration")) = 1
        /\ EndsOf(Item("parameter_declaration")) = 0
    BY BalanceOfItems DEF Claimers
  <2> QED
    BY <1>1, <2>1, BalanceShort DEF Balanced
<1>6. Balanced(<<Item("instruction"), Item("append"), Item("instruction_list")>>)
  BY <1>1, BalanceShort DEF Balanced
<1>7. /\ \A k \in {"if", "while"} :
           Balanced(<<Item("condition"), Item("instruction"), Item(k)>>)
      /\ Balanced(<<Item("instruction"), Item("condition"), Item("do")>>)
  BY <1>1, BalanceShort DEF Balanced
<1>8. Balanced(<<Item("condition"), Item("instruction"), Item("instruction"),
                 Item("if_else")>>)
  BY <1>1, BalanceShort DEF Balanced
<1>9. ASSUME NEW c, c.k \in {"comparison", "plus", "other"}
      PROVE  Balanced(<<Item("expression"), Item("expression"), c>>)
  <2>1. BalanceOf(c) = 0 /\ EndsOf(c) = 0
    BY <1>9 DEF BalanceOf, EndsOf, Claimers
  <2> QED
    BY <1>1, <2>1, BalanceShort DEF Balanced
<1> QED
  BY <1>2, <1>3, <1>4, <1>5, <1>6, <1>7, <1>8, <1>9

LEMMA LongExpansionsBalanced ==
  /\ \A x : Balanced(Assignment(x) \o <<Item("expression_instruction")>>)
  /\ \A x, y : Balanced(Assignment(x) \o <<Item("condition")>> \o Assignment(y)
                          \o <<Item("instruction"), Item("for")>>)
  /\ \A x : \A m \in Nat :
       Balanced([i \in 1..m |-> Item("expression")] \o <<Named("call", x, m)>>)
<1>1. ASSUME NEW k \in {"expression_instruction", "condition", "instruction", "for",
                        "expression"}
      PROVE  BalanceOf(Item(k)) = 0 /\ EndsOf(Item(k)) = 0
  BY BalanceOfItems DEF Claimers
<1>2. /\ Balanced(<<Item("expression_instruction")>>) /\ Balanced(<<Item("condition")>>)
      /\ Balanced(<<Item("instruction"), Item("for")>>)
  BY <1>1, BalanceShort DEF Balanced
<1>3. ASSUME NEW x
      PROVE  Balanced(Assignment(x) \o <<Item("expression_instruction")>>)
  BY <1>2, AssignmentBalanced, BalancedJoined, ShortTuples
<1>4. ASSUME NEW x, NEW y
      PROVE  Balanced(Assignment(x) \o <<Item("condition")>> \o Assignment(y)
                        \o <<Item("instruction"), Item("for")>>)
  <2> DEFINE s == Assignment(x) \o <<Item("condition")>>
             t == s \o Assignment(y)
  <2>1. IsTuple(s) /\ Balanced(s)
    BY <1>2, AssignmentBalanced, BalancedJoined, ShortTuples
  <2> HIDE DEF s
  <2>2. IsTuple(t) /\ Balanced(t)
    BY <2>1, AssignmentBalanced, BalancedJoined
  <2> HIDE DEF t
  <2>3. Balanced(t \o <<Item("instruction"), Item("for")>>)
    BY <1>2, <2>2, BalancedJoined, ShortTuples
  <2> QED
    BY <2>3 DEF s, t
<1>5. ASSUME NEW x, NEW m \in Nat
      PROVE  Balanced([i \in 1..m |-> Item("expression")] \o <<Named("call", x, m)>>)
  <2> DEFINE a == Item("expression")
             s == [i \in 1..m |-> a]
             b == Named("call", x, m)
  <2>1. a.k = "expression" /\ BalanceOf(b) = 0 /\ EndsOf(b) = 0
    BY Symbols, BalanceOfItems DEF Claimers
  <2> HIDE DEF a, b
  <2>2. s \in [1..m -> {a}]
    OBVIOUS
  <2>3. IsTuple(s) /\ \A i \in DOMAIN s : s[i] = a
    BY <2>2, SeqFromFunction, Tuples, ZenonT(30)
  <2> HIDE DEF s
  <2>4. ASSUME NEW kinds, "expression" \notin kinds
        PROVE  PendingIn(s, kinds) = 0
    <3>1. {i \in DOMAIN s : s[i].k \in kinds} = {}
      BY <2>1, <2>3, <2>4
    <3> QED
      BY <3>1, FS_EmptySet DEF PendingIn
  <2>5. Balanced(s)
    BY <2>4 DEF Balanced, Balance, Ends, Claimers
  <2>6. Balanced(<<b>>)
    BY <2>1, BalanceShort DEF Balanced
  <2>7. Balanced(s \o <<b>>)
    BY <2>3, <2>5, <2>6, BalancedJoined, ShortTuples
  <2> QED
    BY <2>7 DEF s, a, b
<1> QED
  BY <1>3, <1>4, <1>5

-----------------------------------------------------------------------------
(* The inductive invariant.  The stacks are in a situation from which the      *)
(* rest of the sentence leads to the end of the program.                      *)

Inner == {"typed", "named", "opened", "body"}

Matches(u) ==
  /\ Fits(values, u.kinds)
  /\ Len(unclaimed_types_) = u.open
  /\ new_function_definition_ = (u.stage = "opened")
  /\ u.stage \in Inner =>
       u.open >= 1 /\ u.kinds # <<>> /\ values[1] = unclaimed_types_[1]
  /\ u.stage \in {"named", "opened", "body"} =>
       /\ definition \in DOMAIN heap /\ heap[definition].type = unclaimed_types_[1]
       /\ definition \notin Elements(declarators)
  /\ u.stage = "named" => last_function_ = definition
  /\ u.stage \in {"outside", "typed", "written"} => definition = 0

Situated == \E u \in Situation : Matches(u) /\ Leads(expected, u, Start)

(* The symbols in the tables, and those of parameters, have their types.       *)
InTables == UNION {Elements(symbol_table[i]) : i \in DOMAIN symbol_table}

HeapTyped ==
  /\ \A s \in InTables \union Elements(parameters) : heap[s].type \in Type
  /\ \A s \in DOMAIN heap : \A i \in DOMAIN heap[s].args :
       heap[heap[s].args[i]].type \in Type

Shaped ==
  /\ declarators \in Seq(1..Len(heap)) /\ parameters \in Seq(1..Len(heap))
  /\ IsTuple(symbol_table)

Data == TypeOK /\ Shaped /\ HeapTyped

PInv ==
  /\ Data /\ IsSentence(expected)
  /\ TypesClaimed /\ ScopesMatchBlocks
  /\ Running => Situated

LEMMA Counted ==
  /\ TypesClaimed <=> (Running => Len(unclaimed_types_) = Balance(expected))
  /\ ScopesMatchBlocks <=>
       (Running => Len(symbol_table) = 1 + Ends(expected)
                     + (IF new_function_definition_ THEN 1 ELSE 0))
BY DEF TypesClaimed, ScopesMatchBlocks, Pending, PendingIn, Balance, Ends, Claimers

LEMMA NextSentence ==
  ASSUME IsSentence(expected), expected # <<>>, NEW items, IsSentence(items),
         Become(items)
  PROVE  /\ IsSentence(expected') /\ IsSymbol(Top)
         /\ Balance(expected') = Balance(items) + Balance(expected) - BalanceOf(Top)
         /\ Ends(expected') = Ends(items) + Ends(expected) - EndsOf(Top)
         /\ Balance(expected) \in Int /\ Ends(expected) \in Nat
<1> DEFINE t == Tail(expected)
<1>1. IsTuple(expected) /\ \A i \in DOMAIN expected : IsSymbol(expected[i])
  BY DEF IsSentence
<1>2. expected = <<Top>> \o t /\ IsTuple(t) /\ Top = expected[1] /\ 1 \in DOMAIN expected
      /\ \A i \in DOMAIN t : i + 1 \in DOMAIN expected /\ t[i] = expected[i + 1]
  <2> DEFINE S == {expected[i] : i \in DOMAIN expected}
  <2>1. expected \in Seq(S)
    BY <1>1 DEF IsTuple
  <2> HIDE DEF S
  <2>2. /\ t \in Seq(S) /\ Len(t) = Len(expected) - 1
        /\ \A i \in 1..Len(t) : t[i] = expected[i + 1]
    BY <2>1, HeadTailProperties
  <2>3. /\ Len(expected) \in Nat /\ Len(expected) > 0 /\ DOMAIN expected = 1..Len(expected)
        /\ Len(t) \in Nat /\ DOMAIN t = 1..Len(t)
    BY <2>1, <2>2, EmptySeq, LenProperties
  <2>4. IsReplaced(expected, <<>>, <<>> \o Tail(expected))
    BY <1>1, Replaced, ShortTuples
  <2>5. Top = expected[1]
    BY <2>4 DEF Top, IsReplaced
  <2>6. expected = <<Top>> \o t
    <3> DEFINE h == <<Top>>
    <3>1. h \in Seq(S) /\ Len(h) = 1 /\ h[1] = Top
      BY <2>1, <2>3, <2>5, ElementOfSeq
    <3> HIDE DEF h, t
    <3>2. /\ Len(expected) = Len(h) + Len(t) /\ \A i \in 1..Len(h) : h[i] = expected[i]
          /\ \A i \in 1..Len(t) : t[i] = expected[Len(h) + i]
      <4>1. \A i \in 1..Len(t) : t[i] = expected[1 + i]
        BY <2>2, <2>3
      <4> QED
        BY <2>2, <2>3, <2>5, <3>1, <4>1
    <3>3. h \o t = expected
      BY <2>1, <2>2, <3>1, <3>2, Spelled
    <3> QED
      BY <3>3 DEF h, t
  <2>7. IsTuple(t)
    BY <2>2, Tuples
  <2> HIDE DEF t
  <2>8. 1 \in DOMAIN expected /\ \A i \in DOMAIN t : i + 1 \in DOMAIN expected
    BY <2>2, <2>3
  <2>9. \A i \in DOMAIN t : t[i] = expected[i + 1]
    BY <2>2, <2>3
  <2> QED
    BY <2>5, <2>6, <2>7, <2>8, <2>9
<1>3. IsSymbol(Top) /\ IsSentence(t) /\ IsSentence(<<Top>>)
  BY <1>1, <1>2, Sentences DEF IsSentence
<1> HIDE DEF t
<1>4. IsSentence(items \o t) /\ expected' = items \o t
  BY <1>3, Sentences DEF Become, t
<1>5. /\ Balance(items \o t) = Balance(items) + Balance(t)
      /\ Ends(items \o t) = Ends(items) + Ends(t)
      /\ Balance(items) \in Int /\ Balance(t) \in Int
      /\ Ends(items) \in Nat /\ Ends(t) \in Nat
  BY <1>3, BalanceJoined DEF IsSentence
<1>6. Balance(<<Top>> \o t) = BalanceOf(Top) + Balance(t)
      /\ Ends(<<Top>> \o t) = EndsOf(Top) + Ends(t)
  <2>1. Balance(<<Top>>) = BalanceOf(Top) /\ Ends(<<Top>>) = EndsOf(Top)
    BY BalanceShort
  <2> QED
    BY <1>3, <2>1, BalanceJoined DEF IsSentence
<1>7. BalanceOf(Top) \in Int /\ EndsOf(Top) \in Nat
  BY DEF BalanceOf, EndsOf
<1>8. Balance(expected') = Balance(items \o t) /\ Ends(expected') = Ends(items \o t)
  BY <1>4 DEF Balance, Ends, PendingIn
<1>9. Balance(expected) = Balance(<<Top>> \o t) /\ Ends(expected) = Ends(<<Top>> \o t)
  BY <1>2
<1> QED
  BY <1>3, <1>4, <1>5, <1>6, <1>7, <1>8, <1>9

(* The first symbol has its effect on the situation, and what takes its place  *)
(* must lead where it leads.                                                 *)
LEMMA Facing ==
  ASSUME PInv, Running, expected # <<>>
  PROVE  \E u, m \in Situation :
           /\ Matches(u) /\ Effect(Top, u, m)
           /\ \A items, x : (IsTuple(items) /\ Become(items) /\ Leads(items, x, m))
                              => Leads(expected', x, Start)
<1>1. PICK u \in Situation : Matches(u) /\ Leads(expected, u, Start)
  BY DEF PInv, Situated
<1>2. IsTuple(expected)
  BY DEF PInv, IsSentence
<1>3. PICK m \in Situation :
        /\ Effect(Head(expected), u, m)
        /\ \A items, x : (IsTuple(items) /\ Leads(items, x, m))
                           => Leads(items \o Tail(expected), x, Start)
  BY <1>1, <1>2, LeadsFirst, Zenon
<1> QED
  BY <1>1, <1>3 DEF Top, Become
-----------------------------------------------------------------------------
(* A step in which the program goes on being parsed.                         *)

Flag == IF new_function_definition_ THEN 1 ELSE 0

Ahead(k) == expected # <<>> /\ Top.k = k

(* Nothing is declared: the step keeps the invariant, and it does not lead to   *)
(* the end of a function's declarator or of an external declaration.          *)
Quiet == PInv' /\ ~Ahead("decl_glb_fct")' /\ ~Ahead("external_declaration")'

LEMMA DataKept ==
  ASSUME Data, IsSentence(expected'), size' \in 0..MaxSize, values' \in Seq(Value),
         unclaimed_types_' \in Seq(Type), new_function_definition_' \in BOOLEAN,
         UNCHANGED <<lists, last_function_, scopes, outcome>>
  PROVE  Data'
<1>1. \A i \in DOMAIN expected' : DOMAIN expected'[i] = {"k", "name", "n"}
  <2>1. ASSUME NEW it, IsSymbol(it)
        PROVE  DOMAIN it = {"k", "name", "n"}
    BY <2>1 DEF IsSymbol, Named
  <2> QED
    BY <2>1 DEF IsSentence
<1>2. /\ declarators' = declarators /\ parameters' = parameters
      /\ definition' = definition /\ last_function_' = last_function_
      /\ heap' = heap /\ symbol_table' = symbol_table
      /\ result' = result /\ exit' = exit
  BY DEF lists, scopes, outcome
<1>3. TypeOK'
  BY <1>1, <1>2 DEF Data, TypeOK, Value, Elements
<1>4. Shaped'
  BY <1>2 DEF Data, Shaped, IsTuple
<1>5. HeapTyped'
  <2>1. InTables' = InTables /\ Elements(parameters)' = Elements(parameters)
    BY <1>2 DEF InTables, Elements
  <2> QED
    BY <1>2, <2>1 DEF Data, HeapTyped
<1> QED
  BY <1>3, <1>4, <1>5 DEF Data

LEMMA Settled ==
  ASSUME PInv, Running, expected # <<>>, exit' = exit,
         NEW items, IsSentence(items), Become(items), Data', Situated',
         Len(unclaimed_types_') = Len(unclaimed_types_) + Balance(items) - BalanceOf(Top),
         Len(symbol_table') - Flag' = Len(symbol_table) - Flag + Ends(items) - EndsOf(Top)
  PROVE  PInv'
<1>1. /\ IsSentence(expected')
      /\ Balance(expected') = Balance(items) + Balance(expected) - BalanceOf(Top)
      /\ Ends(expected') = Ends(items) + Ends(expected) - EndsOf(Top)
      /\ Balance(expected) \in Int /\ Ends(expected) \in Nat
  BY NextSentence DEF PInv
<1>2. /\ Len(unclaimed_types_) = Balance(expected)
      /\ Len(symbol_table) = 1 + Ends(expected) + Flag
  BY Counted DEF PInv, Flag
<1>3. Balance(items) \in Int /\ Ends(items) \in Nat /\ Flag \in 0..1 /\ Flag' \in 0..1
      /\ BalanceOf(Top) \in Int /\ EndsOf(Top) \in Nat
  <2>1. Balance(items) \in Int /\ Ends(items) \in Nat
    BY BalanceJoined DEF IsSentence
  <2> QED
    BY <2>1 DEF Flag, BalanceOf, EndsOf
<1>4. Len(symbol_table') \in Nat
  <2>1. IsTuple(symbol_table')
    BY DEF Data, Shaped
  <2> QED
    BY <2>1, LenProperties DEF IsTuple
<1>5. /\ Len(unclaimed_types_') = Balance(expected')
      /\ Len(symbol_table') = 1 + Ends(expected') + Flag'
  <2>1. Len(unclaimed_types_') = Balance(expected')
    BY <1>1, <1>2, <1>3
  <2> DEFINE f == Flag
             g == Flag'
             e == Ends(expected)
             i == Ends(items)
             o == EndsOf(Top)
             l == Len(symbol_table')
  <2>2. f \in 0..1 /\ g \in 0..1 /\ e \in Nat /\ i \in Nat /\ o \in Nat /\ l \in Nat
    BY <1>1, <1>3, <1>4
  <2>3. l - g = (1 + e + f) - f + i - o
    BY <1>2
  <2> HIDE DEF f, g, e, i, o, l
  <2>4. l = 1 + (i + e - o) + g
    BY <2>2, <2>3
  <2>5. Len(symbol_table') = 1 + (Ends(items) + Ends(expected) - EndsOf(Top)) + Flag'
    BY <2>4 DEF f, g, e, i, o, l
  <2> QED
    BY <1>1, <2>1, <2>5
<1>6. TypesClaimed' /\ ScopesMatchBlocks'
  <2>1. /\ TypesClaimed' <=> (Running' => Len(unclaimed_types_') = Balance(expected'))
        /\ ScopesMatchBlocks' <=>
             (Running' => Len(symbol_table') = 1 + Ends(expected') + Flag')
    BY DEF TypesClaimed, ScopesMatchBlocks, Pending, PendingIn, Balance, Ends, Claimers,
           Flag
  <2> QED
    BY <1>5, <2>1
<1> QED
  BY <1>1, <1>6 DEF PInv

(* A symbol makes way for those it is derived from.                          *)
LEMMA Expands ==
  ASSUME PInv, Running, expected # <<>>, NEW items, Replaces(Top, items),
         Balance(items) = BalanceOf(Top), Ends(items) = EndsOf(Top), Become(items),
         size' \in 0..MaxSize, UNCHANGED <<values, lists, globals, scopes, outcome>>,
         Top.k \notin {"decl_glb_fct", "external_declaration"}
  PROVE  Quiet
<1>1. IsSentence(items)
  BY DEF Replaces
<1>2. /\ values' = values /\ unclaimed_types_' = unclaimed_types_
      /\ last_function_' = last_function_
      /\ new_function_definition_' = new_function_definition_
      /\ declarators' = declarators /\ definition' = definition
      /\ heap' = heap /\ symbol_table' = symbol_table /\ exit' = exit
  BY DEF lists, globals, scopes, outcome
<1>3. IsSentence(expected')
  BY <1>1, NextSentence DEF PInv
<1>4. Data'
  BY <1>2, <1>3, DataKept DEF PInv, Data, TypeOK, Value
<1>5. PICK u, m \in Situation :
        /\ Matches(u) /\ Effect(Top, u, m)
        /\ \A s, x : (IsTuple(s) /\ Become(s) /\ Leads(s, x, m)) => Leads(expected', x, Start)
  BY Facing
<1>6. Leads(expected', u, Start)
  BY <1>1, <1>5 DEF Replaces, IsSentence
<1>7. Matches(u)'
  BY <1>2, <1>5 DEF Matches, Elements
<1>8. Situated'
  BY <1>5, <1>6, <1>7 DEF Situated
<1>9. /\ Len(unclaimed_types_) \in Int /\ Len(symbol_table) \in Int
      /\ BalanceOf(Top) \in Int /\ EndsOf(Top) \in Int /\ Flag \in Int
  <2>1. unclaimed_types_ \in Seq(Type) /\ IsTuple(symbol_table)
    BY DEF PInv, Data, TypeOK, Shaped
  <2>2. Len(unclaimed_types_) \in Int /\ Len(symbol_table) \in Int
    BY <2>1, LenProperties DEF IsTuple
  <2> QED
    BY <2>2 DEF BalanceOf, EndsOf, Flag
<1>10. /\ Len(unclaimed_types_') = Len(unclaimed_types_) + Balance(items) - BalanceOf(Top)
       /\ Len(symbol_table') - Flag' = Len(symbol_table) - Flag + Ends(items) - EndsOf(Top)
  <2>1. Flag' = Flag
    BY <1>2 DEF Flag
  <2> QED
    BY <1>2, <1>9, <2>1
<1>11. PInv'
  BY <1>1, <1>2, <1>4, <1>8, <1>10, Settled
<1>12. ASSUME Ahead("decl_glb_fct")' \/ Ahead("external_declaration")'
       PROVE  FALSE
  <2> DEFINE e == expected'
             h == Head(e)
             t == Top
  <2>1. /\ e # <<>> /\ IsTuple(e) /\ Leads(e, u, Start)
        /\ h.k \in {"decl_glb_fct", "external_declaration"}
    BY <1>3, <1>6, <1>12 DEF Ahead, Top, IsSentence
  <2> HIDE DEF e
  <2>2. PICK n \in Situation : Effect(h, u, n)
    BY <2>1, LeadsFirst
  <2> HIDE DEF h, t
  <2>3. u.stage \in {"named", "written"}
    BY <2>1, <2>2 DEF Effect, Passes, Works, Anywhere, InBody, Claimed, Written, Sit
  <2>4. Effect(t, u, m) /\ t.k \notin {"decl_glb_fct", "external_declaration"}
    BY <1>5 DEF t
  <2> QED
    BY <2>3, <2>4 DEF Effect, Passes, Works, Claimed, Sit, Start, Defined, Written
<1> QED
  BY <1>11, <1>12 DEF Quiet

(* Of a symbol of a function's body, the situation it is met in.              *)
LEMMA Met ==
  ASSUME PInv, Running, expected # <<>>, Top.k \in PlainKinds
  PROVE  \E r \in Stack, n \in Nat :
           /\ n >= 1 /\ Matches(Above(r, Needs(Top), n))
           /\ \A items, x : (/\ IsTuple(items) /\ Become(items)
                             /\ Leads(items, x, Above(r, Gives(Top), n)))
                              => Leads(expected', x, Start)
<1>1. PICK u, m \in Situation :
        /\ Matches(u) /\ Effect(Top, u, m)
        /\ \A items, x : (IsTuple(items) /\ Become(items) /\ Leads(items, x, m))
                           => Leads(expected', x, Start)
  BY Facing
<1>2. PICK r \in Stack, n \in Nat :
        n >= 1 /\ u = Above(r, Needs(Top), n) /\ m = Above(r, Gives(Top), n)
  <2> DEFINE it == Top
  <2>1. it.k \in PlainKinds /\ Effect(it, u, m)
    BY <1>1
  <2> HIDE DEF it
  <2>2. \E r \in Stack, n \in Nat :
          n >= 1 /\ u = Above(r, Needs(it), n) /\ m = Above(r, Gives(it), n)
    BY <2>1, PlainEffect
  <2> QED
    BY <2>2 DEF it
<1> QED
  BY <1>1, <1>2

(* Its operands lie on top of the value stack, over a type or outcome at least.*)
LEMMA Operands ==
  ASSUME PInv, Running, expected # <<>>, Top.k \in PlainKinds, Needs(Top) \in Seq(Kinds)
  PROVE  /\ Len(Needs(Top)) \in Nat /\ Len(values) \in Nat
         /\ Len(values) > Len(Needs(Top))
         /\ \A i \in 1..Len(Needs(Top)) :
              FromTop(Len(Needs(Top)) - i) \in KindOf(Needs(Top)[i])
<1>1. PICK r \in Stack, n \in Nat : Matches(Above(r, Needs(Top), n))
  BY Met
<1> DEFINE t == Needs(Top)
<1> HIDE DEF t
<1>2. r \in Seq(Kinds) /\ r # <<>> /\ t \in Seq(Kinds) /\ values \in Seq(Value)
      /\ Fits(values, r \o t)
  BY <1>1 DEF Stack, Matches, Above, Sit, t, PInv, Data, TypeOK, Value
<1>3. /\ Len(values) = Len(r) + Len(t) /\ Len(r) \in Nat /\ Len(t) \in Nat
      /\ \A i \in 1..Len(t) : values[Len(values) - Len(t) + i] \in KindOf(t[i])
      /\ Len(r) >= 1
  BY <1>2, FitsPopped
<1>4. ASSUME NEW i \in 1..Len(t)
      PROVE  FromTop(Len(t) - i) \in KindOf(t[i])
  <2>1. Len(values) - (Len(t) - i) = Len(values) - Len(t) + i
    BY <1>3
  <2> QED
    BY <1>3, <2>1 DEF FromTop
<1>5. Len(values) \in Nat /\ Len(values) > Len(t)
  BY <1>3
<1> QED
  BY <1>3, <1>4, <1>5 DEF t

(* A rule reduces: its value takes the place of its operands.                 *)
LEMMA Computes ==
  ASSUME PInv, Running, expected # <<>>, Top.k \in PlainKinds, Top.k # "block_end",
         Needs(Top) \in Seq(Kinds), NEW k \in Kinds, Gives(Top) = <<k>>,
         NEW v \in KindOf(k), Become(<<>>),
         values' = Append(Pop(values, Len(Needs(Top))), v),
         UNCHANGED <<size, lists, globals, scopes, outcome>>
  PROVE  PInv'
<1> DEFINE t == Needs(Top)
<1>1. PICK r \in Stack, n \in Nat :
        /\ n >= 1 /\ Matches(Above(r, t, n))
        /\ \A items, x : (/\ IsTuple(items) /\ Become(items)
                          /\ Leads(items, x, Above(r, <<k>>, n)))
                           => Leads(expected', x, Start)
  BY Met
<1>2. values' = Append(Pop(values, Len(t)), v)
  OBVIOUS
<1> HIDE DEF t
<1>3. /\ unclaimed_types_' = unclaimed_types_ /\ last_function_' = last_function_
      /\ new_function_definition_' = new_function_definition_
      /\ declarators' = declarators /\ definition' = definition /\ size' = size
      /\ heap' = heap /\ symbol_table' = symbol_table /\ exit' = exit
  BY DEF lists, globals, scopes, outcome
<1>4. r \in Seq(Kinds) /\ r # <<>> /\ t \in Seq(Kinds) /\ values \in Seq(Value)
      /\ Fits(values, r \o t)
  BY <1>1 DEF Stack, Matches, Above, Sit, t, PInv, Data, TypeOK, Value
<1>5. /\ Pop(values, Len(t)) \in Seq(Value) /\ Fits(Pop(values, Len(t)), r)
      /\ Pop(values, Len(t))[1] = values[1]
  BY <1>4, FitsPopped
<1>6. /\ values' \in Seq(Value) /\ Fits(values', r \o <<k>>) /\ values'[1] = values[1]
  BY <1>2, <1>4, <1>5, FitsPushed
<1>7. Above(r, <<k>>, n) \in Situation /\ r \o <<k>> # <<>>
  <2>1. <<k>> \in Seq(Kinds)
    BY ShortStacks
  <2> DEFINE p == <<k>>
  <2> HIDE DEF p
  <2>2. Above(r, p, n) \in Situation
    BY <2>1, AboveTyped DEF p
  <2>3. r \o p # <<>>
    BY <1>4, <2>1, ConcatEqualIffEmpty DEF p
  <2> QED
    BY <2>2, <2>3 DEF p
<1>8. Matches(Above(r, <<k>>, n))'
  <2>1. /\ Len(unclaimed_types_) = n /\ new_function_definition_ = FALSE
        /\ values[1] = unclaimed_types_[1]
        /\ definition \in DOMAIN heap /\ heap[definition].type = unclaimed_types_[1]
        /\ definition \notin Elements(declarators)
    BY <1>1 DEF Matches, Above, Sit, Inner
  <2> DEFINE u == Above(r, <<k>>, n)
  <2>2. u.stage = "body" /\ u.kinds = r \o <<k>> /\ u.open = n
    BY DEF Above, Sit
  <2> HIDE DEF u
  <2>3. Elements(declarators)' = Elements(declarators)
    BY <1>3 DEF Elements
  <2>4. Matches(u)'
    BY <1>1, <1>3, <1>6, <1>7, <2>1, <2>2, <2>3 DEF Matches
  <2> QED
    BY <2>4 DEF u
<1>9. IsSentence(<<>>) /\ Balance(<<>>) = 0 /\ Ends(<<>>) = 0
  BY Sentences, ExpansionsBalanced DEF Balanced
<1>10. Data'
  <2>1. IsSentence(expected')
    BY <1>9, NextSentence DEF PInv
  <2> QED
    BY <1>3, <1>6, <2>1, DataKept DEF PInv, Data, TypeOK
<1>11. Situated'
  <2>1. Leads(expected', Above(r, <<k>>, n), Start)
    BY <1>1, <1>7, LeadsNone, ShortTuples
  <2> QED
    BY <1>7, <1>8, <2>1 DEF Situated
<1>12. BalanceOf(Top) = 0 /\ EndsOf(Top) = 0
  <2> DEFINE it == Top
  <2>1. it.k \in PlainKinds /\ it.k # "block_end"
    OBVIOUS
  <2> HIDE DEF it
  <2>2. BalanceOf(it) = 0 /\ EndsOf(it) = 0
    BY <2>1 DEF BalanceOf, EndsOf, PlainKinds, Claimers
  <2> QED
    BY <2>2 DEF it
<1>13. Len(unclaimed_types_) \in Int /\ Len(symbol_table) - Flag \in Int
  <2>1. unclaimed_types_ \in Seq(Type) /\ IsTuple(symbol_table)
    BY DEF PInv, Data, TypeOK, Shaped
  <2>2. Len(unclaimed_types_) \in Int /\ Len(symbol_table) \in Int
    BY <2>1, LenProperties DEF IsTuple
  <2> QED
    BY <2>2 DEF Flag
<1>14. /\ Len(unclaimed_types_') = Len(unclaimed_types_) + Balance(<<>>) - BalanceOf(Top)
       /\ Len(symbol_table') - Flag' = Len(symbol_table) - Flag + Ends(<<>>) - EndsOf(Top)
  <2>1. Flag' = Flag
    BY <1>3 DEF Flag
  <2> QED
    BY <1>3, <1>9, <1>12, <1>13, <2>1
<1> QED
  BY <1>3, <1>9, <1>10, <1>11, <1>14, Settled

-----------------------------------------------------------------------------
(* The expansions of the grammar keep the invariant.                         *)

LEMMA TupleAssociative ==
  ASSUME NEW s, NEW t, NEW u, IsTuple(s), IsTuple(t), IsTuple(u)
  PROVE  (s \o t) \o u = s \o (t \o u)
<1> DEFINE S == {s[i] : i \in DOMAIN s} \union {t[i] : i \in DOMAIN t}
                  \union {u[i] : i \in DOMAIN u}
<1>1. s \in Seq(S) /\ t \in Seq(S) /\ u \in Seq(S)
  <2>1. /\ {s[i] : i \in DOMAIN s} \subseteq S /\ {t[i] : i \in DOMAIN t} \subseteq S
        /\ {u[i] : i \in DOMAIN u} \subseteq S
    OBVIOUS
  <2> HIDE DEF S
  <2>2. s \in Seq(S)
    BY <2>1, SeqMonotonic DEF IsTuple
  <2>3. t \in Seq(S)
    BY <2>1, SeqMonotonic DEF IsTuple
  <2>4. u \in Seq(S)
    BY <2>1, SeqMonotonic DEF IsTuple
  <2> QED
    BY <2>2, <2>3, <2>4
<1> HIDE DEF S
<1> QED
  BY <1>1, ConcatAssociative

LEMMA HeadAndRest ==
  ASSUME NEW s, IsTuple(s), s # <<>>
  PROVE  s = <<Head(s)>> \o Tail(s) /\ IsTuple(Tail(s))
<1> DEFINE S == {s[i] : i \in DOMAIN s}
           h == <<Head(s)>>
           t == Tail(s)
<1>1. s \in Seq(S)
  BY DEF IsTuple
<1> HIDE DEF S
<1>2. /\ Head(s) \in S /\ t \in Seq(S) /\ Len(t) = Len(s) - 1
      /\ \A i \in 1..Len(t) : t[i] = s[i + 1]
  BY <1>1, HeadTailProperties
<1>3. Len(s) \in Nat /\ Len(s) >= 1 /\ Len(t) \in Nat
  BY <1>1, <1>2, EmptySeq, LenProperties
<1>4. Head(s) = s[1]
  BY <1>1, <1>3, EmptySeq
<1>5. h \in Seq(S) /\ Len(h) = 1 /\ h[1] = s[1]
  BY <1>2, <1>4
<1> HIDE DEF h, t
<1>6. /\ Len(s) = Len(h) + Len(t) /\ \A i \in 1..Len(h) : h[i] = s[i]
      /\ \A i \in 1..Len(t) : t[i] = s[Len(h) + i]
  <2>1. \A i \in 1..Len(t) : t[i] = s[1 + i]
    BY <1>2, <1>3
  <2> QED
    BY <1>2, <1>3, <1>5, <2>1
<1>7. h \o t = s
  BY <1>1, <1>2, <1>5, <1>6, Spelled
<1>8. IsTuple(t)
  BY <1>2, Tuples
<1> QED
  BY <1>7, <1>8 DEF h, t

(* What does not consume the first symbol replaces it by itself, last.        *)
LEMMA Prefixed ==
  ASSUME IsSentence(expected), expected # <<>>, NEW items, IsTuple(items),
         expected' = items \o expected
  PROVE  Become(items \o <<Top>>)
<1>1. expected = <<Top>> \o Tail(expected) /\ IsTuple(Tail(expected))
  BY HeadAndRest DEF IsSentence, Top
<1> DEFINE a == <<Top>>
           t == Tail(expected)
<1>2. IsTuple(a) /\ IsTuple(t) /\ expected = a \o t
  BY <1>1, ShortTuples
<1> HIDE DEF a, t
<1>3. (items \o a) \o t = items \o (a \o t)
  BY <1>2, TupleAssociative
<1>4. expected' = (items \o a) \o t
  BY <1>2, <1>3
<1> QED
  BY <1>4 DEF Become, a, t

LEMMA SizeGrows ==
  ASSUME size \in 0..MaxSize
  PROVE  /\ size' = size => size' \in 0..MaxSize
         /\ \A rule : Grow(rule) => size' \in 0..MaxSize
BY BoundsAssumption DEF Grow

LEMMA TopIsSymbol ==
  ASSUME IsSentence(expected), expected # <<>>
  PROVE  IsSymbol(Top)
<1>1. IsReplaced(expected, <<>>, <<>> \o Tail(expected))
  BY Replaced, ShortTuples DEF IsSentence
<1>2. 1 \in DOMAIN expected /\ Top = expected[1]
  BY <1>1 DEF IsReplaced, Top
<1> QED
  BY <1>2 DEF IsSentence

Derived ==
  {"program", "declarator", "declarator_list", "parameter_list", "declaration_list",
   "instruction_list", "instruction", "condition", "expression", "assignment"}

LEMMA Derives ==
  ASSUME PInv, NEW k \in Derived, At(k), NEW items, Balanced(items), Become(items),
         \A it : (IsSymbol(it) /\ it.k = k) => Replaces(it, items),
         size' = size \/ (\E rule : Grow(rule)),
         UNCHANGED <<values, lists, globals, scopes, outcome>>
  PROVE  Quiet
<1>1. Running /\ expected # <<>> /\ Top.k = k
  BY DEF At, Top
<1>2. IsSymbol(Top)
  BY <1>1, TopIsSymbol DEF PInv
<1>3. Replaces(Top, items)
  BY <1>1, <1>2
<1>4. /\ BalanceOf(Top) = 0 /\ EndsOf(Top) = 0
      /\ Top.k \notin {"decl_glb_fct", "external_declaration"}
  <2> DEFINE it == Top
  <2>1. it.k \in Derived
    BY <1>1
  <2> HIDE DEF it
  <2>2. /\ BalanceOf(it) = 0 /\ EndsOf(it) = 0
        /\ it.k \notin {"decl_glb_fct", "external_declaration"}
    BY <2>1 DEF BalanceOf, EndsOf, Derived, Claimers
  <2> QED
    BY <2>2 DEF it
<1>5. size' \in 0..MaxSize
  BY SizeGrows DEF PInv, Data, TypeOK
<1> QED
  BY <1>1, <1>3, <1>4, <1>5, Expands DEF Balanced

LEMMA MoreBalanced ==
  /\ Balanced(Append(Declaration("local"), Item("declaration_list")))
  /\ \A x, it : \A n \in Nat : it.k = "program" =>
       Balanced(Declaration("global") \o <<Named("external_declaration", x, n)>> \o <<it>>)
  /\ \A x, it : it.k = "program" =>
       Balanced(<<Item("type"), Item("parameter_list"),
                  Named("function_declarator", x, 0), Item("decl_glb_fct"),
                  Item("compound"), Item("function_definition")>> \o <<it>>)
  /\ /\ Balance(<<Item("declaration_list"), Item("instruction_list"), Item("block_end")>>) = 0
     /\ Ends(<<Item("declaration_list"), Item("instruction_list"), Item("block_end")>>) = 1
<1>1. ASSUME NEW k \in {"declaration_list", "instruction_list", "parameter_list",
                        "decl_glb_fct", "compound"}
      PROVE  BalanceOf(Item(k)) = 0 /\ EndsOf(Item(k)) = 0
  BY BalanceOfItems DEF Claimers
<1>2. ASSUME NEW it, it.k = "program"
      PROVE  IsTuple(<<it>>) /\ Balanced(<<it>>)
  <2>1. BalanceOf(it) = 0 /\ EndsOf(it) = 0
    BY <1>2 DEF BalanceOf, EndsOf, Claimers
  <2> QED
    BY <2>1, BalanceShort, ShortTuples DEF Balanced
<1>3. Balanced(Append(Declaration("local"), Item("declaration_list")))
  <2> DEFINE d == Declaration("local")
             a == Item("declaration_list")
  <2>1. IsTuple(d) /\ Balanced(d)
    BY DeclarationBalanced
  <2>2. BalanceOf(a) = 0 /\ EndsOf(a) = 0
    BY <1>1
  <2> HIDE DEF d, a
  <2>3. Balanced(<<a>>)
    BY <2>2, BalanceShort DEF Balanced
  <2>4. Balanced(d \o <<a>>)
    BY <2>1, <2>3, BalancedJoined, ShortTuples
  <2>5. Append(d, a) = d \o <<a>>
    <3> DEFINE S == {d[i] : i \in DOMAIN d} \union {a}
    <3>1. d \in Seq({d[i] : i \in DOMAIN d}) /\ {d[i] : i \in DOMAIN d} \subseteq S /\ a \in S
      BY <2>1 DEF IsTuple
    <3> HIDE DEF S
    <3>2. d \in Seq(S)
      BY <3>1, SeqMonotonic
    <3> QED
      BY <3>1, <3>2, AppendIsConcat
  <2> QED
    BY <2>4, <2>5 DEF d, a
<1>4. ASSUME NEW x, NEW it, NEW n \in Nat, it.k = "program"
      PROVE  Balanced(Declaration("global")
                        \o <<Named("external_declaration", x, n)>> \o <<it>>)
  <2> DEFINE d == Declaration("global")
             a == Named("external_declaration", x, n)
  <2>1. IsTuple(d) /\ Balanced(d)
    BY DeclarationBalanced
  <2>2. BalanceOf(a) = 0 /\ EndsOf(a) = 0
    BY BalanceOfItems DEF Claimers
  <2> HIDE DEF d, a
  <2>3. Balanced(<<a>>)
    BY <2>2, BalanceShort DEF Balanced
  <2>4. IsTuple(d \o <<a>>) /\ Balanced(d \o <<a>>)
    BY <2>1, <2>3, BalancedJoined, ShortTuples
  <2>5. Balanced((d \o <<a>>) \o <<it>>)
    BY <1>2, <1>4, <2>4, BalancedJoined
  <2> QED
    BY <2>5 DEF d, a
<1>5. ASSUME NEW x, NEW it, it.k = "program"
      PROVE  Balanced(<<Item("type"), Item("parameter_list"),
                        Named("function_declarator", x, 0), Item("decl_glb_fct"),
                        Item("compound"), Item("function_definition")>> \o <<it>>)
  <2> DEFINE a == Item("type")
             b == Item("parameter_list")
             c == Named("function_declarator", x, 0)
             d == Item("decl_glb_fct")
             e == Item("compound")
             f == Item("function_definition")
  <2>1. BalanceOf(a) = -1 /\ EndsOf(a) = 0 /\ BalanceOf(f) = 1 /\ EndsOf(f) = 0
    BY BalanceOfItems DEF Claimers
  <2>2. /\ BalanceOf(b) = 0 /\ EndsOf(b) = 0 /\ BalanceOf(d) = 0 /\ EndsOf(d) = 0
        /\ BalanceOf(e) = 0 /\ EndsOf(e) = 0
    BY <1>1
  <2>3. BalanceOf(c) = 0 /\ EndsOf(c) = 0
    BY BalanceOfItems DEF Claimers
  <2> HIDE DEF a, b, c, d, e, f
  <2>4. /\ Balance(<<a, b, c>>) = BalanceOf(a) + BalanceOf(b) + BalanceOf(c)
        /\ Ends(<<a, b, c>>) = EndsOf(a) + EndsOf(b) + EndsOf(c)
    BY BalanceShort
  <2>5. /\ Balance(<<d, e, f>>) = BalanceOf(d) + BalanceOf(e) + BalanceOf(f)
        /\ Ends(<<d, e, f>>) = EndsOf(d) + EndsOf(e) + EndsOf(f)
    BY BalanceShort
  <2>6. /\ Balance(<<a, b, c>> \o <<d, e, f>>)
             = Balance(<<a, b, c>>) + Balance(<<d, e, f>>)
        /\ Ends(<<a, b, c>> \o <<d, e, f>>) = Ends(<<a, b, c>>) + Ends(<<d, e, f>>)
    <3>1. IsTuple(<<a, b, c>>) /\ IsTuple(<<d, e, f>>)
      BY ShortTuples
    <3> QED
      BY <3>1, BalanceJoined
  <2>7. IsTuple(<<a, b, c>> \o <<d, e, f>>)
    <3>1. IsTuple(<<a, b, c>>) /\ IsTuple(<<d, e, f>>)
      BY ShortTuples
    <3> QED
      BY <3>1, Joined DEF IsJoined
  <2>8. Balanced(<<a, b, c>> \o <<d, e, f>>)
    BY <2>1, <2>2, <2>3, <2>4, <2>5, <2>6 DEF Balanced
  <2>9. Balanced((<<a, b, c>> \o <<d, e, f>>) \o <<it>>)
    BY <1>2, <1>5, <2>7, <2>8, BalancedJoined
  <2>10. <<a, b, c>> \o <<d, e, f>> = <<a, b, c, d, e, f>>
    BY SixSymbols
  <2> QED
    BY <2>9, <2>10 DEF a, b, c, d, e, f
<1>6. /\ Balance(<<Item("declaration_list"), Item("instruction_list"), Item("block_end")>>) = 0
      /\ Ends(<<Item("declaration_list"), Item("instruction_list"), Item("block_end")>>) = 1
  <2>1. BalanceOf(Item("block_end")) = 0 /\ EndsOf(Item("block_end")) = 1
    BY BalanceOfItems
  <2> QED
    BY <1>1, <2>1, BalanceShort
<1> QED
  BY <1>3, <1>4, <1>5, <1>6

LEMMA DeclarationExpansions ==
  ASSUME PInv
  PROVE  /\ \A extern \in 0..1 : ExpandDeclaration(extern) => Quiet
         /\ \A x \in Names : ExpandFunctionDefinition(x) => Quiet
         /\ \A x \in Names : ExpandFunctionDeclarator(x) => Quiet
         /\ \A more \in BOOLEAN : DeclaratorList(more) => Quiet
         /\ \A more \in BOOLEAN : ParameterList(more) => Quiet
<1>1. ASSUME NEW extern \in 0..1, ExpandDeclaration(extern)
      PROVE  Quiet
  <2> DEFINE e == Named("external_declaration", "", extern)
             d == Declaration("global") \o <<e>>
             items == d \o <<Top>>
  <2>1. Top.k = "program" /\ IsSymbol(Top) /\ extern \in Nat
    <3>1. At("program")
      BY <1>1, Zenon DEF ExpandDeclaration
    <3> QED
      BY <3>1, TopIsSymbol DEF At, Top, PInv
  <2>2. Balanced(items)
    BY <2>1, MoreBalanced, Zenon
  <2>3. Replaces(Top, items)
    BY <2>1, ExternalReplaces, Zenon
  <2>4. Become(items)
    <3>1. IsTuple(d)
      BY DeclarationBalanced, ShortTuples, Joined DEF IsJoined
    <3>2. expected' = d \o expected /\ expected # <<>> /\ IsSentence(expected)
      BY <1>1 DEF ExpandDeclaration, At, PInv
    <3> HIDE DEF d
    <3> QED
      BY <3>1, <3>2, Prefixed
  <2>5. /\ Running /\ expected # <<>> /\ size' \in 0..MaxSize
        /\ UNCHANGED <<values, lists, globals, scopes, outcome>>
    BY <1>1, SizeGrows DEF ExpandDeclaration, At, PInv, Data, TypeOK
  <2>6. /\ BalanceOf(Top) = 0 /\ EndsOf(Top) = 0
        /\ Top.k \notin {"decl_glb_fct", "external_declaration"}
    BY <2>1 DEF BalanceOf, EndsOf, Claimers
  <2> HIDE DEF items
  <2> QED
    BY <2>2, <2>3, <2>4, <2>5, <2>6, Expands DEF Balanced
<1>2. ASSUME NEW x \in Names, ExpandFunctionDefinition(x)
      PROVE  Quiet
  <2> DEFINE d == <<Item("type"), Item("parameter_list"),
                    Named("function_declarator", x, 0), Item("decl_glb_fct"),
                    Item("compound"), Item("function_definition")>>
             items == d \o <<Top>>
  <2>1. Top.k = "program" /\ IsSymbol(Top)
    BY <1>2, TopIsSymbol DEF ExpandFunctionDefinition, At, Top, PInv
  <2>2. Balanced(items)
    BY <2>1, MoreBalanced
  <2>3. Replaces(Top, items)
    BY <2>1, FunctionDefinitionReplaces
  <2>4. Become(items)
    <3>1. IsTuple(d)
      <4> DEFINE a == Item("type")
                 b == Item("parameter_list")
                 c == Named("function_declarator", x, 0)
                 g == Item("decl_glb_fct")
                 h == Item("compound")
                 i == Item("function_definition")
      <4> HIDE DEF a, b, c, g, h, i
      <4>1. IsTuple(<<a, b, c>> \o <<g, h, i>>)
        <5> DEFINE y == <<a, b, c>>
                   z == <<g, h, i>>
        <5>1. IsTuple(y) /\ IsTuple(z)
          BY ShortTuples
        <5> HIDE DEF y, z
        <5>2. IsTuple(y \o z)
          BY <5>1, Joined DEF IsJoined
        <5> QED
          BY <5>2 DEF y, z
      <4>2. <<a, b, c>> \o <<g, h, i>> = <<a, b, c, g, h, i>>
        BY SixSymbols
      <4>3. IsTuple(<<a, b, c, g, h, i>>)
        BY <4>1, <4>2, Zenon
      <4> QED
        BY <4>3 DEF a, b, c, g, h, i
    <3>2. expected' = d \o expected /\ expected # <<>> /\ IsSentence(expected)
      BY <1>2 DEF ExpandFunctionDefinition, At, PInv
    <3> HIDE DEF d
    <3> QED
      BY <3>1, <3>2, Prefixed
  <2>5. /\ Running /\ expected # <<>> /\ size' \in 0..MaxSize
        /\ UNCHANGED <<values, lists, globals, scopes, outcome>>
    BY <1>2, SizeGrows DEF ExpandFunctionDefinition, At, PInv, Data, TypeOK
  <2>6. /\ BalanceOf(Top) = 0 /\ EndsOf(Top) = 0
        /\ Top.k \notin {"decl_glb_fct", "external_declaration"}
    BY <2>1 DEF BalanceOf, EndsOf, Claimers
  <2> HIDE DEF items
  <2> QED
    BY <2>2, <2>3, <2>4, <2>5, <2>6, Expands DEF Balanced
<1>3. ASSUME NEW x \in Names, ExpandFunctionDeclarator(x)
      PROVE  Quiet
  <2> DEFINE items == <<Item("parameter_list"), Named("function_declarator", x, 1)>>
  <2>1. Balanced(items) /\ \A it : it.k = "declarator" => Replaces(it, items)
    BY ExpansionsBalanced, FunctionDeclaratorReplaces
  <2>2. /\ At("declarator") /\ Become(items) /\ size' = size
        /\ UNCHANGED <<values, lists, globals, scopes, outcome>>
    BY <1>3 DEF ExpandFunctionDeclarator
  <2>3. "declarator" \in Derived
    BY DEF Derived
  <2> HIDE DEF items
  <2> QED
    BY <2>1, <2>2, <2>3, Derives
<1>4. ASSUME NEW more \in BOOLEAN, DeclaratorList(more)
      PROVE  Quiet
  <2> DEFINE items == IF more THEN <<Item("declarator"), Item("declarator_list")>> ELSE <<>>
  <2>1. Balanced(items)
    BY ExpansionsBalanced
  <2>2. ASSUME NEW it, it.k = "declarator_list"
        PROVE  Replaces(it, items)
    BY <2>2, DeclaratorListReplaces, NothingReplaces DEF IsNeutral
  <2>3. /\ At("declarator_list") /\ Become(items) /\ (size' = size \/ \E rule : Grow(rule))
        /\ UNCHANGED <<values, lists, globals, scopes, outcome>>
    BY <1>4 DEF DeclaratorList
  <2>4. "declarator_list" \in Derived
    BY DEF Derived
  <2> HIDE DEF items
  <2> QED
    BY <2>1, <2>2, <2>3, <2>4, Derives
<1>5. ASSUME NEW more \in BOOLEAN, ParameterList(more)
      PROVE  Quiet
  <2> DEFINE items == IF more THEN <<Item("type"), Item("parameter_declaration"),
                                     Item("parameter_list")>> ELSE <<>>
  <2>1. Balanced(items)
    BY ExpansionsBalanced
  <2>2. ASSUME NEW it, it.k = "parameter_list"
        PROVE  Replaces(it, items)
    BY <2>2, ParameterListReplaces, NothingReplaces DEF IsNeutral
  <2>3. /\ At("parameter_list") /\ Become(items) /\ (size' = size \/ \E rule : Grow(rule))
        /\ UNCHANGED <<values, lists, globals, scopes, outcome>>
    BY <1>5 DEF ParameterList
  <2>4. "parameter_list" \in Derived
    BY DEF Derived
  <2> HIDE DEF items
  <2> QED
    BY <2>1, <2>2, <2>3, <2>4, Derives
<1> QED
  BY <1>1, <1>2, <1>3, <1>4, <1>5

LEMMA AssignmentReplaces ==
  ASSUME NEW it, it.k = "assignment"
  PROVE  Replaces(it, <<>>)
<1>1. Needs(it) = <<T>> /\ Gives(it) = <<T>> /\ it.k \in PlainKinds /\ IsSentence(<<>>)
  BY Sentences DEF Needs, Gives, T, PlainKinds
<1>2. ASSUME NEW r \in Stack, NEW n \in Nat
      PROVE  Leads(<<>>, Above(r, Needs(it), n), Above(r, Gives(it), n))
  <2>1. <<T>> \in Seq(Kinds)
    BY ShortStacks
  <2>2. Above(r, <<T>>, n) \in Situation
    BY <2>1, AboveTyped
  <2> QED
    BY <1>1, <2>2, LeadsNone
<1> QED
  BY <1>1, <1>2, ReplacesInBody

LEMMA BodyExpansions ==
  ASSUME PInv
  PROVE  /\ \A more \in BOOLEAN : DeclarationList(more) => Quiet
         /\ \A more \in BOOLEAN : InstructionList(more) => Quiet
         /\ \A ordering \in 0..1 : ExpandCondition(ordering) => Quiet
         /\ ReduceAssignment => Quiet
<1>1. ASSUME NEW more \in BOOLEAN, DeclarationList(more)
      PROVE  Quiet
  <2> DEFINE items == IF more THEN Append(Declaration("local"), Item("declaration_list"))
                              ELSE <<>>
  <2>1. Balanced(items)
    BY ExpansionsBalanced, MoreBalanced
  <2>2. ASSUME NEW it, it.k = "declaration_list"
        PROVE  Replaces(it, items)
    BY <2>2, LocalDeclarationReplaces, NothingReplaces DEF IsNeutral
  <2>3. /\ At("declaration_list") /\ Become(items) /\ (size' = size \/ \E rule : Grow(rule))
        /\ UNCHANGED <<values, lists, globals, scopes, outcome>>
    BY <1>1 DEF DeclarationList
  <2>4. "declaration_list" \in Derived
    BY DEF Derived
  <2> HIDE DEF items
  <2> QED
    BY <2>1, <2>2, <2>3, <2>4, Derives
<1>2. ASSUME NEW more \in BOOLEAN, InstructionList(more)
      PROVE  Quiet
  <2> DEFINE items == IF more THEN <<Item("instruction"), Item("append"),
                                     Item("instruction_list")>> ELSE <<>>
  <2>1. Balanced(items)
    BY ExpansionsBalanced
  <2>2. ASSUME NEW it, it.k = "instruction_list"
        PROVE  Replaces(it, items)
    BY <2>2, InstructionListReplaces
  <2>3. /\ At("instruction_list") /\ Become(items) /\ (size' = size \/ \E rule : Grow(rule))
        /\ UNCHANGED <<values, lists, globals, scopes, outcome>>
    BY <1>2 DEF InstructionList
  <2>4. "instruction_list" \in Derived
    BY DEF Derived
  <2> HIDE DEF items
  <2> QED
    BY <2>1, <2>2, <2>3, <2>4, Derives
<1>3. ASSUME NEW ordering \in 0..1, ExpandCondition(ordering)
      PROVE  Quiet
  <2> DEFINE c == Named("comparison", "", ordering)
             items == <<Item("expression"), Item("expression"), c>>
  <2>1. IsSymbol(c) /\ c.k = "comparison"
    <3>1. ordering \in Nat
      OBVIOUS
    <3> QED
      BY <3>1, Symbols, Zenon
  <2>2. /\ At("condition") /\ Become(items) /\ size' = size
        /\ UNCHANGED <<values, lists, globals, scopes, outcome>>
    BY <1>3, Zenon DEF ExpandCondition, Expand
  <2> HIDE DEF c
  <2>3. Balanced(items)
    BY <2>1, ExpansionsBalanced
  <2>4. ASSUME NEW it, it.k = "condition"
        PROVE  Replaces(it, items)
    BY <2>1, <2>4, OperandsReplace
  <2>5. "condition" \in Derived
    BY DEF Derived
  <2> HIDE DEF items
  <2> QED
    BY <2>2, <2>3, <2>4, <2>5, Derives
<1>4. ASSUME ReduceAssignment
      PROVE  Quiet
  <2>1. Balanced(<<>>)
    BY ExpansionsBalanced
  <2>2. /\ At("assignment") /\ Become(<<>>) /\ size' = size
        /\ UNCHANGED <<values, lists, globals, scopes, outcome>>
    BY <1>4 DEF ReduceAssignment
  <2>3. "assignment" \in Derived
    BY DEF Derived
  <2> QED
    BY <2>1, <2>2, <2>3, AssignmentReplaces, Derives
<1> QED
  BY <1>1, <1>2, <1>3, <1>4

(* One of the alternatives of a symbol.                                      *)
LEMMA ExpandKeeps ==
  ASSUME PInv, NEW k \in Derived, NEW items, Expand(k, items), Balanced(items),
         \A it : it.k = k => Replaces(it, items),
         size' = size \/ (\E rule : Grow(rule))
  PROVE  Quiet
BY Derives DEF Expand

LEMMA InstructionExpansions ==
  ASSUME PInv, ExpandInstruction
  PROVE  Quiet
<1> DEFINE Keeps(items) ==
      Expand("instruction", items) /\ (size' = size \/ \E rule : Grow(rule)) => Quiet
<1>1. ASSUME NEW items, Balanced(items),
             \A it : it.k = "instruction" => Replaces(it, items)
      PROVE  Keeps(items)
  <2>1. "instruction" \in Derived
    BY DEF Derived
  <2> QED
    BY <1>1, <2>1, ExpandKeeps
<1>2. /\ Keeps(<<Item("compound")>>)
      /\ Keeps(<<Item("expression"), Item("expression_instruction")>>)
  BY <1>1, ExpansionsBalanced, SimpleInstructionReplaces
<1>3. \A x : Keeps(Assignment(x) \o <<Item("expression_instruction")>>)
  BY <1>1, LongExpansionsBalanced, SimpleInstructionReplaces
<1>4. /\ \A k \in {"if", "while"} :
           Keeps(<<Item("condition"), Item("instruction"), Item(k)>>)
      /\ Keeps(<<Item("instruction"), Item("condition"), Item("do")>>)
      /\ Keeps(<<Item("condition"), Item("instruction"), Item("instruction"),
                 Item("if_else")>>)
  BY <1>1, ExpansionsBalanced, ControlReplaces
<1>5. \A x, y : Keeps(Assignment(x) \o <<Item("condition")>> \o Assignment(y)
                        \o <<Item("instruction"), Item("for")>>)
  BY <1>1, LongExpansionsBalanced, ForReplaces
<1> HIDE DEF Keeps
<1>6. ASSUME NEW items, Keeps(items), Expand("instruction", items),
             size' = size \/ \E rule : Grow(rule)
      PROVE  Quiet
  BY <1>6 DEF Keeps
<1> QED
  BY <1>2, <1>3, <1>4, <1>5, <1>6 DEF ExpandInstruction

LEMMA ExpressionExpansions ==
  ASSUME PInv, ExpandExpression
  PROVE  Quiet
<1>1. "expression" \in Derived
  BY DEF Derived
<1>2. CASE Grow("unary") /\ Expand("expression", <<Item("expression"), Item("unary")>>)
  BY <1>1, <1>2, ExpansionsBalanced, UnaryReplaces, ExpandKeeps
<1>3. ASSUME NEW op \in {"plus", "other"}, Grow("binary"),
             Expand("expression", <<Item("expression"), Item("expression"), Item(op)>>)
      PROVE  Quiet
  <2> DEFINE c == Item(op)
             items == <<Item("expression"), Item("expression"), c>>
  <2>1. IsSymbol(c) /\ c.k = op
    BY Symbols
  <2>2. Expand("expression", items)
    BY <1>3
  <2> HIDE DEF c
  <2>3. Balanced(items)
    BY <2>1, ExpansionsBalanced
  <2>4. ASSUME NEW it, it.k = "expression"
        PROVE  Replaces(it, items)
    BY <2>1, <2>4, OperandsReplace
  <2> HIDE DEF items
  <2> QED
    BY <1>1, <1>3, <2>2, <2>3, <2>4, ExpandKeeps
<1>4. ASSUME NEW x \in Names, NEW n \in 0..MaxArgs, Grow("call"),
             Expand("expression", [i \in 1..n |-> Item("expression")]
                                    \o <<Named("call", x, n)>>)
      PROVE  Quiet
  <2> DEFINE items == [i \in 1..n |-> Item("expression")] \o <<Named("call", x, n)>>
  <2>1. n \in Nat
    BY BoundsAssumption
  <2>2. Balanced(items)
    BY <2>1, LongExpansionsBalanced
  <2>3. ASSUME NEW it, it.k = "expression"
        PROVE  Replaces(it, items)
    BY <2>1, <2>3, CallReplaces
  <2>4. Expand("expression", items)
    BY <1>4
  <2> HIDE DEF items
  <2> QED
    BY <1>1, <1>4, <2>2, <2>3, <2>4, ExpandKeeps
<1> QED
  BY <1>2, <1>3, <1>4 DEF ExpandExpression

-----------------------------------------------------------------------------
(* The rules that reduce in a function's body keep it.                        *)

LEMMA KindsOf ==
  /\ KindOf(T) = Type /\ KindOf(O) = Outcome
  /\ "ok" \in Outcome /\ "null" \in Outcome /\ "throw" \in Outcome
  /\ \A a \in Outcome : Emitting(a) \in Outcome
  /\ \A a, b \in Outcome : Then(a, b) \in Outcome
BY DEF KindOf, T, O, Outcome, Emitting, Then

LEMMA FewOperands ==
  ASSUME PInv, Running, expected # <<>>, Top.k \in PlainKinds,
         NEW a \in Kinds, NEW b \in Kinds, NEW c \in Kinds, NEW d \in Kinds
  PROVE  /\ Needs(Top) = <<a>> => FromTop(0) \in KindOf(a)
         /\ Needs(Top) = <<a, b>> => FromTop(1) \in KindOf(a) /\ FromTop(0) \in KindOf(b)
         /\ Needs(Top) = <<a, b, c>> =>
              /\ FromTop(2) \in KindOf(a) /\ FromTop(1) \in KindOf(b)
              /\ FromTop(0) \in KindOf(c)
         /\ Needs(Top) = <<a, b, c, d>> =>
              /\ FromTop(3) \in KindOf(a) /\ FromTop(2) \in KindOf(b)
              /\ FromTop(1) \in KindOf(c) /\ FromTop(0) \in KindOf(d)
<1> DEFINE t == Needs(Top)
<1>1. ASSUME t \in Seq(Kinds)
      PROVE  /\ Len(values) \in Nat
             /\ \A i \in 1..Len(t) : FromTop(Len(t) - i) \in KindOf(t[i])
  BY <1>1, Operands
<1> HIDE DEF t
<1>2. ASSUME t = <<a>>
      PROVE  FromTop(0) \in KindOf(a)
  <2>1. t \in Seq(Kinds) /\ Len(t) = 1 /\ t[1] = a /\ 1 \in 1..Len(t)
    BY <1>2
  <2>2. FromTop(1 - 1) \in KindOf(a)
    BY <1>1, <2>1
  <2> QED
    BY <2>2
<1>3. ASSUME t = <<a, b>>
      PROVE  FromTop(1) \in KindOf(a) /\ FromTop(0) \in KindOf(b)
  <2>1. t \in Seq(Kinds) /\ Len(t) = 2 /\ t[1] = a /\ t[2] = b
    BY <1>3
  <2>2. FromTop(2 - 1) \in KindOf(a) /\ FromTop(2 - 2) \in KindOf(b)
    BY <1>1, <2>1
  <2> QED
    BY <2>2
<1>4. ASSUME t = <<a, b, c>>
      PROVE  /\ FromTop(2) \in KindOf(a) /\ FromTop(1) \in KindOf(b)
             /\ FromTop(0) \in KindOf(c)
  <2>1. t \in Seq(Kinds) /\ Len(t) = 3 /\ t[1] = a /\ t[2] = b /\ t[3] = c
    BY <1>4
  <2>2. /\ FromTop(3 - 1) \in KindOf(a) /\ FromTop(3 - 2) \in KindOf(b)
        /\ FromTop(3 - 3) \in KindOf(c)
    BY <1>1, <2>1
  <2> QED
    BY <2>2
<1>5. ASSUME t = <<a, b, c, d>>
      PROVE  /\ FromTop(3) \in KindOf(a) /\ FromTop(2) \in KindOf(b)
             /\ FromTop(1) \in KindOf(c) /\ FromTop(0) \in KindOf(d)
  <2>1. t \in Seq(Kinds) /\ Len(t) = 4 /\ t[1] = a /\ t[2] = b /\ t[3] = c /\ t[4] = d
    BY <1>5
  <2>2. /\ FromTop(4 - 1) \in KindOf(a) /\ FromTop(4 - 2) \in KindOf(b)
        /\ FromTop(4 - 3) \in KindOf(c) /\ FromTop(4 - 4) \in KindOf(d)
    BY <1>1, <2>1
  <2> QED
    BY <2>2
<1> QED
  BY <1>2, <1>3, <1>4, <1>5 DEF t

LEMMA Made ==
  ASSUME PInv, NEW c \in PlainKinds, c # "block_end", NEW n, NEW value,
         Make(c, n, value), Needs(Top) \in Seq(Kinds), Len(Needs(Top)) = n,
         NEW k \in Kinds, Gives(Top) = <<k>>, value \in KindOf(k)
  PROVE  PInv'
BY Computes DEF Make, At, Top

LEMMA AppendKeeps ==
  ASSUME PInv, AppendInstruction
  PROVE  PInv'
<1>1. /\ Running /\ expected # <<>> /\ Top.k = "append" /\ Become(<<>>)
      /\ UNCHANGED <<size, lists, globals, scopes, outcome>>
  BY DEF AppendInstruction, At, Top
<1>2. Needs(Top) = <<O, O>> /\ Gives(Top) = <<O>> /\ Top.k \in PlainKinds
  BY <1>1 DEF Needs, Gives, O, PlainKinds
<1>3. FromTop(1) \in Outcome /\ FromTop(0) \in Outcome /\ O \in Kinds
  BY <1>1, <1>2, FewOperands, KindsOf, ShortStacks
<1> DEFINE v == IF FromTop(1) = "null" THEN Emitting(FromTop(0))
                                       ELSE Then(FromTop(1), FromTop(0))
<1>4. v \in KindOf(O)
  BY <1>3, KindsOf
<1>5. values' = Append(Pop(values, 2), v)
  BY DEF AppendInstruction
<1> HIDE DEF v
<1>6. Needs(Top) \in Seq(Kinds) /\ Len(Needs(Top)) = 2
  BY <1>2, <1>3
<1> QED
  BY <1>1, <1>2, <1>3, <1>4, <1>5, <1>6, Computes

LEMMA InstructionsKeep ==
  ASSUME PInv, ReduceInstruction
  PROVE  PInv'
<1>1. ASSUME NEW c \in PlainKinds, NEW n, NEW v, Make(c, n, v)
      PROVE  Running /\ expected # <<>> /\ Top.k = c /\ Top.k \in PlainKinds
  BY <1>1 DEF Make, At, Top
<1>2. O \in Kinds /\ T \in Kinds
  BY ShortStacks
<1>3. /\ "expression_instruction" \in PlainKinds /\ "if" \in PlainKinds
      /\ "if_else" \in PlainKinds /\ "while" \in PlainKinds /\ "do" \in PlainKinds
      /\ "for" \in PlainKinds
  BY DEF PlainKinds
<1>4. ASSUME NEW c \in {"expression_instruction", "if", "if_else", "while", "do", "for"},
             Top.k = c
      PROVE  Gives(Top) = <<O>>
  BY <1>4 DEF Gives, O
<1>5. ASSUME Make("expression_instruction", 1, "ok")
      PROVE  PInv'
  <2>1. Needs(Top) = <<T>> /\ Gives(Top) = <<O>>
    BY <1>1, <1>3, <1>4, <1>5 DEF Needs, T
  <2>2. Needs(Top) \in Seq(Kinds) /\ Len(Needs(Top)) = 1
    BY <1>2, <2>1
  <2> QED
    BY <1>2, <1>3, <1>5, <2>1, <2>2, KindsOf, Made
<1>6. ASSUME NEW c \in {"if", "while"},
             Make(c, 2, Then(FromTop(1), FromTop(0)))
      PROVE  PInv'
  <2>1. Running /\ expected # <<>> /\ Top.k = c /\ Top.k \in PlainKinds
    BY <1>1, <1>3, <1>6
  <2>2. Needs(Top) = <<O, O>> /\ Gives(Top) = <<O>>
    BY <1>4, <2>1 DEF Needs, O
  <2>3. Needs(Top) \in Seq(Kinds) /\ Len(Needs(Top)) = 2
    BY <1>2, <2>2
  <2>4. Then(FromTop(1), FromTop(0)) \in KindOf(O)
    BY <1>2, <2>1, <2>2, FewOperands, KindsOf
  <2> QED
    BY <1>2, <1>3, <1>6, <2>2, <2>3, <2>4, Made
<1>7. ASSUME Make("do", 2, Then(Emitting(FromTop(1)), FromTop(0)))
      PROVE  PInv'
  <2>1. Running /\ expected # <<>> /\ Top.k = "do" /\ Top.k \in PlainKinds
    BY <1>1, <1>3, <1>7
  <2>2. Needs(Top) = <<O, O>> /\ Gives(Top) = <<O>>
    BY <1>4, <2>1 DEF Needs, O
  <2>3. Needs(Top) \in Seq(Kinds) /\ Len(Needs(Top)) = 2
    BY <1>2, <2>2
  <2>4. Then(Emitting(FromTop(1)), FromTop(0)) \in KindOf(O)
    BY <1>2, <2>1, <2>2, FewOperands, KindsOf
  <2> QED
    BY <1>2, <1>3, <1>7, <2>2, <2>3, <2>4, Made
<1>8. ASSUME Make("for", 4, Then(FromTop(2), FromTop(0)))
      PROVE  PInv'
  <2>1. Running /\ expected # <<>> /\ Top.k = "for" /\ Top.k \in PlainKinds
    BY <1>1, <1>3, <1>8
  <2>2. Needs(Top) = <<T, O, T, O>> /\ Gives(Top) = <<O>>
    BY <1>4, <2>1 DEF Needs, O, T
  <2>3. Needs(Top) \in Seq(Kinds) /\ Len(Needs(Top)) = 4
    BY <1>2, <2>2
  <2>4. Then(FromTop(2), FromTop(0)) \in KindOf(O)
    BY <1>2, <2>1, <2>2, FewOperands, KindsOf
  <2> QED
    BY <1>2, <1>3, <1>8, <2>2, <2>3, <2>4, Made
<1>9. ASSUME NEW v, v = (LET yes == Then(FromTop(2), FromTop(1))
                         IN  IF FromTop(0) = "null" THEN yes ELSE Then(yes, FromTop(0))),
             Make("if_else", 3, v)
      PROVE  PInv'
  <2>1. Running /\ expected # <<>> /\ Top.k = "if_else" /\ Top.k \in PlainKinds
    BY <1>1, <1>3, <1>9
  <2>2. Needs(Top) = <<O, O, O>> /\ Gives(Top) = <<O>>
    BY <1>4, <2>1 DEF Needs, O
  <2>3. Needs(Top) \in Seq(Kinds) /\ Len(Needs(Top)) = 3
    BY <1>2, <2>2
  <2>4. FromTop(2) \in Outcome /\ FromTop(1) \in Outcome /\ FromTop(0) \in Outcome
    BY <1>2, <2>1, <2>2, FewOperands, KindsOf
  <2>5. v \in KindOf(O)
    BY <1>9, <2>4, KindsOf
  <2> QED
    BY <1>2, <1>3, <1>9, <2>2, <2>3, <2>5, Made
<1> QED
  BY <1>5, <1>6, <1>7, <1>8, <1>9 DEF ReduceInstruction

LEMMA OperatorsKeep ==
  ASSUME PInv, ReduceCondition \/ ReduceOperator
  PROVE  PInv'
<1>1. O \in Kinds /\ T \in Kinds /\ Len(values) \in Nat
  <2>1. values \in Seq(Value)
    BY DEF PInv, Data, TypeOK, Value
  <2> QED
    BY <2>1, LenProperties, ShortStacks
<1>2. CASE ReduceCondition
  <2> DEFINE v == IF Top.n = 1 /\ FromTop(1) = "string" THEN "throw" ELSE "ok"
  <2>1. Make("comparison", 2, v)
    BY <1>2 DEF ReduceCondition
  <2>2. v \in KindOf(O)
    BY KindsOf
  <2> HIDE DEF v
  <2>3. Top.k = "comparison"
    BY <2>1 DEF Make, At, Top
  <2>4. Needs(Top) = <<T, T>> /\ Gives(Top) = <<O>> /\ "comparison" \in PlainKinds
    BY <2>3 DEF Needs, Gives, O, T, PlainKinds
  <2>5. Needs(Top) \in Seq(Kinds) /\ Len(Needs(Top)) = 2
    BY <1>1, <2>4
  <2> QED
    BY <1>1, <2>1, <2>2, <2>4, <2>5, Made
<1>3. CASE ReduceOperator
  <2> DEFINE c == Top.k
             n == IF c = "unary" THEN 1 ELSE 2
             v == Last(values)
  <2>1. /\ c \in {"unary", "plus", "other"} /\ Make(c, n, v)
        /\ Running /\ expected # <<>>
    <3>1. Make(c, n, v) /\ (At("unary") \/ At("plus") \/ At("other"))
      BY <1>3 DEF ReduceOperator, WellTyped
    <3> HIDE DEF n, v
    <3> QED
      BY <3>1 DEF At, Top
  <2>2. /\ Gives(Top) = <<T>> /\ c \in PlainKinds
        /\ c = "unary" => Needs(Top) = <<T>>
        /\ c # "unary" => Needs(Top) = <<T, T>>
    BY <2>1 DEF Needs, Gives, T, PlainKinds
  <2>3. Needs(Top) \in Seq(Kinds) /\ Len(Needs(Top)) = n
    <3>1. /\ <<T>> \in Seq(Kinds) /\ Len(<<T>>) = 1
          /\ <<T, T>> \in Seq(Kinds) /\ Len(<<T, T>>) = 2
      BY <1>1
    <3>2. CASE c = "unary"
      BY <2>2, <3>1, <3>2
    <3>3. CASE c # "unary"
      BY <2>2, <3>1, <3>3
    <3> QED
      BY <3>2, <3>3
  <2>4. FromTop(0) \in KindOf(T)
    BY <1>1, <2>1, <2>2, FewOperands
  <2>5. v = FromTop(0)
    BY <1>1 DEF Last, FromTop
  <2>6. v \in KindOf(T) /\ c # "block_end"
    BY <2>1, <2>4, <2>5
  <2> HIDE DEF c, n, v
  <2> QED
    BY <1>1, <2>1, <2>2, <2>3, <2>6, Made
<1> QED
  BY <1>2, <1>3

LEMMA PopNothing ==
  ASSUME NEW S, NEW s \in Seq(S)
  PROVE  Pop(s, 0) = s
<1>1. Len(s) - 0 = Len(s)
  BY LenProperties
<1> QED
  BY <1>1, SubSeqFull DEF Pop

(* A value is pushed.                                                        *)
LEMMA Pushes ==
  ASSUME PInv, NEW c \in {"instruction", "expression"}, At(c), Become(<<>>),
         NEW v \in KindOf(IF c = "instruction" THEN O ELSE T),
         values' = Append(values, v), UNCHANGED <<size, lists, globals, scopes, outcome>>
  PROVE  PInv'
<1> DEFINE k == IF c = "instruction" THEN O ELSE T
<1>1. Running /\ expected # <<>> /\ Top.k = c /\ values \in Seq(Value)
  BY DEF At, Top, PInv, Data, TypeOK, Value
<1>2. /\ Needs(Top) = <<>> /\ Gives(Top) = <<k>> /\ Top.k \in PlainKinds
      /\ Top.k # "block_end"
  BY <1>1 DEF Needs, Gives, O, T, PlainKinds
<1>3. Needs(Top) \in Seq(Kinds) /\ Len(Needs(Top)) = 0 /\ k \in Kinds
  BY <1>2, ShortStacks
<1>4. values' = Append(Pop(values, Len(Needs(Top))), v)
  BY <1>1, <1>3, PopNothing
<1>5. v \in KindOf(k)
  OBVIOUS
<1> HIDE DEF k
<1> QED
  BY <1>1, <1>2, <1>3, <1>4, <1>5, Computes

(* What a name means has a type.                                             *)
LEMMA VisibleTyped ==
  ASSUME Data, NEW x, is_visible(x)
  PROVE  lookup(x) \in InTables /\ lookup(x) \in DOMAIN heap /\ heap[lookup(x)].type \in Type
<1> DEFINE n == Len(symbol_table)
           k == InnermostWith(x, n)
<1>1. n \in Nat /\ DOMAIN symbol_table = 1..n
  BY LenProperties DEF Data, Shaped, IsTuple
<1>2. \E i \in 1..n : x \in DOMAIN symbol_table[i]
  BY <1>1 DEF is_visible
<1>3. k \in 1..n /\ x \in DOMAIN symbol_table[k]
  BY <1>1, <1>2, InnermostFound
<1>4. lookup(x) = symbol_table[k][x]
  BY DEF lookup, lookup_from
<1> HIDE DEF k, n
<1>5. lookup(x) \in Elements(symbol_table[k])
  BY <1>3, <1>4 DEF Elements
<1>6. lookup(x) \in InTables
  BY <1>1, <1>3, <1>5 DEF InTables
<1>7. Elements(symbol_table[k]) \subseteq DOMAIN heap
  BY <1>1, <1>3 DEF Data, TypeOK
<1> QED
  BY <1>5, <1>6, <1>7 DEF Data, HeapTyped

LEMMA ValuesPushed ==
  ASSUME PInv
  PROVE  /\ EmptyInstruction => PInv'
         /\ \A t \in Type : Constant(t) => PInv'
         /\ \A x \in Names : Identifier(x) => PInv'
<1>1. ASSUME EmptyInstruction
      PROVE  PInv'
  BY <1>1, KindsOf, Pushes DEF EmptyInstruction
<1>2. ASSUME NEW t \in Type, Constant(t)
      PROVE  PInv'
  BY <1>2, KindsOf, Pushes DEF Constant, Push
<1>3. ASSUME NEW x \in Names, Identifier(x)
      PROVE  PInv'
  <2>1. heap[lookup(x)].type \in Type
    BY <1>3, VisibleTyped DEF Identifier, PInv
  <2> QED
    BY <1>3, <2>1, KindsOf, Pushes DEF Identifier, Push
<1> QED
  BY <1>1, <1>2, <1>3

LEMMA CallKeeps ==
  ASSUME PInv, ReduceCall
  PROVE  PInv'
<1> DEFINE n == Top.n
           v == heap[lookup(Top.name)].type
<1>1. /\ Running /\ expected # <<>> /\ Top.k = "call" /\ Become(<<>>)
      /\ is_visible(Top.name)
  BY DEF ReduceCall, At, Top, Callable
<1>2. v \in Type
  BY <1>1, VisibleTyped DEF PInv
<1>3. n \in Nat
  <2> DEFINE it == Top
  <2>1. IsSymbol(it)
    BY <1>1, TopIsSymbol DEF PInv
  <2> HIDE DEF it
  <2>2. it.n \in Nat
    BY <2>1 DEF IsSymbol, Named
  <2> QED
    BY <2>2 DEF it
<1>4. values' = Append(Pop(values, n), v) /\ UNCHANGED <<size, lists, globals, scopes, outcome>>
  BY DEF ReduceCall
<1>5. Needs(Top) = [i \in 1..n |-> T] /\ Gives(Top) = <<T>>
  BY <1>1 DEF Needs, Gives, T
<1>6. Top.k \in PlainKinds /\ Top.k # "block_end" /\ T \in Kinds /\ KindOf(T) = Type
  BY <1>1, ShortStacks, KindsOf DEF PlainKinds
<1> HIDE DEF n, v
<1>7. Needs(Top) \in Seq(Kinds) /\ Len(Needs(Top)) = n
  <2> DEFINE s == [i \in 1..n |-> T]
  <2>1. s \in [1..n -> Kinds]
    BY <1>6
  <2> HIDE DEF s
  <2>2. s \in Seq(Kinds) /\ Len(s) = n
    BY <1>3, <2>1, SeqFromFunction
  <2> QED
    BY <1>5, <2>2 DEF s
<1>8. values' = Append(Pop(values, Len(Needs(Top))), v)
  BY <1>4, <1>7
<1> QED
  BY <1>1, <1>2, <1>4, <1>5, <1>6, <1>7, <1>8, Computes

-----------------------------------------------------------------------------
(* The objects and tables that a step changes.                               *)

Object(n) ==
  [name : Names, type : Type \union {"none"}, function : BOOLEAN, args : Seq(1..n),
   attributes : SUBSET {"GLOBAL", "EXTERN", "FUNCTION_PARAM"}]

Typed(h, s) == s \in DOMAIN h /\ h[s].type \in Type

GoodHeap(h) ==
  /\ h \in Seq(Object(Len(h)))
  /\ \A s \in DOMAIN h : \A i \in DOMAIN h[s].args : h[h[s].args[i]].type \in Type

GoodTable(t, h) == DOMAIN t \subseteq Names /\ \A x \in DOMAIN t : Typed(h, t[x])
GoodTables(s, h) == IsTuple(s) /\ s # <<>> /\ \A i \in DOMAIN s : GoodTable(s[i], h)

Parts ==
  /\ size \in 0..MaxSize /\ values \in Seq(Value) /\ unclaimed_types_ \in Seq(Type)
  /\ new_function_definition_ \in BOOLEAN
  /\ result \in {"pending", "accepted", "rejected"}
  /\ exit \in {"running", "zero", "crashed", "terminated", "internal_error"}
  /\ GoodHeap(heap) /\ GoodTables(symbol_table, heap)
  /\ last_function_ \in 0..Len(heap) /\ definition \in 0..Len(heap)
  /\ declarators \in Seq(1..Len(heap)) /\ parameters \in Seq(1..Len(heap))
  /\ \A s \in Elements(parameters) : heap[s].type \in Type

LEMMA DataParts ==
  ASSUME Data
  PROVE  /\ Parts /\ Len(heap) \in Nat /\ DOMAIN heap = 1..Len(heap)
         /\ Len(symbol_table) \in Nat /\ DOMAIN symbol_table = 1..Len(symbol_table)
         /\ Len(unclaimed_types_) \in Nat
<1>1. /\ TypeOK /\ Shaped /\ HeapTyped
  BY DEF Data
<1>2. heap \in Seq(Object(Len(heap)))
  BY <1>1 DEF TypeOK, Object
<1>3. Len(heap) \in Nat /\ DOMAIN heap = 1..Len(heap)
  BY <1>2, LenProperties
<1>4. Len(symbol_table) \in Nat /\ DOMAIN symbol_table = 1..Len(symbol_table)
  BY <1>1, LenProperties DEF Shaped, IsTuple
<1>5. Len(unclaimed_types_) \in Nat
  BY <1>1, LenProperties DEF TypeOK
<1>6. GoodHeap(heap)
  BY <1>1, <1>2 DEF GoodHeap, HeapTyped
<1>7. GoodTables(symbol_table, heap)
  <2>1. ASSUME NEW i \in DOMAIN symbol_table, NEW x \in DOMAIN symbol_table[i]
        PROVE  Typed(heap, symbol_table[i][x])
    <3>1. symbol_table[i][x] \in Elements(symbol_table[i])
      BY DEF Elements
    <3>2. symbol_table[i][x] \in InTables
      BY <3>1 DEF InTables
    <3>3. symbol_table[i][x] \in DOMAIN heap
      BY <1>1, <3>1 DEF TypeOK
    <3> QED
      BY <1>1, <3>2, <3>3 DEF HeapTyped, Typed
  <2> QED
    BY <1>1, <2>1 DEF GoodTables, GoodTable, TypeOK, Shaped
<1>8. \A s \in Elements(parameters) : heap[s].type \in Type
  BY <1>1 DEF HeapTyped
<1>9. last_function_ \in 0..Len(heap) /\ definition \in 0..Len(heap)
  BY <1>1 DEF TypeOK
<1>10. /\ size \in 0..MaxSize /\ values \in Seq(Value) /\ unclaimed_types_ \in Seq(Type)
       /\ new_function_definition_ \in BOOLEAN
       /\ result \in {"pending", "accepted", "rejected"}
       /\ exit \in {"running", "zero", "crashed", "terminated", "internal_error"}
  BY <1>1 DEF TypeOK, Value
<1>11. declarators \in Seq(1..Len(heap)) /\ parameters \in Seq(1..Len(heap))
  BY <1>1 DEF Shaped
<1> QED
  BY <1>3, <1>4, <1>5, <1>6, <1>7, <1>8, <1>9, <1>10, <1>11 DEF Parts

LEMMA PartsMake ==
  ASSUME Parts', IsSentence(expected')
  PROVE  Data'
<1>1. \A i \in DOMAIN expected' : DOMAIN expected'[i] = {"k", "name", "n"}
  <2>1. ASSUME NEW it, IsSymbol(it)
        PROVE  DOMAIN it = {"k", "name", "n"}
    BY <2>1 DEF IsSymbol, Named
  <2> QED
    BY <2>1 DEF IsSentence
<1>2. DOMAIN heap' = 1..Len(heap')
  BY LenProperties DEF Parts, GoodHeap
<1>3. /\ Elements(declarators') \subseteq DOMAIN heap'
      /\ Elements(parameters') \subseteq DOMAIN heap'
  <2>1. ASSUME NEW n, NEW s \in Seq(1..n)
        PROVE  Elements(s) \subseteq 1..n
    <3> DEFINE S == 1..n
    <3>1. s \in Seq(S)
      OBVIOUS
    <3> HIDE DEF S
    <3>2. DOMAIN s = 1..Len(s) /\ \A i \in 1..Len(s) : s[i] \in S
      BY <3>1, LenProperties, ElementOfSeq
    <3>3. Elements(s) \subseteq S
      BY <3>2 DEF Elements
    <3> QED
      BY <3>3 DEF S
  <2>2. Elements(declarators') \subseteq 1..Len(heap')
    BY <2>1 DEF Parts
  <2>3. Elements(parameters') \subseteq 1..Len(heap')
    BY <2>1 DEF Parts
  <2> QED
    BY <1>2, <2>2, <2>3
<1>4. \A i \in DOMAIN symbol_table' :
        /\ DOMAIN symbol_table'[i] \subseteq Names
        /\ Elements(symbol_table'[i]) \subseteq DOMAIN heap'
  BY DEF Parts, GoodTables, GoodTable, Typed, Elements
<1>5. TypeOK'
  <2>1. heap' \in Seq(Object(Len(heap')))
    BY DEF Parts, GoodHeap
  <2>2. {last_function_', definition'} \subseteq 0..Len(heap')
    BY DEF Parts
  <2>3. Elements(declarators') \union Elements(parameters') \subseteq DOMAIN heap'
    BY <1>3
  <2>4. symbol_table' # <<>>
    BY DEF Parts, GoodTables
  <2>5. /\ size' \in 0..MaxSize /\ values' \in Seq(Type \union Outcome)
        /\ unclaimed_types_' \in Seq(Type) /\ new_function_definition_' \in BOOLEAN
        /\ result' \in {"pending", "accepted", "rejected"}
        /\ exit' \in {"running", "zero", "crashed", "terminated", "internal_error"}
    BY DEF Parts, Value
  <2> QED
    BY <1>1, <1>4, <2>1, <2>2, <2>3, <2>4, <2>5 DEF TypeOK, Object
<1>6. Shaped'
  BY DEF Shaped, Parts, GoodTables
<1>7. HeapTyped'
  <2>1. ASSUME NEW s \in InTables'
        PROVE  heap'[s].type \in Type
    <3>1. PICK i \in DOMAIN symbol_table' : s \in Elements(symbol_table'[i])
      BY DEF InTables
    <3> QED
      BY <3>1 DEF Elements, Parts, GoodTables, GoodTable, Typed
  <2> QED
    BY <2>1 DEF HeapTyped, Parts, GoodHeap
<1> QED
  BY <1>5, <1>6, <1>7 DEF Data

LEMMA NewObjects ==
  ASSUME NEW n \in Nat, NEW x \in Names, NEW t \in Type \union {"none"}
  PROVE  /\ NewSymbol(x, t) \in Object(n) /\ NewSymbol(x, t).args = <<>>
         /\ NewSymbol(x, t).type = t
         /\ \A ps \in Seq(1..n) :
              /\ NewFunction(x, t, ps) \in Object(n) /\ NewFunction(x, t, ps).args = ps
              /\ NewFunction(x, t, ps).type = t
<1>1. <<>> \in Seq(1..n)
  BY EmptySeq
<1>2. /\ NewSymbol(x, t) \in Object(n) /\ NewSymbol(x, t).args = <<>>
      /\ NewSymbol(x, t).type = t
  BY <1>1 DEF NewSymbol, Object
<1>3. ASSUME NEW ps \in Seq(1..n)
      PROVE  /\ NewFunction(x, t, ps) \in Object(n) /\ NewFunction(x, t, ps).args = ps
             /\ NewFunction(x, t, ps).type = t
  BY DEF NewFunction, NewSymbol, Object
<1> QED
  BY <1>2, <1>3

LEMMA HeapChanged ==
  ASSUME NEW h, GoodHeap(h), NEW g, g \in [1..Len(h) -> Object(Len(h))],
         \A i \in 1..Len(h) : /\ g[i].args = h[i].args
                              /\ h[i].type \in Type => g[i].type \in Type
  PROVE  /\ GoodHeap(g) /\ Len(g) = Len(h) /\ Len(h) \in Nat
         /\ DOMAIN h = 1..Len(h) /\ DOMAIN g = 1..Len(h)
         /\ \A s : Typed(h, s) => Typed(g, s)
<1>1. /\ h \in Seq(Object(Len(h))) /\ Len(h) \in Nat /\ DOMAIN h = 1..Len(h)
      /\ \A s \in DOMAIN h : h[s] \in Object(Len(h))
  BY LenProperties, ElementOfSeq DEF GoodHeap
<1> DEFINE n == Len(h)
<1> HIDE DEF n
<1>2. g \in Seq(Object(n)) /\ Len(g) = n /\ DOMAIN g = 1..n
  BY <1>1, SeqFromFunction DEF n
<1>3. \A s : Typed(h, s) => Typed(g, s)
  BY <1>1, <1>2 DEF Typed, n
<1>4. ASSUME NEW s \in DOMAIN g, NEW i \in DOMAIN g[s].args
      PROVE  g[g[s].args[i]].type \in Type
  <2>1. s \in DOMAIN h /\ g[s].args = h[s].args /\ h[s].args \in Seq(1..n)
    BY <1>1, <1>2 DEF n, Object
  <2>2. h[s].args[i] \in 1..n
    BY <2>1, LenProperties, ElementOfSeq
  <2>3. h[h[s].args[i]].type \in Type
    BY <2>1 DEF GoodHeap
  <2> QED
    BY <2>1, <2>2, <2>3 DEF n
<1>5. GoodHeap(g)
  BY <1>2, <1>4 DEF GoodHeap
<1> QED
  BY <1>1, <1>2, <1>3, <1>5 DEF n

LEMMA HeapAppended ==
  ASSUME NEW h, GoodHeap(h), NEW s \in Object(Len(h)),
         \A i \in DOMAIN s.args : h[s.args[i]].type \in Type
  PROVE  /\ GoodHeap(Append(h, s)) /\ Len(Append(h, s)) = Len(h) + 1 /\ Len(h) \in Nat
         /\ Append(h, s)[Len(h) + 1] = s /\ DOMAIN h = 1..Len(h)
         /\ DOMAIN Append(h, s) = 1..Len(h) + 1
         /\ \A i \in 1..Len(h) : Append(h, s)[i] = h[i]
         /\ \A x : Typed(h, x) => Typed(Append(h, s), x)
<1> DEFINE n == Len(h)
           g == Append(h, s)
<1>1. h \in Seq(Object(n)) /\ n \in Nat /\ DOMAIN h = 1..n
  BY LenProperties DEF GoodHeap
<1>2. /\ g \in Seq(Object(n)) /\ Len(g) = n + 1 /\ g[n + 1] = s
      /\ \A i \in 1..n : g[i] = h[i]
  BY <1>1, AppendProperties
<1> HIDE DEF n, g
<1>3. Object(n) \subseteq Object(n + 1)
  <2>1. 1..n \subseteq 1..n + 1
    BY <1>1
  <2> DEFINE A == 1..n
             B == 1..n + 1
  <2> HIDE DEF A, B
  <2>2. \A q \in Seq(A) : q \in Seq(B)
    BY <2>1, SeqMonotonic DEF A, B
  <2> QED
    BY <2>2 DEF Object, A, B
<1>4. g \in Seq(Object(n + 1)) /\ DOMAIN g = 1..n + 1
  BY <1>2, <1>3, SeqMonotonic, LenProperties
<1>5. \A x : Typed(h, x) => Typed(g, x)
  BY <1>1, <1>2, <1>4 DEF Typed
<1>6. ASSUME NEW x \in DOMAIN g, NEW i \in DOMAIN g[x].args
      PROVE  g[g[x].args[i]].type \in Type
  <2>1. g[x].args \in Seq(1..n)
    <3>1. g[x] \in Object(n)
      BY <1>1, <1>2, <1>4, ElementOfSeq
    <3> QED
      BY <3>1 DEF Object
  <2>2. g[x].args[i] \in 1..n
    BY <2>1, LenProperties, ElementOfSeq
  <2>3. h[g[x].args[i]].type \in Type
    <3>1. CASE x = n + 1
      BY <1>2, <3>1
    <3>2. CASE x \in 1..n
      BY <1>1, <1>2, <3>2 DEF GoodHeap
    <3> QED
      BY <1>1, <1>4, <3>1, <3>2
  <2> QED
    BY <1>2, <2>2, <2>3
<1>7. GoodHeap(g)
  BY <1>2, <1>4, <1>6 DEF GoodHeap
<1> QED
  BY <1>1, <1>2, <1>4, <1>5, <1>7 DEF n, g

LEMMA TablesKept ==
  ASSUME NEW s, NEW h, NEW g, GoodTables(s, h), \A x : Typed(h, x) => Typed(g, x)
  PROVE  GoodTables(s, g)
BY DEF GoodTables, GoodTable

(* The first symbol is taken away.                                           *)
LEMMA Consumed ==
  ASSUME PInv, Running, expected # <<>>, exit' = exit, Become(<<>>), Parts',
         NEW m \in Situation, Matches(m)',
         \A items, x : (IsTuple(items) /\ Become(items) /\ Leads(items, x, m))
                         => Leads(expected', x, Start),
         Len(unclaimed_types_') = Len(unclaimed_types_) - BalanceOf(Top),
         Len(symbol_table') - Flag' = Len(symbol_table) - Flag - EndsOf(Top)
  PROVE  PInv'
<1>1. IsSentence(<<>>) /\ Balance(<<>>) = 0 /\ Ends(<<>>) = 0
  BY Sentences, ExpansionsBalanced DEF Balanced
<1>2. Data'
  <2>1. IsSentence(expected')
    BY <1>1, NextSentence DEF PInv
  <2> QED
    BY <2>1, PartsMake
<1>3. Situated'
  <2>1. Leads(expected', m, Start)
    BY LeadsNone, ShortTuples
  <2> QED
    BY <2>1 DEF Situated
<1>4. /\ Len(unclaimed_types_) \in Int /\ Len(symbol_table) \in Int /\ Flag \in Int
      /\ BalanceOf(Top) \in Int /\ EndsOf(Top) \in Int
  BY DataParts DEF PInv, Flag, BalanceOf, EndsOf
<1>5. /\ Len(unclaimed_types_') = Len(unclaimed_types_) + Balance(<<>>) - BalanceOf(Top)
      /\ Len(symbol_table') - Flag' = Len(symbol_table) - Flag + Ends(<<>>) - EndsOf(Top)
  BY <1>1, <1>4
<1> QED
  BY <1>1, <1>2, <1>3, <1>5, Settled

-----------------------------------------------------------------------------
(* The rules of declarations keep it.                                        *)

LEMMA TypeKeeps ==
  ASSUME PInv, NEW t \in Type, TypeSpecifier(t)
  PROVE  PInv'
<1>1. /\ Running /\ expected # <<>> /\ Top.k = "type" /\ Become(<<>>)
      /\ unclaimed_types_' = Append(unclaimed_types_, t) /\ values' = Append(values, t)
      /\ UNCHANGED <<size, lists, last_function_, new_function_definition_, scopes, outcome>>
  BY DEF TypeSpecifier, At, Top
<1>2. /\ declarators' = declarators /\ parameters' = parameters
      /\ definition' = definition /\ heap' = heap /\ symbol_table' = symbol_table
      /\ result' = result /\ exit' = exit /\ size' = size
      /\ last_function_' = last_function_
      /\ new_function_definition_' = new_function_definition_
  BY <1>1 DEF lists, scopes, outcome
<1>3. PICK u, m \in Situation :
        /\ Matches(u) /\ Effect(Top, u, m)
        /\ \A items, x : (IsTuple(items) /\ Become(items) /\ Leads(items, x, m))
                           => Leads(expected', x, Start)
  BY <1>1, Facing
<1>4. /\ Parts /\ values \in Seq(Value) /\ unclaimed_types_ \in Seq(Type)
      /\ u.kinds \in Seq(Kinds) /\ u.open \in Nat /\ Fits(values, u.kinds)
      /\ Len(unclaimed_types_) = u.open
  BY <1>3, DataParts DEF PInv, Parts, Matches, Situation
<1>5. T \in Kinds /\ t \in KindOf(T)
  BY ShortStacks, KindsOf
<1>6. /\ values' \in Seq(Value) /\ Fits(values', u.kinds \o <<T>>)
      /\ u.kinds # <<>> => values'[1] = values[1]
  BY <1>1, <1>4, <1>5, FitsPushed
<1>7. /\ unclaimed_types_' \in Seq(Type) /\ Len(unclaimed_types_') = u.open + 1
      /\ u.open >= 1 => unclaimed_types_'[1] = unclaimed_types_[1]
  BY <1>1, <1>4, FitsFirst
<1>8. m.kinds = u.kinds \o <<T>> /\ m.open = u.open + 1
      /\ \/ u = Start /\ m.stage = "typed"
         \/ u.stage \in {"typed", "body"} /\ u.kinds # <<>> /\ u.open >= 1 /\ m.stage = u.stage
  <2> DEFINE it == Top
  <2>1. Needs(it) = <<>> /\ Gives(it) = <<T>> /\ Opens(it) = 1 /\ ~InBody(it)
    BY <1>1 DEF Needs, Gives, Opens, T, InBody
  <2>2. Effect(it, u, m) /\ it.k = "type"
    BY <1>1, <1>3
  <2> HIDE DEF it
  <2>3. CASE Passes(it, u, m)
    <3>1. u = Start /\ m = Claimed("typed")
      BY <2>2, <2>3 DEF Passes
    <3>2. <<>> \o <<T>> = <<T>>
      <4>1. <<T>> \in Seq(Kinds)
        BY ShortStacks
      <4> QED
        BY <4>1, ConcatEmptySeq
    <3> QED
      BY <3>1, <3>2 DEF Start, Claimed, Sit, T
  <2>4. CASE Works(it, u, m)
    <3>1. PICK r \in Seq(Kinds) : r # <<>> /\ u.kinds = r \o <<>>
                                  /\ m = Sit(u.stage, r \o <<T>>, u.open + 1)
      BY <2>1, <2>4 DEF Works
    <3>2. u.stage \in {"typed", "body"} /\ u.open >= 1
      BY <2>1, <2>4 DEF Works
    <3>3. r \o <<>> = r
      BY ConcatEmptySeq
    <3> QED
      BY <3>1, <3>2, <3>3 DEF Sit
  <2> QED
    BY <2>2, <2>3, <2>4 DEF Effect
<1>9. m.kinds # <<>>
  <2> DEFINE p == <<T>>
  <2>1. p \in Seq(Kinds) /\ p # <<>>
    BY ShortStacks
  <2> HIDE DEF p
  <2>2. u.kinds \o p # <<>>
    BY <1>4, <2>1, ConcatEqualIffEmpty
  <2> QED
    BY <1>8, <2>2 DEF p
<1>10. values'[1] = unclaimed_types_'[1]
  <2>1. CASE u = Start
    <3>1. Len(values) = 0 /\ Len(unclaimed_types_) = 0
      BY <1>4, <2>1, EmptySeq DEF Fits, Start, Sit
    <3>2. Append(values, t)[0 + 1] = t /\ Append(unclaimed_types_, t)[0 + 1] = t
      <4>1. t \in Value
        BY DEF Value
      <4> QED
        BY <1>4, <3>1, <4>1, AppendProperties
    <3> QED
      BY <1>1, <3>2
  <2>2. CASE u # Start
    <3>1. values[1] = unclaimed_types_[1]
      BY <1>3, <1>8, <2>2 DEF Matches, Inner
    <3> QED
      BY <1>6, <1>7, <1>8, <2>2, <3>1
  <2> QED
    BY <2>1, <2>2
<1>11. Matches(m)'
  <2>1. /\ new_function_definition_ = FALSE
        /\ m.stage \in {"typed", "body"}
        /\ m.stage = "body" =>
             /\ definition \in DOMAIN heap /\ heap[definition].type = unclaimed_types_[1]
             /\ definition \notin Elements(declarators)
        /\ m.stage = "typed" => definition = 0
    <3>1. u.stage \in {"outside", "typed", "body"} /\ m.stage \in {"typed", "body"}
          /\ (m.stage = "body" <=> u.stage = "body")
      BY <1>8 DEF Start, Sit
    <3>2. new_function_definition_ = FALSE
      BY <1>3, <3>1 DEF Matches
    <3> QED
      BY <1>3, <3>1, <3>2 DEF Matches
  <2>2. m.stage = "body" => unclaimed_types_'[1] = unclaimed_types_[1]
    BY <1>7, <1>8 DEF Start, Sit
  <2>3. Elements(declarators)' = Elements(declarators)
    BY <1>2 DEF Elements
  <2>4. m.open >= 1
    BY <1>4, <1>8
  <2> QED
    BY <1>2, <1>6, <1>7, <1>8, <1>9, <1>10, <2>1, <2>2, <2>3, <2>4 DEF Matches
<1>12. Parts'
  BY <1>2, <1>4, <1>6, <1>7 DEF Parts, Elements
<1>13. /\ Len(unclaimed_types_') = Len(unclaimed_types_) - BalanceOf(Top)
       /\ Len(symbol_table') - Flag' = Len(symbol_table) - Flag - EndsOf(Top)
  <2>1. BalanceOf(Top) = -1 /\ EndsOf(Top) = 0
    BY <1>1 DEF BalanceOf, EndsOf, Claimers
  <2>2. Flag' = Flag /\ Len(symbol_table) \in Int /\ Flag \in Int
    BY <1>2, DataParts DEF Flag, PInv
  <2> QED
    BY <1>2, <1>4, <1>7, <2>1, <2>2
<1> QED
  BY <1>1, <1>2, <1>3, <1>11, <1>12, <1>13, Consumed

LEMMA NeutralMet ==
  ASSUME PInv, Running, expected # <<>>, NEW stages, IsNeutral(Top, stages)
  PROVE  \E u \in Situation :
           /\ Matches(u) /\ IsInner(u, stages)
           /\ \A items, x : (IsTuple(items) /\ Become(items) /\ Leads(items, x, u))
                              => Leads(expected', x, Start)
<1>1. PICK u, m \in Situation :
        /\ Matches(u) /\ Effect(Top, u, m)
        /\ \A items, x : (IsTuple(items) /\ Become(items) /\ Leads(items, x, m))
                           => Leads(expected', x, Start)
  BY Facing
<1>2. m = u /\ IsInner(u, stages)
  <2> DEFINE it == Top
  <2>1. IsNeutral(it, stages) /\ Effect(it, u, m)
    BY <1>1
  <2> HIDE DEF it
  <2> QED
    BY <2>1, NeutralEffect
<1> QED
  BY <1>1, <1>2

LEMMA ListAppended ==
  ASSUME NEW n \in Nat, NEW s \in Seq(1..n)
  PROVE  /\ Append(s, n + 1) \in Seq(1..n + 1) /\ s \in Seq(1..n + 1)
         /\ Elements(Append(s, n + 1)) = Elements(s) \union {n + 1}
         /\ Elements(s) \subseteq 1..n /\ DOMAIN s = 1..Len(s)
<1> DEFINE A == 1..n
           B == 1..n + 1
<1>1. A \subseteq B /\ n + 1 \in B
  OBVIOUS
<1>2. s \in Seq(A)
  OBVIOUS
<1> HIDE DEF A, B
<1>3. s \in Seq(B)
  BY <1>1, <1>2, SeqMonotonic
<1> DEFINE t == Append(s, n + 1)
<1>4. /\ t \in Seq(B) /\ Len(t) = Len(s) + 1 /\ t[Len(s) + 1] = n + 1
      /\ \A i \in 1..Len(s) : t[i] = s[i]
  BY <1>1, <1>3, AppendProperties
<1> HIDE DEF t
<1>5. /\ Len(s) \in Nat /\ DOMAIN s = 1..Len(s) /\ DOMAIN t = 1..Len(t)
      /\ \A i \in 1..Len(s) : s[i] \in A
  BY <1>2, <1>4, LenProperties, ElementOfSeq
<1>6. Elements(t) = Elements(s) \union {n + 1}
  <2>1. \A i \in 1..Len(s) + 1 : i \in 1..Len(s) \/ i = Len(s) + 1
    BY <1>5
  <2>2. 1..Len(s) \subseteq 1..Len(s) + 1 /\ Len(s) + 1 \in 1..Len(s) + 1
    BY <1>5
  <2>3. DOMAIN t = 1..Len(s) + 1
    BY <1>4, <1>5
  <2>4. ASSUME NEW e \in Elements(t)
        PROVE  e \in Elements(s) \union {n + 1}
    BY <1>4, <1>5, <2>1, <2>3 DEF Elements
  <2>5. ASSUME NEW e \in Elements(s)
        PROVE  e \in Elements(t)
    <3>1. PICK i \in 1..Len(s) : e = s[i]
      BY <1>5 DEF Elements
    <3>2. i \in DOMAIN t /\ e = t[i]
      BY <1>4, <2>2, <2>3, <3>1
    <3> QED
      BY <3>2 DEF Elements
  <2>6. n + 1 \in Elements(t)
    BY <1>4, <2>2, <2>3 DEF Elements
  <2> QED
    BY <2>4, <2>5, <2>6
<1>7. Elements(s) \subseteq A
  BY <1>5 DEF Elements
<1> QED
  BY <1>3, <1>4, <1>5, <1>6, <1>7 DEF A, B, t

LEMMA DeclaratorKeeps ==
  ASSUME PInv, NEW x \in Names, Declarator(x)
  PROVE  PInv'
<1> DEFINE n == Len(heap)
           s == NewSymbol(x, "none")
<1>1. /\ Running /\ expected # <<>> /\ Top.k = "declarator" /\ Become(<<>>)
      /\ heap' = Append(heap, s) /\ declarators' = Append(declarators, Len(heap'))
      /\ parameters' = parameters /\ definition' = definition /\ values' = values
      /\ size' = size /\ symbol_table' = symbol_table
      /\ UNCHANGED <<globals, outcome>>
  BY DEF Declarator, At, Top
<1>2. /\ unclaimed_types_' = unclaimed_types_ /\ last_function_' = last_function_
      /\ new_function_definition_' = new_function_definition_
      /\ result' = result /\ exit' = exit
  BY <1>1 DEF globals, outcome
<1>3. /\ Parts /\ n \in Nat /\ DOMAIN heap = 1..n /\ Len(symbol_table) \in Nat
      /\ Len(unclaimed_types_) \in Nat
  BY DataParts DEF PInv
<1>4. s \in Object(n) /\ s.args = <<>> /\ DOMAIN s.args = {}
  <2>1. s \in Object(n) /\ s.args = <<>>
    BY <1>3, NewObjects
  <2> QED
    BY <2>1, ShortItems
<1> HIDE DEF n, s
<1>5. /\ GoodHeap(heap') /\ Len(heap') = n + 1 /\ \A i \in 1..n : heap'[i] = heap[i]
      /\ DOMAIN heap' = 1..n + 1 /\ \A i : Typed(heap, i) => Typed(heap', i)
  BY <1>1, <1>3, <1>4, HeapAppended DEF Parts, n
<1>6. /\ declarators' \in Seq(1..n + 1) /\ Elements(declarators') = Elements(declarators) \union {n + 1}
      /\ parameters' \in Seq(1..n + 1) /\ Elements(parameters) \subseteq 1..n
  BY <1>1, <1>3, <1>5, ListAppended DEF Parts, n
<1>7. Parts'
  <2>1. \A i \in Elements(parameters') : heap'[i].type \in Type
    <3>1. Elements(parameters') = Elements(parameters)
      BY <1>1
    <3> QED
      BY <1>3, <1>5, <1>6, <3>1 DEF Parts
  <2>2. GoodTables(symbol_table', heap')
    BY <1>1, <1>3, <1>5, TablesKept DEF Parts
  <2>3. last_function_' \in 0..n + 1 /\ definition' \in 0..n + 1
    BY <1>1, <1>2, <1>3 DEF Parts, n
  <2> QED
    BY <1>1, <1>2, <1>3, <1>5, <1>6, <2>1, <2>2, <2>3 DEF Parts
<1>8. IsNeutral(Top, {"typed", "body"})
  BY <1>1 DEF IsNeutral
<1>9. PICK u \in Situation :
        /\ Matches(u) /\ IsInner(u, {"typed", "body"})
        /\ \A items, y : (IsTuple(items) /\ Become(items) /\ Leads(items, y, u))
                           => Leads(expected', y, Start)
  BY <1>1, <1>8, NeutralMet
<1>10. Matches(u)'
  <2>1. ASSUME definition \in DOMAIN heap, definition \notin Elements(declarators)
        PROVE  /\ definition \in DOMAIN heap' /\ heap'[definition] = heap[definition]
               /\ definition \notin Elements(declarators')
    BY <1>3, <1>5, <1>6, <2>1
  <2> QED
    BY <1>1, <1>2, <1>9, <2>1 DEF Matches
<1>11. /\ Len(unclaimed_types_') = Len(unclaimed_types_) - BalanceOf(Top)
       /\ Len(symbol_table') - Flag' = Len(symbol_table) - Flag - EndsOf(Top)
  <2>1. BalanceOf(Top) = 0 /\ EndsOf(Top) = 0
    BY <1>1 DEF BalanceOf, EndsOf, Claimers
  <2>2. Flag' = Flag /\ Flag \in Int
    BY <1>2 DEF Flag
  <2> QED
    BY <1>1, <1>2, <1>3, <2>1, <2>2
<1> QED
  BY <1>1, <1>2, <1>7, <1>9, <1>10, <1>11, Consumed

LEMMA BlockEndKeeps ==
  ASSUME PInv, BlockEnd
  PROVE  PInv'
<1> DEFINE n == Len(symbol_table)
<1>1. /\ Running /\ expected # <<>> /\ Top.k = "block_end" /\ Become(<<>>)
      /\ symbol_table' = Front(symbol_table) /\ values' = values /\ heap' = heap
      /\ size' = size /\ UNCHANGED <<lists, globals, outcome>>
  BY DEF BlockEnd, At, Top
<1>2. /\ unclaimed_types_' = unclaimed_types_ /\ last_function_' = last_function_
      /\ new_function_definition_' = new_function_definition_
      /\ declarators' = declarators /\ parameters' = parameters
      /\ definition' = definition /\ result' = result /\ exit' = exit
  BY <1>1 DEF globals, lists, outcome
<1>3. Parts /\ n \in Nat /\ Len(unclaimed_types_) \in Nat /\ IsTuple(symbol_table)
  BY DataParts DEF PInv, Parts, GoodTables
<1>4. IsNeutral(Top, {"body"})
  BY <1>1 DEF IsNeutral
<1>5. PICK u \in Situation :
        /\ Matches(u) /\ IsInner(u, {"body"})
        /\ \A items, y : (IsTuple(items) /\ Become(items) /\ Leads(items, y, u))
                           => Leads(expected', y, Start)
  BY <1>1, <1>4, NeutralMet
<1>6. BalanceOf(Top) = 0 /\ EndsOf(Top) = 1
  BY <1>1 DEF BalanceOf, EndsOf, Claimers
<1>7. n >= 2
  <2>1. IsSentence(<<>>) /\ Ends(<<>>) = 0
    BY Sentences, ExpansionsBalanced DEF Balanced
  <2>2. /\ IsSentence(expected') /\ Ends(expected) \in Nat
        /\ Ends(expected') = 0 + Ends(expected) - 1
    BY <1>1, <1>6, <2>1, NextSentence DEF PInv
  <2>3. Ends(expected') \in Nat
    BY <2>2, BalanceJoined DEF IsSentence
  <2>4. n = 1 + Ends(expected) + Flag /\ Flag \in Nat
    BY <1>1, Counted DEF PInv, Flag
  <2> QED
    BY <2>2, <2>3, <2>4
<1> HIDE DEF n
<1>8. /\ IsTuple(symbol_table') /\ Len(symbol_table') = n - 1 /\ symbol_table' # <<>>
      /\ \A i \in DOMAIN symbol_table' :
           i \in DOMAIN symbol_table /\ symbol_table'[i] = symbol_table[i]
  <2> DEFINE S == {symbol_table[i] : i \in DOMAIN symbol_table}
  <2>1. symbol_table \in Seq(S) /\ DOMAIN symbol_table = 1..n
    BY <1>3, LenProperties DEF IsTuple, n
  <2> HIDE DEF S
  <2>2. 1 \in 0..Len(symbol_table)
    BY <1>3, <1>7 DEF n
  <2>3. /\ Pop(symbol_table, 1) \in Seq(S) /\ Len(Pop(symbol_table, 1)) = n - 1
        /\ \A i \in 1..n - 1 : Pop(symbol_table, 1)[i] = symbol_table[i]
    BY <2>1, <2>2, PopProperties DEF n
  <2>4. symbol_table' = Pop(symbol_table, 1)
    BY <1>1 DEF Front, Pop
  <2>5. symbol_table' \in Seq(S) /\ Len(symbol_table') = n - 1
    BY <2>3, <2>4
  <2>6. DOMAIN symbol_table' = 1..n - 1 /\ symbol_table' # <<>> /\ IsTuple(symbol_table')
    BY <1>3, <1>7, <2>5, LenProperties, EmptySeq, Tuples
  <2> QED
    BY <1>3, <2>1, <2>3, <2>4, <2>5, <2>6
<1>9. Parts'
  <2>1. GoodTables(symbol_table', heap')
    BY <1>1, <1>3, <1>8 DEF Parts, GoodTables
  <2>2. Elements(parameters') = Elements(parameters)
    BY <1>2
  <2> QED
    BY <1>1, <1>2, <1>3, <2>1, <2>2 DEF Parts
<1>10. Matches(u)'
  <2>1. Elements(declarators)' = Elements(declarators)
    BY <1>2 DEF Elements
  <2> QED
    BY <1>1, <1>2, <1>5, <2>1 DEF Matches
<1>11. /\ Len(unclaimed_types_') = Len(unclaimed_types_) - BalanceOf(Top)
       /\ Len(symbol_table') - Flag' = Len(symbol_table) - Flag - EndsOf(Top)
  <2>1. Flag' = Flag /\ Flag \in Int
    BY <1>2 DEF Flag
  <2> QED
    BY <1>2, <1>3, <1>6, <1>8, <2>1 DEF n
<1> QED
  BY <1>1, <1>2, <1>5, <1>9, <1>10, <1>11, Consumed

(* A type pushed for a parameter or a declaration in a block is claimed: the   *)
(* types before it are as they were before it was pushed.                    *)
LEMMA ClaimMet ==
  ASSUME PInv, Running, expected # <<>>, NEW stages, IsClaim(Top, stages),
         values' = Front(values), unclaimed_types_' = Front(unclaimed_types_)
  PROVE  \E m \in Situation :
           /\ IsInner(m, stages) /\ m.stage \in {"typed", "body"}
           /\ m.stage = "typed" => definition = 0
           /\ \A items, x : (IsTuple(items) /\ Become(items) /\ Leads(items, x, m))
                              => Leads(expected', x, Start)
           /\ values' \in Seq(Value) /\ Fits(values', m.kinds) /\ Last(values) \in Type
           /\ unclaimed_types_' \in Seq(Type) /\ Len(unclaimed_types_') = m.open
           /\ Len(unclaimed_types_) = m.open + 1 /\ m.open \in Nat /\ m.open >= 1
           /\ values'[1] = unclaimed_types_'[1]
           /\ unclaimed_types_'[1] = unclaimed_types_[1]
           /\ new_function_definition_ = FALSE
           /\ m.stage = "body" =>
                /\ definition \in DOMAIN heap /\ heap[definition].type = unclaimed_types_[1]
                /\ definition \notin Elements(declarators)
<1>1. PICK u, m \in Situation :
        /\ Matches(u) /\ Effect(Top, u, m)
        /\ \A items, x : (IsTuple(items) /\ Become(items) /\ Leads(items, x, m))
                           => Leads(expected', x, Start)
  BY Facing
<1>2. IsInner(m, stages) /\ u = Pushed(m)
  <2> DEFINE it == Top
  <2>1. IsClaim(it, stages) /\ Effect(it, u, m)
    BY <1>1
  <2> HIDE DEF it
  <2> QED
    BY <2>1, ClaimEffect
<1>3. /\ m.kinds \in Seq(Kinds) /\ m.kinds # <<>> /\ m.open \in Nat /\ m.open >= 1
      /\ u.stage = m.stage /\ u.kinds = m.kinds \o <<T>> /\ u.open = m.open + 1
      /\ m.stage \in {"typed", "body"}
  BY <1>2, InnerTyped DEF IsInner, Pushed, Sit, IsClaim
<1>4. /\ values \in Seq(Value) /\ unclaimed_types_ \in Seq(Type)
      /\ Fits(values, m.kinds \o <<T>>) /\ Len(unclaimed_types_) = m.open + 1
      /\ new_function_definition_ = FALSE /\ values[1] = unclaimed_types_[1]
      /\ m.stage = "typed" => definition = 0
      /\ m.stage = "body" =>
           /\ definition \in DOMAIN heap /\ heap[definition].type = unclaimed_types_[1]
           /\ definition \notin Elements(declarators)
  BY <1>1, <1>3, DataParts DEF PInv, Parts, Matches, Inner
<1> DEFINE t == <<T>>
<1>5. t \in Seq(Kinds) /\ Len(t) = 1 /\ t[1] = T /\ KindOf(T) = Type
  BY ShortStacks, KindsOf
<1> HIDE DEF t
<1>6. /\ Len(values) \in Nat /\ Pop(values, 1) \in Seq(Value) /\ Fits(Pop(values, 1), m.kinds)
      /\ values[Len(values) - 1 + 1] \in Type /\ Pop(values, 1)[1] = values[1]
  <2>1. Fits(values, m.kinds \o t)
    BY <1>4 DEF t
  <2>2. /\ Pop(values, Len(t)) \in Seq(Value) /\ Fits(Pop(values, Len(t)), m.kinds)
        /\ \A i \in 1..Len(t) : values[Len(values) - Len(t) + i] \in KindOf(t[i])
        /\ m.kinds # <<>> => Pop(values, Len(t))[1] = values[1]
    BY <1>3, <1>4, <1>5, <2>1, FitsPopped
  <2>3. values[Len(values) - Len(t) + 1] \in KindOf(t[1])
    BY <1>5, <2>2
  <2>4. Len(values) \in Nat
    BY <1>4, LenProperties
  <2> QED
    BY <1>3, <1>5, <2>2, <2>3, <2>4
<1>7. Front(values) = Pop(values, 1) /\ Last(values) \in Type
  <2>1. Len(values) - 1 + 1 = Len(values)
    BY <1>6
  <2> QED
    BY <1>6, <2>1 DEF Front, Pop, Last
<1>8. /\ Front(unclaimed_types_) \in Seq(Type) /\ Len(Front(unclaimed_types_)) = m.open
      /\ Front(unclaimed_types_)[1] = unclaimed_types_[1]
  <2>1. "int" \in Type
    BY DEF Type
  <2>2. /\ Len(unclaimed_types_) >= 1 =>
             /\ Front(unclaimed_types_) \in Seq(Type)
             /\ Len(Front(unclaimed_types_)) = Len(unclaimed_types_) - 1
        /\ Len(unclaimed_types_) >= 2 => Front(unclaimed_types_)[1] = unclaimed_types_[1]
    BY <1>4, <2>1, FitsFirst
  <2>3. Len(unclaimed_types_) >= 2 /\ Len(unclaimed_types_) - 1 = m.open
    <3> DEFINE l == Len(unclaimed_types_)
               k == m.open
    <3>1. k \in Nat /\ k >= 1 /\ l = k + 1
      BY <1>3, <1>4
    <3> HIDE DEF l, k
    <3>2. l >= 2 /\ l - 1 = k
      BY <3>1
    <3> QED
      BY <3>2 DEF l, k
  <2> QED
    BY <2>2, <2>3
<1>9. /\ values' \in Seq(Value) /\ Fits(values', m.kinds) /\ Last(values) \in Type
      /\ unclaimed_types_' \in Seq(Type) /\ Len(unclaimed_types_') = m.open
      /\ values'[1] = unclaimed_types_'[1]
      /\ unclaimed_types_'[1] = unclaimed_types_[1]
  BY <1>4, <1>6, <1>7, <1>8
<1>10. \A items, x : (IsTuple(items) /\ Become(items) /\ Leads(items, x, m))
                        => Leads(expected', x, Start)
  BY <1>1
<1> QED
  BY <1>2, <1>3, <1>4, <1>9, <1>10, Zenon

LEMMA ParameterKeeps ==
  ASSUME PInv, NEW x \in Names, ParameterDeclaration(x)
  PROVE  PInv'
<1> DEFINE n == Len(heap)
           t == Last(values)
           s == NewSymbol(x, t)
<1>1. /\ Running /\ expected # <<>> /\ Top.k = "parameter_declaration" /\ Become(<<>>)
      /\ heap' = Append(heap, s) /\ parameters' = Append(parameters, Len(heap'))
      /\ unclaimed_types_' = Front(unclaimed_types_) /\ values' = Front(values)
      /\ declarators' = declarators /\ definition' = definition
      /\ last_function_' = last_function_
      /\ new_function_definition_' = new_function_definition_
      /\ size' = size /\ symbol_table' = symbol_table /\ UNCHANGED outcome
  BY DEF ParameterDeclaration, At, Top
<1>2. result' = result /\ exit' = exit
  BY <1>1 DEF outcome
<1>3. /\ Parts /\ n \in Nat /\ DOMAIN heap = 1..n /\ Len(symbol_table) \in Nat
      /\ Len(unclaimed_types_) \in Nat
  BY DataParts DEF PInv
<1>4. IsClaim(Top, {"typed", "body"})
  BY <1>1 DEF IsClaim
<1>5. PICK m \in Situation :
        /\ m.stage \in {"typed", "body"} /\ IsInner(m, {"typed", "body"})
        /\ m.stage = "typed" => definition = 0
        /\ \A items, y : (IsTuple(items) /\ Become(items) /\ Leads(items, y, m))
                           => Leads(expected', y, Start)
        /\ values' \in Seq(Value) /\ Fits(values', m.kinds) /\ t \in Type
        /\ unclaimed_types_' \in Seq(Type) /\ Len(unclaimed_types_') = m.open
        /\ Len(unclaimed_types_) = m.open + 1 /\ m.open \in Nat /\ m.open >= 1
        /\ values'[1] = unclaimed_types_'[1]
        /\ unclaimed_types_'[1] = unclaimed_types_[1]
        /\ new_function_definition_ = FALSE
        /\ m.stage = "body" =>
             /\ definition \in DOMAIN heap /\ heap[definition].type = unclaimed_types_[1]
             /\ definition \notin Elements(declarators)
  BY <1>1, <1>4, ClaimMet
<1> HIDE DEF t
<1>6. s \in Object(n) /\ s.args = <<>> /\ DOMAIN s.args = {} /\ s.type = t
  <2>1. s \in Object(n) /\ s.args = <<>> /\ s.type = t
    BY <1>3, <1>5, NewObjects
  <2> QED
    BY <2>1, ShortItems
<1> HIDE DEF n, s
<1>7. /\ GoodHeap(heap') /\ Len(heap') = n + 1 /\ heap'[n + 1] = s
      /\ \A i \in 1..n : heap'[i] = heap[i]
      /\ DOMAIN heap' = 1..n + 1 /\ \A i : Typed(heap, i) => Typed(heap', i)
  BY <1>1, <1>3, <1>6, HeapAppended DEF Parts, n
<1>8. /\ parameters' \in Seq(1..n + 1) /\ Elements(parameters') = Elements(parameters) \union {n + 1}
      /\ declarators' \in Seq(1..n + 1) /\ Elements(parameters) \subseteq 1..n
  BY <1>1, <1>3, <1>7, ListAppended DEF Parts, n
<1>9. Parts'
  <2>1. \A i \in Elements(parameters') : heap'[i].type \in Type
    BY <1>3, <1>5, <1>6, <1>7, <1>8 DEF Parts
  <2>2. GoodTables(symbol_table', heap')
    BY <1>1, <1>3, <1>7, TablesKept DEF Parts
  <2>3. last_function_' \in 0..n + 1 /\ definition' \in 0..n + 1
    BY <1>1, <1>2, <1>3 DEF Parts, n
  <2> QED
    BY <1>1, <1>2, <1>3, <1>5, <1>7, <1>8, <2>1, <2>2, <2>3 DEF Parts
<1>10. Matches(m)'
  <2>1. ASSUME m.stage = "body"
        PROVE  /\ definition \in DOMAIN heap' /\ heap'[definition] = heap[definition]
               /\ definition \notin Elements(declarators')
    <3>1. Elements(declarators') = Elements(declarators)
      BY <1>1
    <3>2. definition \in 1..n /\ definition \in 1..n + 1
      BY <1>3, <1>5, <2>1
    <3> QED
      BY <1>5, <1>7, <2>1, <3>1, <3>2
  <2>2. m.kinds # <<>>
    BY <1>5 DEF IsInner
  <2> QED
    BY <1>1, <1>5, <2>1, <2>2 DEF Matches
<1>11. /\ Len(unclaimed_types_') = Len(unclaimed_types_) - BalanceOf(Top)
       /\ Len(symbol_table') - Flag' = Len(symbol_table) - Flag - EndsOf(Top)
  <2>1. BalanceOf(Top) = 1 /\ EndsOf(Top) = 0
    BY <1>1 DEF BalanceOf, EndsOf, Claimers
  <2>2. Flag' = Flag /\ Flag \in Int
    BY <1>1 DEF Flag
  <2> QED
    BY <1>1, <1>3, <1>5, <2>1, <2>2
<1> QED
  BY <1>1, <1>2, <1>5, <1>9, <1>10, <1>11, Consumed

(* The objects of E get more attributes.                                     *)
Attributed(h, E, A) ==
  [i \in DOMAIN h |-> IF i \in E THEN [h[i] EXCEPT !.attributes = @ \union A] ELSE h[i]]

LEMMA AttributesAdded ==
  ASSUME NEW h, GoodHeap(h), NEW E,
         NEW A \in SUBSET {"GLOBAL", "EXTERN", "FUNCTION_PARAM"}, NEW g,
         g = Attributed(h, E, A)
  PROVE  /\ GoodHeap(g) /\ Len(g) = Len(h) /\ Len(h) \in Nat /\ DOMAIN h = 1..Len(h)
         /\ DOMAIN g = 1..Len(h) /\ \A s : Typed(h, s) => Typed(g, s)
         /\ \A i \in 1..Len(h) : /\ g[i].type = h[i].type /\ g[i].args = h[i].args
                                 /\ g[i].name = h[i].name /\ g[i].function = h[i].function
<1>1. /\ DOMAIN h = 1..Len(h) /\ \A i \in 1..Len(h) : h[i] \in Object(Len(h))
  BY LenProperties, ElementOfSeq DEF GoodHeap
<1>2. ASSUME NEW o \in Object(Len(h))
      PROVE  LET a == [o EXCEPT !.attributes = @ \union A]
             IN  /\ a \in Object(Len(h)) /\ a.type = o.type /\ a.args = o.args
                 /\ a.name = o.name /\ a.function = o.function
  BY DEF Object
<1>3. ASSUME NEW i \in 1..Len(h)
      PROVE  /\ g[i] \in Object(Len(h)) /\ g[i].type = h[i].type /\ g[i].args = h[i].args
             /\ g[i].name = h[i].name /\ g[i].function = h[i].function
  <2>1. CASE i \in E
    <3>1. g[i] = [h[i] EXCEPT !.attributes = @ \union A]
      BY <1>1, <2>1 DEF Attributed
    <3> QED
      BY <1>1, <1>2, <3>1
  <2>2. CASE i \notin E
    <3>1. g[i] = h[i]
      BY <1>1, <2>2 DEF Attributed
    <3> QED
      BY <1>1, <3>1
  <2> QED
    BY <2>1, <2>2
<1>4. g \in [1..Len(h) -> Object(Len(h))]
  <2>1. g = [i \in 1..Len(h) |-> g[i]]
    BY <1>1 DEF Attributed
  <2> QED
    BY <1>3, <2>1, Zenon
<1> QED
  BY <1>3, <1>4, HeapChanged

LEMMA FunctionDeclaratorKeeps ==
  ASSUME PInv, FunctionDeclarator
  PROVE  PInv'
<1> DEFINE n == Len(heap)
           A == {"FUNCTION_PARAM"}
           g == [i \in DOMAIN heap |->
                   IF i \in Elements(parameters)
                   THEN [heap[i] EXCEPT !.attributes = @ \union A] ELSE heap[i]]
           s == NewFunction(Top.name, ReturnType, parameters)
<1>1. /\ Running /\ expected # <<>> /\ Top.k = "function_declarator" /\ Become(<<>>)
      /\ heap' = Append(g, s) /\ parameters' = <<>> /\ last_function_' = Len(heap')
      /\ Top.n = 1 => /\ declarators' = Append(declarators, Len(heap'))
                      /\ definition' = definition
      /\ Top.n # 1 => definition' = Len(heap') /\ declarators' = declarators
      /\ unclaimed_types_' = unclaimed_types_ /\ values' = values
      /\ new_function_definition_' = new_function_definition_
      /\ size' = size /\ symbol_table' = symbol_table /\ UNCHANGED outcome
  BY DEF FunctionDeclarator, At, Top
<1>2. result' = result /\ exit' = exit
  BY <1>1 DEF outcome
<1>3. /\ Parts /\ n \in Nat /\ DOMAIN heap = 1..n /\ Len(symbol_table) \in Nat
      /\ Len(unclaimed_types_) \in Nat /\ unclaimed_types_ \in Seq(Type)
  BY DataParts DEF PInv, Parts
<1>4. PICK u, m \in Situation :
        /\ Matches(u) /\ Effect(Top, u, m)
        /\ \A items, x : (IsTuple(items) /\ Become(items) /\ Leads(items, x, m))
                           => Leads(expected', x, Start)
  BY <1>1, Facing
<1>5. /\ Top.name \in Names /\ u.open >= 1
      /\ \/ Top.n = 1 /\ m = u
         \/ Top.n # 1 /\ u = Claimed("typed") /\ m = Claimed("named")
  <2> DEFINE it == Top
  <2>1. it.k = "function_declarator" /\ Effect(it, u, m)
    BY <1>1, <1>4
  <2> HIDE DEF it
  <2>2. CASE Passes(it, u, m)
    <3>1. it.n = 0 /\ it.name \in Names /\ u = Claimed("typed") /\ m = Claimed("named")
      BY <2>1, <2>2 DEF Passes
    <3> QED
      BY <3>1 DEF it, Claimed, Sit
  <2>3. CASE Works(it, u, m)
    <3>1. it.n = 1 /\ it.name \in Names /\ u.open >= 1
      BY <2>1, <2>3 DEF Works, Anywhere, InBody
    <3>2. IsNeutral(it, {"typed", "body"})
      BY <2>1, <3>1 DEF IsNeutral
    <3>3. m = u
      BY <2>1, <3>2, NeutralEffect
    <3> QED
      BY <3>1, <3>3 DEF it
  <2> QED
    BY <2>1, <2>2, <2>3 DEF Effect
<1>6. Len(unclaimed_types_) = u.open /\ ReturnType \in Type
  <2>1. Len(unclaimed_types_) = u.open
    BY <1>4 DEF Matches
  <2>2. Len(unclaimed_types_) \in 1..Len(unclaimed_types_)
    BY <1>3, <1>5, <2>1
  <2> QED
    BY <1>3, <2>1, <2>2, ElementOfSeq DEF ReturnType, Last
<1>7. s \in Object(n) /\ s.args = parameters /\ s.type = ReturnType
  <2>1. parameters \in Seq(1..n)
    BY <1>3 DEF Parts
  <2>2. ReturnType \in Type \union {"none"}
    BY <1>6
  <2> HIDE DEF n
  <2> QED
    BY <1>3, <1>5, <2>1, <2>2, NewObjects, ZenonT(40)
<1>8. /\ GoodHeap(g) /\ Len(g) = n /\ DOMAIN g = 1..n
      /\ \A i : Typed(heap, i) => Typed(g, i)
      /\ \A i \in 1..n : g[i].type = heap[i].type
  <2>1. A \in SUBSET {"GLOBAL", "EXTERN", "FUNCTION_PARAM"} /\ GoodHeap(heap)
    BY <1>3 DEF Parts
  <2> DEFINE E == Elements(parameters)
  <2>2. g = Attributed(heap, E, A)
    BY DEF Attributed
  <2> HIDE DEF A, E, g
  <2>3. /\ GoodHeap(g) /\ Len(g) = Len(heap) /\ DOMAIN g = 1..Len(heap)
        /\ \A i : Typed(heap, i) => Typed(g, i)
        /\ \A i \in 1..Len(heap) : g[i].type = heap[i].type
    BY <2>1, <2>2, AttributesAdded
  <2> QED
    BY <2>3
<1>9. Elements(parameters) \subseteq 1..n /\ Elements(declarators) \subseteq 1..n
  BY <1>3, ListAppended DEF Parts
<1> HIDE DEF n, A, g, s
<1>10. \A i \in DOMAIN s.args : g[s.args[i]].type \in Type
  <2>1. ASSUME NEW i \in DOMAIN parameters
        PROVE  parameters[i] \in Elements(parameters)
    BY DEF Elements
  <2> QED
    BY <1>3, <1>7, <1>8, <1>9, <2>1 DEF Parts
<1>11. /\ GoodHeap(heap') /\ Len(heap') = n + 1 /\ heap'[n + 1] = s
       /\ \A i \in 1..n : heap'[i] = g[i]
       /\ DOMAIN heap' = 1..n + 1 /\ \A i : Typed(g, i) => Typed(heap', i)
  BY <1>1, <1>7, <1>8, <1>10, HeapAppended
<1>12. /\ declarators' \in Seq(1..n + 1)
       /\ Elements(declarators') \subseteq Elements(declarators) \union {n + 1}
       /\ Top.n # 1 => Elements(declarators') = Elements(declarators)
  <2>1. declarators \in Seq(1..n)
    BY <1>3 DEF Parts, n
  <2>2. /\ Append(declarators, n + 1) \in Seq(1..n + 1) /\ declarators \in Seq(1..n + 1)
        /\ Elements(Append(declarators, n + 1)) = Elements(declarators) \union {n + 1}
    BY <1>3, <2>1, ListAppended
  <2> QED
    BY <1>1, <1>11, <2>2
<1>13. parameters' \in Seq(1..n + 1) /\ Elements(parameters') = {}
  <2>1. DOMAIN parameters' = {}
    BY <1>1, ShortItems
  <2> QED
    BY <1>1, <2>1, EmptySeq DEF Elements
<1>14. Parts'
  <2>1. GoodTables(symbol_table', heap')
    BY <1>1, <1>3, <1>8, <1>11, TablesKept DEF Parts
  <2>2. last_function_' \in 0..n + 1 /\ definition' \in 0..n + 1
    BY <1>1, <1>3, <1>11 DEF Parts, n
  <2> QED
    BY <1>1, <1>2, <1>3, <1>11, <1>12, <1>13, <2>1, <2>2 DEF Parts
<1>15. CASE Top.n = 1
  <2>1. m = u
    BY <1>5, <1>15
  <2>2. ASSUME definition \in DOMAIN heap, definition \notin Elements(declarators)
        PROVE  /\ definition' \in DOMAIN heap'
               /\ heap'[definition'].type = heap[definition].type
               /\ definition' \notin Elements(declarators')
    BY <1>1, <1>3, <1>8, <1>11, <1>12, <1>15, <2>2
  <2>3. u.stage # "named"
    <3> DEFINE it == Top
    <3>1. ~Passes(it, u, m) /\ it.k = "function_declarator" /\ Effect(it, u, m)
      BY <1>1, <1>4, <1>15 DEF Passes
    <3> HIDE DEF it
    <3> QED
      BY <3>1 DEF Effect, Works
  <2>4. Matches(m)'
    BY <1>1, <1>4, <1>15, <2>1, <2>2, <2>3 DEF Matches
  <2> QED
    BY <2>4, <1>1, <1>2, <1>3, <1>4, <1>14, Consumed DEF BalanceOf, EndsOf, Claimers, Flag
<1>16. CASE Top.n # 1
  <2>1. u = Claimed("typed") /\ m = Claimed("named")
    BY <1>5, <1>16
  <2>2. /\ u.stage = "typed" /\ m.stage = "named" /\ m.kinds = u.kinds /\ m.open = u.open
        /\ u.open = 1
    BY <2>1 DEF Claimed, Sit
  <2>3. s.type = unclaimed_types_[1]
    BY <1>6, <1>7, <2>2 DEF ReturnType, Last
  <2>4. /\ definition' \in DOMAIN heap' /\ definition' = n + 1
        /\ definition' \notin Elements(declarators')
    BY <1>1, <1>3, <1>9, <1>11, <1>12, <1>16
  <2>5. Matches(m)'
    BY <1>1, <1>4, <1>11, <2>2, <2>3, <2>4 DEF Matches, Inner
  <2> QED
    BY <2>5, <1>1, <1>2, <1>3, <1>4, <1>14, Consumed DEF BalanceOf, EndsOf, Claimers, Flag
<1> QED
  BY <1>15, <1>16

LEMMA ExternalDeclarationKeeps ==
  ASSUME PInv, ReduceExternalDeclaration
  PROVE  PInv'
<1> DEFINE A == AttributesOf(Top.n)
           E == Elements(declarators)
<1>1. /\ Running /\ expected # <<>> /\ Top.k = "external_declaration" /\ Become(<<>>)
      /\ heap' = Attributed(heap, E, A) /\ declarators' = <<>>
      /\ parameters' = parameters /\ definition' = definition /\ values' = values
      /\ size' = size /\ symbol_table' = symbol_table /\ UNCHANGED <<globals, outcome>>
  BY DEF ReduceExternalDeclaration, At, Top, Attributed
<1>2. /\ unclaimed_types_' = unclaimed_types_ /\ last_function_' = last_function_
      /\ new_function_definition_' = new_function_definition_
      /\ result' = result /\ exit' = exit
  BY <1>1 DEF globals, outcome
<1>3. /\ Parts /\ Len(symbol_table) \in Nat /\ Len(unclaimed_types_) \in Nat
  BY DataParts DEF PInv
<1>4. A \in SUBSET {"GLOBAL", "EXTERN", "FUNCTION_PARAM"} /\ GoodHeap(heap)
  BY <1>3 DEF AttributesOf, Parts
<1> HIDE DEF A, E
<1>5. /\ GoodHeap(heap') /\ Len(heap') = Len(heap) /\ DOMAIN heap = 1..Len(heap)
      /\ \A i : Typed(heap, i) => Typed(heap', i)
      /\ \A i \in 1..Len(heap) : heap'[i].type = heap[i].type
  BY <1>1, <1>4, AttributesAdded
<1>6. Parts'
  <2>1. \A i \in Elements(parameters') : heap'[i].type \in Type
    <3>1. Elements(parameters') = Elements(parameters)
      BY <1>1
    <3>2. Elements(parameters) \subseteq 1..Len(heap)
      <4>1. Len(heap) \in Nat
        BY <1>5, DataParts DEF PInv
      <4> QED
        BY <1>3, <4>1, ListAppended DEF Parts
    <3> QED
      BY <1>3, <1>5, <3>1, <3>2 DEF Parts
  <2>2. GoodTables(symbol_table', heap')
    BY <1>1, <1>3, <1>5, TablesKept DEF Parts
  <2>3. declarators' \in Seq(1..Len(heap'))
    BY <1>1, EmptySeq
  <2> QED
    BY <1>1, <1>2, <1>3, <1>5, <2>1, <2>2, <2>3 DEF Parts
<1>7. PICK u, m \in Situation :
        /\ Matches(u) /\ Effect(Top, u, m)
        /\ \A items, x : (IsTuple(items) /\ Become(items) /\ Leads(items, x, m))
                           => Leads(expected', x, Start)
  BY <1>1, Facing
<1>8. u = Written /\ m = Start
  <2> DEFINE it == Top
  <2>1. it.k = "external_declaration" /\ Effect(it, u, m)
    BY <1>1, <1>7
  <2> HIDE DEF it
  <2> QED
    BY <2>1 DEF Effect, Passes, Works, Anywhere, InBody
<1>9. Matches(m)'
  <2>1. m.stage = "outside" /\ m.kinds = u.kinds /\ m.open = u.open /\ u.stage = "written"
    BY <1>8 DEF Start, Written, Sit
  <2> QED
    BY <1>1, <1>2, <1>7, <2>1 DEF Matches, Inner
<1> QED
  BY <1>1, <1>2, <1>3, <1>6, <1>7, <1>9, Consumed DEF BalanceOf, EndsOf, Claimers, Flag

(* The program is not parsed any further.                                    *)
LEMMA Halts ==
  ASSUME PInv, exit' # "running", expected' = expected, Parts'
  PROVE  PInv'
<1>1. IsSentence(expected') /\ ~Running'
  BY DEF PInv, Running, IsSentence
<1>2. Data'
  BY <1>1, PartsMake
<1> QED
  BY <1>1, <1>2 DEF PInv, TypesClaimed, ScopesMatchBlocks

(* At the end of a function definition its type is the only unclaimed one, and *)
(* the type of the function and its body's outcome are the only values.        *)
LEMMA DefinitionMet ==
  ASSUME PInv, At("function_definition")
  PROVE  /\ Matches(Defined)
         /\ \A items, x : (IsTuple(items) /\ Become(items) /\ Leads(items, x, Start))
                            => Leads(expected', x, Start)
         /\ Len(values) = 2 /\ Len(unclaimed_types_) = 1 /\ definition \in DOMAIN heap
         /\ heap[definition].type = FromTop(1) /\ Last(values) \in Outcome
<1>1. Running /\ expected # <<>> /\ Top.k = "function_definition"
  BY DEF At, Top
<1>2. PICK u, m \in Situation :
        /\ Matches(u) /\ Effect(Top, u, m)
        /\ \A items, x : (IsTuple(items) /\ Become(items) /\ Leads(items, x, m))
                           => Leads(expected', x, Start)
  BY <1>1, Facing
<1>3. u = Defined /\ m = Start
  <2> DEFINE it == Top
  <2>1. it.k = "function_definition" /\ Effect(it, u, m)
    BY <1>1, <1>2
  <2> HIDE DEF it
  <2> QED
    BY <2>1 DEF Effect, Passes, Works, Anywhere, InBody
<1>4. /\ Fits(values, <<T, O>>) /\ Len(unclaimed_types_) = 1
      /\ values[1] = unclaimed_types_[1] /\ definition \in DOMAIN heap
      /\ heap[definition].type = unclaimed_types_[1]
  BY <1>2, <1>3 DEF Matches, Defined, Sit, Inner, T, O
<1>5. Len(values) = 2 /\ values[2] \in Outcome
  <2> DEFINE ks == <<T, O>>
  <2>1. Len(ks) = 2 /\ ks[2] = O /\ 2 \in 1..2
    OBVIOUS
  <2> HIDE DEF ks
  <2> QED
    BY <1>4, <2>1, KindsOf DEF Fits, ks
<1> QED
  BY <1>2, <1>3, <1>4, <1>5 DEF FromTop, Last

LEMMA FunctionDefinitionKeeps ==
  ASSUME PInv, ReduceFunctionDefinition
  PROVE  PInv' /\ exit' # "internal_error"
<1>1. /\ At("function_definition") /\ Running /\ expected # <<>>
      /\ Top.k = "function_definition"
      /\ unclaimed_types_' = Front(unclaimed_types_) /\ values' = Pop(values, 2)
      /\ declarators' = declarators /\ parameters' = parameters
      /\ last_function_' = last_function_
      /\ new_function_definition_' = new_function_definition_
      /\ size' = size /\ heap' = heap /\ symbol_table' = symbol_table /\ result' = result
  BY DEF ReduceFunctionDefinition, At, Top, scopes
<1>2. /\ Matches(Defined)
      /\ \A items, x : (IsTuple(items) /\ Become(items) /\ Leads(items, x, Start))
                         => Leads(expected', x, Start)
      /\ Len(values) = 2 /\ Len(unclaimed_types_) = 1 /\ definition \in DOMAIN heap
      /\ heap[definition].type = FromTop(1) /\ Last(values) \in Outcome
  BY <1>1, DefinitionMet
<1>3. /\ Parts /\ Len(symbol_table) \in Nat /\ values \in Seq(Value)
      /\ unclaimed_types_ \in Seq(Type) /\ Len(heap) \in Nat
  BY DataParts DEF PInv, Parts
<1>4. values' \in Seq(Value) /\ Len(values') = 0
  <2>1. 2 \in 0..Len(values)
    BY <1>2
  <2>2. Pop(values, 2) \in Seq(Value) /\ Len(Pop(values, 2)) = Len(values) - 2
    BY <1>3, <2>1, PopProperties
  <2> QED
    BY <1>1, <1>2, <2>2
<1>5. unclaimed_types_' \in Seq(Type) /\ Len(unclaimed_types_') = 0
  <2>1. "int" \in Type
    BY DEF Type
  <2>2. /\ Front(unclaimed_types_) \in Seq(Type)
        /\ Len(Front(unclaimed_types_)) = Len(unclaimed_types_) - 1
    <3>1. Len(unclaimed_types_) >= 1
      BY <1>2
    <3> QED
      BY <1>3, <2>1, <3>1, FitsFirst
  <2> QED
    BY <1>1, <1>2, <2>2
<1>6. ASSUME exit' \in {"running", "zero", "crashed", "terminated", "internal_error"},
             definition' \in 0..Len(heap)
      PROVE  Parts'
  <2>1. Elements(parameters') = Elements(parameters)
    BY <1>1
  <2> QED
    BY <1>1, <1>3, <1>4, <1>5, <1>6, <2>1 DEF Parts
<1>7. CASE Last(values) # "ok"
  <2>1. /\ exit' = IF Last(values) = "throw" THEN "terminated" ELSE "crashed"
        /\ expected' = expected /\ definition' = definition
    BY <1>2, <1>7 DEF ReduceFunctionDefinition
  <2>2. exit' \in {"terminated", "crashed"}
    BY <2>1
  <2>3. definition' \in 0..Len(heap)
    BY <1>3, <2>1 DEF Parts
  <2>4. Parts'
    BY <1>6, <2>2, <2>3
  <2> QED
    BY <2>1, <2>2, <2>4, Halts
<1>8. CASE Last(values) = "ok"
  <2>1. exit' = exit /\ Become(<<>>) /\ definition' = 0
    BY <1>2, <1>8 DEF ReduceFunctionDefinition
  <2>2. Parts'
    <3>1. exit' = "running" /\ 0 \in 0..Len(heap)
      BY <1>1, <1>3, <2>1 DEF Running
    <3> QED
      BY <1>6, <2>1, <3>1
  <2>3. Matches(Start)'
    <3>1. new_function_definition_ = FALSE
      BY <1>2 DEF Matches, Defined, Sit
    <3>2. Start.stage = "outside" /\ Start.kinds = <<>> /\ Start.open = 0
      BY DEF Start, Sit
    <3>3. Fits(values', <<>>)
      BY <1>4, EmptySeq DEF Fits
    <3> QED
      BY <1>1, <1>5, <2>1, <3>1, <3>2, <3>3 DEF Matches, Inner
  <2>4. Start \in Situation
    BY PassedTyped
  <2>5. /\ Len(unclaimed_types_') = Len(unclaimed_types_) - BalanceOf(Top)
        /\ Len(symbol_table') - Flag' = Len(symbol_table) - Flag - EndsOf(Top)
    <3>1. BalanceOf(Top) = 1 /\ EndsOf(Top) = 0
      BY <1>1 DEF BalanceOf, EndsOf, Claimers
    <3>2. Flag' = Flag /\ Flag \in Int
      BY <1>1 DEF Flag
    <3> QED
      BY <1>1, <1>2, <1>3, <1>5, <3>1, <3>2
  <2>6. PInv'
    BY <1>1, <1>2, <2>1, <2>2, <2>3, <2>4, <2>5, Consumed
  <2> QED
    BY <1>1, <2>1, <2>6 DEF Running
<1> QED
  BY <1>7, <1>8

LEMMA TableAppended ==
  ASSUME NEW s, NEW t, NEW h, GoodTables(s, h), GoodTable(t, h)
  PROVE  GoodTables(Append(s, t), h) /\ Len(Append(s, t)) = Len(s) + 1 /\ Len(s) \in Nat
<1> DEFINE S == {s[i] : i \in DOMAIN s} \union {t}
           a == Append(s, t)
<1>1. s \in Seq(S) /\ t \in S
  <2>1. s \in Seq({s[i] : i \in DOMAIN s}) /\ {s[i] : i \in DOMAIN s} \subseteq S /\ t \in S
    BY DEF GoodTables, IsTuple
  <2> HIDE DEF S
  <2> QED
    BY <2>1, SeqMonotonic
<1> HIDE DEF S
<1>2. /\ a \in Seq(S) /\ Len(a) = Len(s) + 1 /\ a[Len(s) + 1] = t
      /\ \A i \in 1..Len(s) : a[i] = s[i]
  BY <1>1, AppendProperties
<1> HIDE DEF a
<1>3. /\ Len(s) \in Nat /\ DOMAIN s = 1..Len(s) /\ DOMAIN a = 1..Len(s) + 1
      /\ IsTuple(a) /\ a # <<>>
  <2>1. Len(s) \in Nat /\ DOMAIN s = 1..Len(s) /\ DOMAIN a = 1..Len(a)
    BY <1>1, <1>2, LenProperties
  <2>2. a # <<>>
    BY <1>2, <2>1, EmptySeq
  <2> QED
    BY <1>2, <2>1, <2>2, Tuples
<1>4. ASSUME NEW i \in DOMAIN a
      PROVE  GoodTable(a[i], h)
  <2>1. CASE i \in 1..Len(s)
    BY <1>2, <1>3, <2>1 DEF GoodTables
  <2>2. CASE i = Len(s) + 1
    BY <1>2, <2>2
  <2> QED
    BY <1>3, <2>1, <2>2
<1>5. GoodTables(a, h)
  BY <1>3, <1>4 DEF GoodTables
<1> QED
  BY <1>2, <1>3, <1>5 DEF a

LEMMA BlockLeads ==
  ASSUME NEW r \in Stack, NEW n \in Nat, n >= 1
  PROVE  Leads(<<Item("declaration_list"), Item("instruction_list"), Item("block_end")>>,
               Above(r, <<O>>, n), Above(r, <<O>>, n))
<1> DEFINE a == Item("declaration_list")
           b == Item("instruction_list")
           c == Item("block_end")
           k == <<O>>
           v == Above(r, k, n)
<1>1. a.k = "declaration_list" /\ b.k = "instruction_list" /\ c.k = "block_end"
  BY Symbols
<1> HIDE DEF a, b, c
<1>2. k \in Seq(Kinds) /\ k # <<>> /\ Needs(b) = k /\ Gives(b) = k /\ b.k \in PlainKinds
  BY <1>1, ShortStacks DEF Needs, Gives, O, PlainKinds
<1> HIDE DEF k
<1>3. v \in Situation /\ r \o k \in Seq(Kinds) /\ r \o k # <<>>
  <2>1. r \in Seq(Kinds)
    BY DEF Stack
  <2> QED
    BY <1>2, <2>1, AboveTyped, ConcatProperties, ConcatEqualIffEmpty
<1>4. IsInner(v, {"body"})
  BY <1>3 DEF IsInner, Above, Sit
<1>5. Effect(b, v, v)
  BY <1>2, ReducesAbove
<1> HIDE DEF v
<1>6. IsNeutral(a, {"body"}) /\ IsNeutral(c, {"body"})
  BY <1>1 DEF IsNeutral
<1>7. Effect(a, v, v) /\ Effect(c, v, v)
  BY <1>3, <1>4, <1>6, NeutralEffect
<1>8. Leads(<<a, b, c>>, v, v)
  BY <1>3, <1>5, <1>7, LeadsThree
<1> QED
  BY <1>8 DEF a, b, c, v, k

LEMMA BlockStartKeeps ==
  ASSUME PInv, BlockStart
  PROVE  PInv'
<1> DEFINE items == <<Item("declaration_list"), Item("instruction_list"),
                      Item("block_end")>>
<1>1. /\ Running /\ expected # <<>> /\ Top.k = "compound" /\ Become(items)
      /\ values' = Append(values, "null") /\ new_function_definition_' = FALSE
      /\ symbol_table' = IF new_function_definition_ THEN symbol_table
                         ELSE Append(symbol_table, EmptyTable)
      /\ unclaimed_types_' = unclaimed_types_ /\ last_function_' = last_function_
      /\ declarators' = declarators /\ parameters' = parameters /\ definition' = definition
      /\ heap' = heap /\ size' = size /\ result' = result /\ exit' = exit
  BY DEF BlockStart, At, Top, lists, outcome
<1>2. PICK u, m \in Situation :
        /\ Matches(u) /\ Effect(Top, u, m)
        /\ \A s, x : (IsTuple(s) /\ Become(s) /\ Leads(s, x, m)) => Leads(expected', x, Start)
  BY <1>1, Facing
<1>3. PICK r \in Stack, n \in Nat :
        /\ n >= 1 /\ u.kinds = r /\ u.open = n /\ m = Above(r, <<O>>, n)
        /\ u.stage \in {"opened", "body"}
  <2> DEFINE it == Top
  <2>1. /\ it.k = "compound" /\ Effect(it, u, m) /\ Needs(it) = <<>> /\ Gives(it) = <<O>>
        /\ Opens(it) = 0 /\ ~Anywhere(it)
    BY <1>1, <1>2 DEF Needs, Gives, Opens, Anywhere, O
  <2> HIDE DEF it
  <2>2. CASE Passes(it, u, m)
    <3>1. u = Claimed("opened") /\ m = Defined
      BY <2>1, <2>2 DEF Passes
    <3>2. <<T>> \o <<O>> = <<T, O>>
      BY ShortConcat
    <3>3. <<T>> \in Stack
      BY ShortStacks DEF Stack
    <3>4. m = Above(<<T>>, <<O>>, 1)
      BY <3>1, <3>2 DEF Defined, Above, Sit, T, O
    <3>5. u.kinds = <<T>> /\ u.open = 1 /\ u.stage = "opened"
      BY <3>1 DEF Claimed, Sit, T
    <3> QED
      BY <3>3, <3>4, <3>5
  <2>3. CASE Works(it, u, m)
    <3>1. PICK r \in Seq(Kinds) : r # <<>> /\ u.kinds = r \o <<>>
                                  /\ m = Sit(u.stage, r \o <<O>>, u.open + 0)
      BY <2>1, <2>3 DEF Works
    <3>2. u.stage = "body" /\ u.open >= 1 /\ u.open \in Nat
      BY <2>1, <2>3 DEF Works, Situation
    <3>3. r \o <<>> = r /\ u.open + 0 = u.open
      BY <3>2, ConcatEmptySeq
    <3>4. m = Above(r, <<O>>, u.open) /\ r \in Stack
      BY <3>1, <3>2, <3>3 DEF Above, Stack
    <3> QED
      BY <3>1, <3>2, <3>3, <3>4
  <2> QED
    BY <2>1, <2>2, <2>3 DEF Effect
<1>4. /\ IsSentence(items) /\ Balance(items) = 0 /\ Ends(items) = 1 /\ Leads(items, m, m)
  BY <1>3, Symbols, Sentences, MoreBalanced, BlockLeads
<1> HIDE DEF items
<1>5. Leads(expected', m, Start)
  BY <1>1, <1>2, <1>4 DEF IsSentence
<1>6. /\ Parts /\ Len(symbol_table) \in Nat /\ values \in Seq(Value)
      /\ Len(unclaimed_types_) \in Nat
  BY DataParts DEF PInv, Parts
<1>7. r \in Seq(Kinds) /\ r # <<>> /\ Fits(values, r)
  BY <1>2, <1>3 DEF Stack, Matches
<1>8. /\ values' \in Seq(Value) /\ Fits(values', r \o <<O>>) /\ values'[1] = values[1]
  <2>1. O \in Kinds /\ "null" \in KindOf(O)
    BY ShortStacks, KindsOf
  <2> QED
    BY <1>1, <1>6, <1>7, <2>1, FitsPushed
<1>9. /\ GoodTables(symbol_table', heap')
      /\ Len(symbol_table') = Len(symbol_table) + (IF new_function_definition_ THEN 0 ELSE 1)
  <2>1. DOMAIN EmptyTable = {}
    BY DEF EmptyTable
  <2>2. GoodTable(EmptyTable, heap)
    BY <2>1 DEF GoodTable
  <2>3. GoodTables(symbol_table, heap)
    BY <1>6 DEF Parts
  <2>4. GoodTables(Append(symbol_table, EmptyTable), heap)
        /\ Len(Append(symbol_table, EmptyTable)) = Len(symbol_table) + 1
    BY <2>2, <2>3, TableAppended
  <2> QED
    BY <1>1, <1>6, <2>3, <2>4
<1>10. Parts'
  <2>1. Elements(parameters') = Elements(parameters)
    BY <1>1
  <2> QED
    BY <1>1, <1>6, <1>8, <1>9, <2>1 DEF Parts
<1>11. Data'
  <2>1. IsSentence(expected')
    BY <1>1, <1>4, NextSentence DEF PInv
  <2> QED
    BY <1>10, <2>1, PartsMake
<1>12. Matches(m)'
  <2>1. m.stage = "body" /\ m.kinds = r \o <<O>> /\ m.open = n
    BY <1>3 DEF Above, Sit
  <2>2. r \o <<O>> # <<>>
    <3> DEFINE k == <<O>>
    <3>1. k \in Seq(Kinds)
      BY ShortStacks
    <3> HIDE DEF k
    <3>2. r \o k # <<>>
      BY <1>7, <3>1, ConcatEqualIffEmpty
    <3> QED
      BY <3>2 DEF k
  <2>3. /\ values[1] = unclaimed_types_[1] /\ Len(unclaimed_types_) = n
        /\ definition \in DOMAIN heap /\ heap[definition].type = unclaimed_types_[1]
        /\ definition \notin Elements(declarators)
    BY <1>2, <1>3 DEF Matches, Inner
  <2>4. Elements(declarators') = Elements(declarators)
    BY <1>1
  <2> QED
    BY <1>1, <1>3, <1>8, <2>1, <2>2, <2>3, <2>4 DEF Matches
<1>13. Situated'
  BY <1>2, <1>5, <1>12 DEF Situated
<1>14. /\ Len(unclaimed_types_') = Len(unclaimed_types_) + Balance(items) - BalanceOf(Top)
       /\ Len(symbol_table') - Flag' = Len(symbol_table) - Flag + Ends(items) - EndsOf(Top)
  <2>1. BalanceOf(Top) = 0 /\ EndsOf(Top) = 0
    BY <1>1 DEF BalanceOf, EndsOf, Claimers
  <2>2. Flag' = 0 /\ Flag = IF new_function_definition_ THEN 1 ELSE 0
    BY <1>1 DEF Flag
  <2> QED
    BY <1>1, <1>4, <1>6, <1>9, <2>1, <2>2
<1> QED
  BY <1>1, <1>4, <1>11, <1>13, <1>14, Settled

(* The objects of E take a type.                                             *)
Retyped(h, E, t) ==
  [i \in DOMAIN h |-> IF i \in E THEN [h[i] EXCEPT !.type = t] ELSE h[i]]

LEMMA TypesTaken ==
  ASSUME NEW h, GoodHeap(h), NEW E, NEW t \in Type, NEW g, g = Retyped(h, E, t)
  PROVE  /\ GoodHeap(g) /\ Len(g) = Len(h) /\ Len(h) \in Nat /\ DOMAIN h = 1..Len(h)
         /\ DOMAIN g = 1..Len(h) /\ \A s : Typed(h, s) => Typed(g, s)
         /\ \A i \in 1..Len(h) :
              /\ g[i].type = (IF i \in E THEN t ELSE h[i].type) /\ g[i].args = h[i].args
              /\ g[i].name = h[i].name /\ g[i].function = h[i].function
              /\ g[i].attributes = h[i].attributes
<1>1. /\ DOMAIN h = 1..Len(h) /\ \A i \in 1..Len(h) : h[i] \in Object(Len(h))
  BY LenProperties, ElementOfSeq DEF GoodHeap
<1>2. ASSUME NEW o \in Object(Len(h))
      PROVE  LET a == [o EXCEPT !.type = t]
             IN  /\ a \in Object(Len(h)) /\ a.type = t /\ a.args = o.args
                 /\ a.name = o.name /\ a.function = o.function /\ a.attributes = o.attributes
  BY DEF Object
<1>3. ASSUME NEW i \in 1..Len(h)
      PROVE  /\ g[i] \in Object(Len(h)) /\ g[i].args = h[i].args
             /\ g[i].type = (IF i \in E THEN t ELSE h[i].type)
             /\ g[i].name = h[i].name /\ g[i].function = h[i].function
             /\ g[i].attributes = h[i].attributes
  <2>1. CASE i \in E
    <3>1. g[i] = [h[i] EXCEPT !.type = t]
      BY <1>1, <2>1 DEF Retyped
    <3> QED
      BY <1>1, <1>2, <2>1, <3>1
  <2>2. CASE i \notin E
    <3>1. g[i] = h[i]
      BY <1>1, <2>2 DEF Retyped
    <3> QED
      BY <1>1, <2>2, <3>1
  <2> QED
    BY <2>1, <2>2
<1>4. g \in [1..Len(h) -> Object(Len(h))]
  <2>1. g = [i \in 1..Len(h) |-> g[i]]
    BY <1>1 DEF Retyped
  <2> QED
    BY <1>3, <2>1, Zenon
<1> QED
  BY <1>3, <1>4, HeapChanged

(* What add puts into a table: under a name that is new to it, the first of    *)
(* the symbols with that name.                                               *)
IsAdded(a, table, syms) ==
  /\ DOMAIN a = DOMAIN table \union {heap[i].name : i \in Elements(syms)}
  /\ \A x \in DOMAIN table : a[x] = table[x]
  /\ \A x \in DOMAIN a \ DOMAIN table :
       \E k \in DOMAIN syms :
         /\ a[x] = syms[k] /\ heap[syms[k]].name = x
         /\ \A j \in 1..k - 1 : heap[syms[j]].name # x

LEMMA AddedFound ==
  ASSUME NEW table, NEW syms, IsTuple(syms)
  PROVE  IsAdded(Added(table, syms), table, syms)
<1>1. DOMAIN Added(table, syms) = DOMAIN table \union {heap[i].name : i \in Elements(syms)}
  BY DEF Added
<1>2. \A x \in DOMAIN table : Added(table, syms)[x] = table[x]
  BY DEF Added
<1>3. ASSUME NEW x \in DOMAIN Added(table, syms) \ DOMAIN table
      PROVE  \E k \in DOMAIN syms :
               /\ Added(table, syms)[x] = syms[k] /\ heap[syms[k]].name = x
               /\ \A j \in 1..k - 1 : heap[syms[j]].name # x
  <2> DEFINE P(k) == /\ heap[syms[k]].name = x
                     /\ \A j \in 1..k - 1 : heap[syms[j]].name # x
             N == {k \in DOMAIN syms : heap[syms[k]].name = x}
             c == CHOOSE k \in DOMAIN syms : P(k)
  <2>1. Len(syms) \in Nat /\ DOMAIN syms = 1..Len(syms)
    BY LenProperties DEF IsTuple
  <2>2. N # {} /\ N \subseteq Nat
    <3>1. PICK i \in Elements(syms) : heap[i].name = x
      BY <1>1, <1>3
    <3>2. PICK k \in DOMAIN syms : i = syms[k]
      BY DEF Elements
    <3> QED
      BY <2>1, <3>1, <3>2
  <2>3. PICK k \in N : \A j \in N : k <= j
    <3> HIDE DEF N
    <3> QED
      BY <2>2, LeastNatural
  <2>4. ASSUME NEW j \in 1..k - 1
        PROVE  heap[syms[j]].name # x
    <3>1. k \in 1..Len(syms)
      BY <2>1
    <3>2. j \in DOMAIN syms /\ ~(k <= j)
      BY <2>1, <3>1
    <3> QED
      BY <2>3, <3>2
  <2>5. \E i \in DOMAIN syms : P(i)
    BY <2>4
  <2>6. c \in DOMAIN syms /\ P(c)
    <3> HIDE DEF P
    <3> QED
      BY <2>5
  <2>7. Added(table, syms)[x] = syms[c]
    BY <1>1 DEF Added
  <2> HIDE DEF c
  <2> QED
    BY <2>6, <2>7
<1> QED
  BY <1>1, <1>2, <1>3 DEF IsAdded

LEMMA AddedGood ==
  ASSUME NEW table, NEW syms, IsTuple(syms), NEW g, GoodTable(table, g),
         \A i \in DOMAIN syms : Typed(g, syms[i]) /\ heap[syms[i]].name \in Names
  PROVE  GoodTable(Added(table, syms), g)
<1> DEFINE a == Added(table, syms)
<1>1. /\ DOMAIN a = DOMAIN table \union {heap[i].name : i \in Elements(syms)}
      /\ \A x \in DOMAIN table : a[x] = table[x]
      /\ \A x \in DOMAIN a \ DOMAIN table : \E k \in DOMAIN syms : a[x] = syms[k]
  <2>1. IsAdded(a, table, syms)
    BY AddedFound
  <2> HIDE DEF a
  <2> QED
    BY <2>1 DEF IsAdded
<1> HIDE DEF a
<1>2. ASSUME NEW x \in DOMAIN a
      PROVE  x \in Names
  <2>1. CASE x \in DOMAIN table
    BY <2>1 DEF GoodTable
  <2>2. CASE x \notin DOMAIN table
    <3>1. PICK i \in Elements(syms) : x = heap[i].name
      BY <1>1, <2>2
    <3>2. PICK k \in DOMAIN syms : i = syms[k]
      BY DEF Elements
    <3> QED
      BY <3>1, <3>2
  <2> QED
    BY <2>1, <2>2
<1>3. ASSUME NEW x \in DOMAIN a
      PROVE  Typed(g, a[x])
  <2>1. CASE x \in DOMAIN table
    BY <1>1, <2>1 DEF GoodTable
  <2>2. CASE x \notin DOMAIN table
    BY <1>1, <2>2
  <2> QED
    BY <2>1, <2>2
<1>4. GoodTable(a, g)
  BY <1>2, <1>3 DEF GoodTable
<1> QED
  BY <1>4 DEF a

(* The innermost table becomes t.                                            *)
WithLast(s, t) == [s EXCEPT ![Len(s)] = t]

LEMMA LastReplaced ==
  ASSUME NEW s, IsTuple(s), s # <<>>, NEW t, NEW r, r = WithLast(s, t)
  PROVE  /\ IsTuple(r) /\ r # <<>> /\ Len(r) = Len(s) /\ Len(s) \in Nat /\ Len(s) >= 1
         /\ DOMAIN s = 1..Len(s) /\ DOMAIN r = 1..Len(s)
         /\ \A i \in 1..Len(s) : r[i] = IF i = Len(s) THEN t ELSE s[i]
<1> DEFINE S == {s[i] : i \in DOMAIN s} \union {t}
<1>1. s \in Seq(S) /\ t \in S
  <2>1. s \in Seq({s[i] : i \in DOMAIN s}) /\ {s[i] : i \in DOMAIN s} \subseteq S /\ t \in S
    BY DEF IsTuple
  <2> HIDE DEF S
  <2> QED
    BY <2>1, SeqMonotonic
<1> HIDE DEF S
<1>2. Len(s) \in Nat /\ Len(s) >= 1 /\ Len(s) \in 1..Len(s) /\ DOMAIN s = 1..Len(s)
  BY <1>1, EmptySeq, LenProperties
<1>3. /\ r \in Seq(S) /\ Len(r) = Len(s)
      /\ \A i \in 1..Len(s) : r[i] = IF i = Len(s) THEN t ELSE s[i]
  BY <1>1, <1>2, ExceptSeq DEF WithLast
<1>4. DOMAIN r = 1..Len(s) /\ IsTuple(r) /\ r # <<>>
  <2>1. DOMAIN r = 1..Len(s)
    BY <1>3, LenProperties
  <2>2. r # <<>>
    <3>1. Len(r) = Len(s)
      BY <1>3, Zenon
    <3>2. Len(s) # 0
      BY <1>2
    <3> QED
      BY <3>1, <3>2, EmptySeq
  <2>3. IsTuple(r)
    BY <1>3, Tuples
  <2> QED
    BY <2>1, <2>2, <2>3
<1> QED
  BY <1>2, <1>3, <1>4

LEMMA TableReplaced ==
  ASSUME NEW s, NEW t, NEW h, GoodTables(s, h), GoodTable(t, h), NEW r,
         r = WithLast(s, t)
  PROVE  /\ GoodTables(r, h) /\ Len(r) = Len(s) /\ Len(s) \in Nat /\ Len(s) >= 1
<1>1. /\ IsTuple(r) /\ r # <<>> /\ Len(r) = Len(s) /\ Len(s) \in Nat /\ Len(s) >= 1
      /\ DOMAIN s = 1..Len(s) /\ DOMAIN r = 1..Len(s)
      /\ \A i \in 1..Len(s) : r[i] = IF i = Len(s) THEN t ELSE s[i]
  BY LastReplaced DEF GoodTables
<1>2. ASSUME NEW i \in DOMAIN r
      PROVE  GoodTable(r[i], h)
  <2>1. CASE i = Len(s)
    BY <1>1, <2>1
  <2>2. CASE i # Len(s)
    BY <1>1, <2>2 DEF GoodTables
  <2> QED
    BY <2>1, <2>2
<1> QED
  BY <1>1, <1>2 DEF GoodTables

(* At the end of a declaration, of a global one or of one in a block.          *)
LEMMA DeclarationMet ==
  ASSUME PInv, Running, expected # <<>>, Top.k = "declaration",
         values' = Front(values), unclaimed_types_' = Front(unclaimed_types_)
  PROVE  \E m \in Situation :
           /\ m.stage \in {"written", "body"}
           /\ m.stage = "written" => definition = 0
           /\ \A items, x : (IsTuple(items) /\ Become(items) /\ Leads(items, x, m))
                              => Leads(expected', x, Start)
           /\ values' \in Seq(Value) /\ Fits(values', m.kinds) /\ Last(values) \in Type
           /\ unclaimed_types_' \in Seq(Type) /\ Len(unclaimed_types_') = m.open
           /\ Len(unclaimed_types_) = m.open + 1 /\ m.open \in Nat
           /\ new_function_definition_ = FALSE
           /\ m.stage = "body" =>
                /\ m.open >= 1 /\ m.kinds # <<>> /\ values'[1] = unclaimed_types_'[1]
                /\ unclaimed_types_'[1] = unclaimed_types_[1]
                /\ definition \in DOMAIN heap /\ heap[definition].type = unclaimed_types_[1]
                /\ definition \notin Elements(declarators)
<1>1. CASE Top.name = "global"
  <2>1. PICK u, m \in Situation :
          /\ Matches(u) /\ Effect(Top, u, m)
          /\ \A items, x : (IsTuple(items) /\ Become(items) /\ Leads(items, x, m))
                             => Leads(expected', x, Start)
    BY Facing
  <2>2. u = Claimed("typed") /\ m = Written
    <3> DEFINE it == Top
    <3>1. it.k = "declaration" /\ it.name = "global" /\ Effect(it, u, m)
      BY <1>1, <2>1
    <3> HIDE DEF it
    <3> QED
      BY <3>1 DEF Effect, Passes, Works, Anywhere, InBody
  <2>3. /\ u.kinds = <<T>> /\ u.open = 1 /\ u.stage = "typed"
        /\ m.kinds = <<>> /\ m.open = 0 /\ m.stage = "written"
    BY <2>2 DEF Claimed, Written, Sit, T
  <2>4. /\ Fits(values, <<T>>) /\ Len(unclaimed_types_) = 1
        /\ new_function_definition_ = FALSE /\ definition = 0
    BY <2>1, <2>3 DEF Matches
  <2>5. Len(values) = 1 /\ values[1] \in Type
    <3> DEFINE ks == <<T>>
    <3>1. Len(ks) = 1 /\ ks[1] = T /\ 1 \in 1..1
      OBVIOUS
    <3> HIDE DEF ks
    <3> QED
      BY <2>4, <3>1, KindsOf DEF Fits, ks
  <2>6. values \in Seq(Value) /\ unclaimed_types_ \in Seq(Type)
    BY DataParts DEF PInv, Parts
  <2>7. values' \in Seq(Value) /\ Len(values') = 0
    <3>1. 1 \in 0..Len(values)
      BY <2>5
    <3>2. Pop(values, 1) \in Seq(Value) /\ Len(Pop(values, 1)) = Len(values) - 1
      BY <2>6, <3>1, PopProperties
    <3> QED
      BY <2>5, <3>2 DEF Front, Pop
  <2>8. unclaimed_types_' \in Seq(Type) /\ Len(unclaimed_types_') = 0
    <3>1. "int" \in Type
      BY DEF Type
    <3>2. /\ Front(unclaimed_types_) \in Seq(Type)
          /\ Len(Front(unclaimed_types_)) = Len(unclaimed_types_) - 1
      <4>1. Len(unclaimed_types_) >= 1
        BY <2>4
      <4> QED
        BY <2>6, <3>1, <4>1, FitsFirst
    <3> QED
      BY <2>4, <3>2
  <2>9. Fits(values', <<>>)
    BY <2>7, EmptySeq DEF Fits
  <2> QED
    BY <2>1, <2>3, <2>4, <2>5, <2>7, <2>8, <2>9 DEF Last
<1>2. CASE Top.name # "global"
  <2>1. Top.name = "local"
    <3>1. PICK u, m \in Situation : Effect(Top, u, m)
      BY Facing
    <3> DEFINE it == Top
    <3>2. it.k = "declaration" /\ it.name # "global" /\ Effect(it, u, m)
      BY <1>2, <3>1
    <3> HIDE DEF it
    <3>3. it.name = "local"
      BY <3>2 DEF Effect, Passes, Works, Anywhere, InBody
    <3> QED
      BY <3>3 DEF it
  <2>2. IsClaim(Top, {"body"})
    BY <2>1 DEF IsClaim
  <2>3. PICK m \in Situation :
          /\ IsInner(m, {"body"}) /\ m.stage \in {"typed", "body"}
          /\ \A items, x : (IsTuple(items) /\ Become(items) /\ Leads(items, x, m))
                             => Leads(expected', x, Start)
          /\ values' \in Seq(Value) /\ Fits(values', m.kinds) /\ Last(values) \in Type
          /\ unclaimed_types_' \in Seq(Type) /\ Len(unclaimed_types_') = m.open
          /\ Len(unclaimed_types_) = m.open + 1 /\ m.open \in Nat /\ m.open >= 1
          /\ values'[1] = unclaimed_types_'[1]
          /\ unclaimed_types_'[1] = unclaimed_types_[1]
          /\ new_function_definition_ = FALSE
          /\ m.stage = "body" =>
               /\ definition \in DOMAIN heap /\ heap[definition].type = unclaimed_types_[1]
               /\ definition \notin Elements(declarators)
    BY <2>2, ClaimMet
  <2>4. m.stage = "body" /\ m.kinds # <<>>
    BY <2>3 DEF IsInner
  <2> QED
    BY <2>3, <2>4
<1> QED
  BY <1>1, <1>2

LEMMA DeclarationKeeps ==
  ASSUME PInv, ReduceDeclaration
  PROVE  PInv'
<1> DEFINE n == Len(heap)
           t == Last(values)
           E == Elements(declarators)
           table == Last(symbol_table)
<1>1. /\ Running /\ expected # <<>> /\ Top.k = "declaration" /\ Become(<<>>)
      /\ unclaimed_types_' = Front(unclaimed_types_) /\ values' = Front(values)
      /\ heap' = Retyped(heap, E, t)
      /\ symbol_table' = WithLast(symbol_table, Added(table, declarators))
      /\ declarators' = (IF Top.name = "global" THEN declarators ELSE <<>>)
      /\ size' = size /\ parameters' = parameters /\ definition' = definition
      /\ last_function_' = last_function_
      /\ new_function_definition_' = new_function_definition_
      /\ UNCHANGED outcome
  BY DEF ReduceDeclaration, At, Top, Retyped, Last, WithLast
<1>2. result' = result /\ exit' = exit
  BY <1>1 DEF outcome
<1>3. /\ Parts /\ n \in Nat /\ DOMAIN heap = 1..n /\ Len(symbol_table) \in Nat
      /\ Len(unclaimed_types_) \in Nat
  BY DataParts DEF PInv
<1>4. PICK m \in Situation :
        /\ m.stage \in {"written", "body"}
        /\ m.stage = "written" => definition = 0
        /\ \A items, x : (IsTuple(items) /\ Become(items) /\ Leads(items, x, m))
                           => Leads(expected', x, Start)
        /\ values' \in Seq(Value) /\ Fits(values', m.kinds) /\ t \in Type
        /\ unclaimed_types_' \in Seq(Type) /\ Len(unclaimed_types_') = m.open
        /\ Len(unclaimed_types_) = m.open + 1 /\ m.open \in Nat
        /\ new_function_definition_ = FALSE
        /\ m.stage = "body" =>
             /\ m.open >= 1 /\ m.kinds # <<>> /\ values'[1] = unclaimed_types_'[1]
             /\ unclaimed_types_'[1] = unclaimed_types_[1]
             /\ definition \in DOMAIN heap /\ heap[definition].type = unclaimed_types_[1]
             /\ definition \notin Elements(declarators)
  BY <1>1, DeclarationMet
<1> HIDE DEF t
<1>5. /\ declarators \in Seq(1..n) /\ IsTuple(declarators) /\ E \subseteq 1..n
      /\ \A i \in DOMAIN declarators : declarators[i] \in E
  <2> DEFINE S == 1..n
  <2>1. declarators \in Seq(S)
    BY <1>3 DEF Parts
  <2>2. IsTuple(declarators)
    <3> HIDE DEF S
    <3> QED
      BY <2>1, Tuples
  <2>3. \A i \in DOMAIN declarators : declarators[i] \in S
    <3> HIDE DEF S
    <3> QED
      BY <2>1, LenProperties, ElementOfSeq
  <2> QED
    BY <2>1, <2>2, <2>3 DEF Elements
<1>6. /\ GoodHeap(heap') /\ Len(heap') = n /\ DOMAIN heap' = 1..n
      /\ \A s : Typed(heap, s) => Typed(heap', s)
      /\ \A i \in 1..n : heap'[i].type = IF i \in E THEN t ELSE heap[i].type
  <2> HIDE DEF E
  <2>1. GoodHeap(heap)
    BY <1>3 DEF Parts
  <2> QED
    BY <1>1, <1>4, <2>1, TypesTaken DEF n
<1>7. GoodTables(symbol_table, heap') /\ GoodTable(table, heap')
  <2>1. GoodTables(symbol_table, heap')
    BY <1>3, <1>6, TablesKept DEF Parts
  <2>2. Len(symbol_table) \in DOMAIN symbol_table
    <3>1. symbol_table # <<>> /\ IsTuple(symbol_table)
      BY <2>1 DEF GoodTables
    <3> QED
      BY <1>3, <3>1, EmptySeq, LenProperties DEF IsTuple
  <2> QED
    BY <2>1, <2>2 DEF GoodTables, Last
<1> HIDE DEF table
<1>8. GoodTable(Added(table, declarators), heap')
  <2>1. ASSUME NEW i \in DOMAIN declarators
        PROVE  Typed(heap', declarators[i]) /\ heap[declarators[i]].name \in Names
    <3>1. declarators[i] \in E /\ declarators[i] \in 1..n
      BY <1>5
    <3>2. heap[declarators[i]] \in Object(n)
      BY <1>3, <3>1, ElementOfSeq DEF Parts, GoodHeap
    <3> QED
      BY <1>4, <1>6, <3>1, <3>2 DEF Typed, Object
  <2> DEFINE g == heap'
  <2>2. GoodTable(table, g) /\ \A i \in DOMAIN declarators :
          Typed(g, declarators[i]) /\ heap[declarators[i]].name \in Names
    BY <1>7, <2>1
  <2> HIDE DEF g
  <2>3. GoodTable(Added(table, declarators), g)
    BY <1>5, <2>2, AddedGood
  <2> QED
    BY <2>3 DEF g
<1>9. GoodTables(symbol_table', heap') /\ Len(symbol_table') = Len(symbol_table)
  BY <1>1, <1>7, <1>8, TableReplaced
<1>10. declarators' \in Seq(1..n) /\ Elements(declarators') \subseteq E
  <2>1. CASE Top.name = "global"
    BY <1>1, <1>5, <2>1
  <2>2. CASE Top.name # "global"
    <3>1. declarators' = <<>>
      BY <1>1, <2>2
    <3>2. Elements(<<>>) = {}
      BY ShortItems DEF Elements
    <3> QED
      BY <3>1, <3>2, EmptySeq
  <2> QED
    BY <2>1, <2>2
<1>11. Parts'
  <2>1. \A i \in Elements(parameters') : heap'[i].type \in Type
    <3>1. Elements(parameters') = Elements(parameters)
      BY <1>1
    <3>2. Elements(parameters) \subseteq 1..n
      BY <1>3, ListAppended DEF Parts, n
    <3> QED
      BY <1>3, <1>4, <1>6, <3>1, <3>2 DEF Parts
  <2> QED
    BY <1>1, <1>2, <1>3, <1>4, <1>6, <1>9, <1>10, <2>1 DEF Parts, n
<1>12. Matches(m)'
  <2>1. ASSUME m.stage = "body"
        PROVE  /\ definition' \in DOMAIN heap' /\ heap'[definition'].type = unclaimed_types_'[1]
               /\ definition' \notin Elements(declarators')
    <3>1. definition \in 1..n /\ definition \notin E
      BY <1>3, <1>4, <2>1
    <3> QED
      BY <1>1, <1>4, <1>6, <1>10, <2>1, <3>1
  <2> QED
    BY <1>1, <1>4, <2>1 DEF Matches, Inner
<1>13. /\ Len(unclaimed_types_') = Len(unclaimed_types_) - BalanceOf(Top)
       /\ Len(symbol_table') - Flag' = Len(symbol_table) - Flag - EndsOf(Top)
  <2>1. BalanceOf(Top) = 1 /\ EndsOf(Top) = 0
    BY <1>1 DEF BalanceOf, EndsOf, Claimers
  <2>2. Flag' = Flag /\ Flag \in Int
    BY <1>1 DEF Flag
  <2> QED
    BY <1>3, <1>4, <1>9, <2>1, <2>2
<1> QED
  BY <1>1, <1>2, <1>4, <1>11, <1>12, <1>13, Consumed

(* The tables around a function's own, in which its name is declared.          *)
Outer(f) ==
  IF is_visible(heap[f].name) THEN symbol_table
  ELSE WithLast(symbol_table, Added(Last(symbol_table), <<f>>))

LEMMA FunctionKeeps ==
  ASSUME PInv, ReduceDeclGlbFct
  PROVE  PInv'
<1> DEFINE n == Len(heap)
           f == last_function_
           args == heap[f].args
           table == Last(symbol_table)
<1>1. /\ Running /\ expected # <<>> /\ Top.k = "decl_glb_fct" /\ Become(<<>>)
      /\ symbol_table' = Append(Outer(f), Added(EmptyTable, args))
      /\ new_function_definition_' = TRUE
      /\ size' = size /\ values' = values /\ unclaimed_types_' = unclaimed_types_
      /\ last_function_' = last_function_ /\ heap' = heap /\ UNCHANGED <<lists, outcome>>
  BY DEF ReduceDeclGlbFct, At, Top, Outer, WithLast, Last
<1>2. /\ result' = result /\ exit' = exit /\ declarators' = declarators
      /\ parameters' = parameters /\ definition' = definition
  BY <1>1 DEF outcome, lists
<1>3. /\ Parts /\ n \in Nat /\ DOMAIN heap = 1..n /\ Len(symbol_table) \in Nat
      /\ DOMAIN symbol_table = 1..Len(symbol_table) /\ Len(unclaimed_types_) \in Nat
  BY DataParts DEF PInv
<1>4. PICK u, m \in Situation :
        /\ Matches(u) /\ Effect(Top, u, m)
        /\ \A items, x : (IsTuple(items) /\ Become(items) /\ Leads(items, x, m))
                           => Leads(expected', x, Start)
  BY <1>1, Facing
<1>5. u = Claimed("named") /\ m = Claimed("opened")
  <2> DEFINE it == Top
  <2>1. it.k = "decl_glb_fct" /\ Effect(it, u, m)
    BY <1>1, <1>4
  <2> HIDE DEF it
  <2> QED
    BY <2>1 DEF Effect, Passes, Works, Anywhere, InBody
<1>6. /\ u.stage = "named" /\ m.stage = "opened" /\ m.kinds = u.kinds /\ m.open = u.open
      /\ m.kinds = <<T>> /\ m.open = 1
  BY <1>5 DEF Claimed, Sit, T
<1>7. /\ Fits(values, m.kinds) /\ Len(unclaimed_types_) = m.open
      /\ new_function_definition_ = FALSE
      /\ m.kinds # <<>> /\ m.open >= 1 /\ values[1] = unclaimed_types_[1]
      /\ definition \in DOMAIN heap /\ heap[definition].type = unclaimed_types_[1]
      /\ definition \notin Elements(declarators) /\ f = definition
  BY <1>4, <1>6 DEF Matches, Inner
<1>8. unclaimed_types_[1] \in Type
  <2>1. 1 \in 1..Len(unclaimed_types_) /\ unclaimed_types_ \in Seq(Type)
    BY <1>3, <1>6, <1>7 DEF Parts
  <2> QED
    BY <2>1, ElementOfSeq
<1>9. /\ f \in 1..n /\ heap[f] \in Object(n) /\ Typed(heap, f)
  BY <1>3, <1>7, <1>8, ElementOfSeq DEF Parts, GoodHeap, Typed
<1>10. GoodTable(Added(EmptyTable, args), heap)
  <2>1. args \in Seq(1..n) /\ IsTuple(args)
    <3> DEFINE S == 1..n
    <3>1. args \in Seq(S)
      BY <1>9 DEF Object
    <3>2. IsTuple(args)
      <4> HIDE DEF S
      <4> QED
        BY <3>1, Tuples
    <3> QED
      BY <3>1, <3>2
  <2>2. ASSUME NEW i \in DOMAIN args
        PROVE  Typed(heap, args[i]) /\ heap[args[i]].name \in Names
    <3>1. args[i] \in 1..n
      BY <2>1, LenProperties, ElementOfSeq
    <3>2. heap[args[i]].type \in Type
      BY <1>3, <1>9 DEF Parts, GoodHeap
    <3>3. heap[args[i]] \in Object(n)
      BY <1>3, <3>1, ElementOfSeq DEF Parts, GoodHeap
    <3> QED
      BY <1>3, <3>1, <3>2, <3>3 DEF Typed, Object
  <2>3. DOMAIN EmptyTable = {}
    BY DEF EmptyTable
  <2>4. GoodTable(EmptyTable, heap)
    BY <2>3 DEF GoodTable
  <2> HIDE DEF args
  <2> QED
    BY <2>1, <2>2, <2>4, AddedGood
<1>11. GoodTables(Outer(f), heap) /\ Len(Outer(f)) = Len(symbol_table)
  <2>1. CASE is_visible(heap[f].name)
    BY <1>3, <2>1 DEF Outer, Parts
  <2>2. CASE ~is_visible(heap[f].name)
    <3> DEFINE l == <<f>>
    <3>1. IsTuple(l) /\ DOMAIN l = {1} /\ l[1] = f
      BY ShortTuples
    <3> HIDE DEF l
    <3>2. GoodTables(symbol_table, heap) /\ GoodTable(table, heap)
      <4>1. GoodTables(symbol_table, heap)
        BY <1>3 DEF Parts
      <4>2. Len(symbol_table) \in DOMAIN symbol_table
        <5>1. symbol_table # <<>> /\ IsTuple(symbol_table)
          BY <4>1 DEF GoodTables
        <5> QED
          BY <1>3, <5>1, EmptySeq, LenProperties DEF IsTuple
      <4> QED
        BY <4>1, <4>2 DEF GoodTables, Last
    <3> HIDE DEF table
    <3>3. GoodTable(Added(table, l), heap)
      <4>1. \A i \in DOMAIN l : Typed(heap, l[i]) /\ heap[l[i]].name \in Names
        BY <1>9, <3>1 DEF Object
      <4> QED
        BY <3>1, <3>2, <4>1, AddedGood
    <3>4. Outer(f) = WithLast(symbol_table, Added(table, l))
      BY <2>2 DEF Outer, table, l
    <3> QED
      BY <3>2, <3>3, <3>4, TableReplaced
  <2> QED
    BY <2>1, <2>2
<1>12. GoodTables(symbol_table', heap') /\ Len(symbol_table') = Len(symbol_table) + 1
  <2> DEFINE s == Outer(f)
             t == Added(EmptyTable, args)
  <2>1. GoodTables(s, heap) /\ GoodTable(t, heap) /\ symbol_table' = Append(s, t)
        /\ heap' = heap /\ Len(s) = Len(symbol_table)
    BY <1>1, <1>10, <1>11
  <2> HIDE DEF s, t
  <2>2. GoodTables(Append(s, t), heap) /\ Len(Append(s, t)) = Len(s) + 1
    BY <2>1, TableAppended
  <2> QED
    BY <2>1, <2>2
<1>13. Parts'
  <2>1. Elements(parameters') = Elements(parameters)
    BY <1>2
  <2> QED
    BY <1>1, <1>2, <1>3, <1>12, <2>1 DEF Parts
<1>14. Matches(m)'
  <2>1. Elements(declarators') = Elements(declarators)
    BY <1>2
  <2> QED
    BY <1>1, <1>2, <1>6, <1>7, <2>1 DEF Matches
<1>15. /\ Len(unclaimed_types_') = Len(unclaimed_types_) - BalanceOf(Top)
       /\ Len(symbol_table') - Flag' = Len(symbol_table) - Flag - EndsOf(Top)
  <2>1. BalanceOf(Top) = 0 /\ EndsOf(Top) = 0
    BY <1>1 DEF BalanceOf, EndsOf, Claimers
  <2>2. Flag' = 1 /\ Flag = 0
    BY <1>1, <1>7 DEF Flag
  <2> QED
    BY <1>1, <1>3, <1>12, <2>1, <2>2
<1> QED
  BY <1>1, <1>2, <1>4, <1>13, <1>14, <1>15, Consumed

LEMMA ParsingEnds ==
  ASSUME PInv, Running, UNCHANGED <<expected, size, values, lists, globals, scopes>>,
         result' \in {"accepted", "rejected"}, exit' = "zero"
  PROVE  PInv' /\ exit' # "internal_error"
<1>1. /\ expected' = expected /\ size' = size /\ values' = values
      /\ declarators' = declarators /\ parameters' = parameters /\ definition' = definition
      /\ unclaimed_types_' = unclaimed_types_ /\ last_function_' = last_function_
      /\ new_function_definition_' = new_function_definition_
      /\ heap' = heap /\ symbol_table' = symbol_table
  BY DEF lists, globals, scopes
<1>2. Parts
  BY DataParts DEF PInv
<1>3. Elements(parameters') = Elements(parameters)
  BY <1>1
<1>4. Parts'
  BY <1>1, <1>2, <1>3 DEF Parts
<1> QED
  BY <1>1, <1>4, Halts

LEMMA RejectKeeps ==
  ASSUME PInv, Running, Refuse
  PROVE  PInv' /\ exit' # "internal_error"
BY ParsingEnds DEF Refuse

LEMMA EndKeeps ==
  ASSUME PInv, EndOfInput
  PROVE  PInv' /\ exit' # "internal_error"
BY ParsingEnds DEF EndOfInput, At

LEMMA StutterKeeps ==
  ASSUME PInv, UNCHANGED vars
  PROVE  PInv'
<1>1. /\ expected' = expected /\ size' = size /\ values' = values
      /\ declarators' = declarators /\ parameters' = parameters /\ definition' = definition
      /\ unclaimed_types_' = unclaimed_types_ /\ last_function_' = last_function_
      /\ new_function_definition_' = new_function_definition_
      /\ heap' = heap /\ symbol_table' = symbol_table /\ result' = result /\ exit' = exit
  BY DEF vars, lists, globals, scopes, outcome
<1>2. Parts /\ IsSentence(expected)
  BY DataParts DEF PInv
<1>3. Elements(parameters') = Elements(parameters) /\ Elements(declarators') = Elements(declarators)
  BY <1>1
<1>4. Parts'
  BY <1>1, <1>2, <1>3 DEF Parts
<1>5. Data'
  <2>1. IsSentence(expected')
    BY <1>1, <1>2
  <2> QED
    BY <1>4, <2>1, PartsMake
<1>6. ASSUME NEW u \in Situation, Matches(u)
      PROVE  Matches(u)'
  BY <1>1, <1>3, <1>6 DEF Matches
<1>7. Running' => Situated'
  <2>1. ASSUME NEW u \in Situation, Leads(expected, u, Start)
        PROVE  Leads(expected', u, Start)
    BY <1>1, <2>1
  <2> QED
    BY <1>1, <1>6, <2>1 DEF PInv, Running, Situated
<1>8. TypesClaimed' /\ ScopesMatchBlocks'
  BY <1>1 DEF PInv, TypesClaimed, ScopesMatchBlocks, Running, Pending
<1> QED
  BY <1>1, <1>2, <1>5, <1>7, <1>8 DEF PInv

-----------------------------------------------------------------------------
(* The invariant holds at the beginning and every step keeps it.               *)

LEMMA BeginsRight ==
  ASSUME Init
  PROVE  PInv /\ NoInternalError
<1> DEFINE p == Item("program")
           e == <<EmptyTable>>
<1>1. /\ expected = <<p>> /\ size = 0 /\ values = <<>> /\ declarators = <<>>
      /\ parameters = <<>> /\ definition = 0 /\ unclaimed_types_ = <<>>
      /\ last_function_ = 0 /\ new_function_definition_ = FALSE /\ heap = <<>>
      /\ symbol_table = e /\ result = "pending" /\ exit = "running"
  BY DEF Init
<1>2. p.k = "program" /\ IsSymbol(p)
  BY Symbols
<1> HIDE DEF p
<1>3. IsSentence(expected)
  BY <1>1, <1>2, Sentences
<1>4. /\ Len(<<>>) = 0 /\ \A S : <<>> \in Seq(S)
      /\ DOMAIN <<>> = {} /\ Elements(<<>>) = {}
  BY EmptySeq, ShortItems DEF Elements
<1>5. /\ IsTuple(e) /\ e # <<>> /\ Len(e) = 1 /\ DOMAIN EmptyTable = {}
      /\ Elements(EmptyTable) = {} /\ \A i \in DOMAIN e : e[i] = EmptyTable
  <2>1. Len(e) = 1 /\ \A i \in DOMAIN e : e[i] = EmptyTable
    BY ShortItems
  <2>2. e # <<>>
    BY <1>4, <2>1
  <2>3. DOMAIN EmptyTable = {} /\ Elements(EmptyTable) = {}
    BY DEF EmptyTable, Elements
  <2> QED
    BY <2>1, <2>2, <2>3, ShortTuples
<1> HIDE DEF e
<1>6. TypeOK
  <2>1. \A i \in DOMAIN expected : DOMAIN expected[i] = {"k", "name", "n"}
    <3>1. ASSUME NEW it, IsSymbol(it)
          PROVE  DOMAIN it = {"k", "name", "n"}
      BY <3>1 DEF IsSymbol, Named
    <3> QED
      BY <1>3, <3>1 DEF IsSentence
  <2>2. size \in 0..MaxSize
    BY <1>1, BoundsAssumption
  <2>3. {last_function_, definition} \subseteq 0..Len(heap)
    BY <1>1, <1>4
  <2>4. /\ values \in Seq(Type \union Outcome) /\ unclaimed_types_ \in Seq(Type)
        /\ heap \in Seq([name : Names, type : Type \union {"none"}, function : BOOLEAN,
                         args : Seq(1..Len(heap)),
                         attributes : SUBSET {"GLOBAL", "EXTERN", "FUNCTION_PARAM"}])
    BY <1>1, <1>4
  <2>5. Elements(declarators) \union Elements(parameters) \subseteq DOMAIN heap
    BY <1>1, <1>4
  <2>6. /\ symbol_table # <<>>
        /\ \A i \in DOMAIN symbol_table :
             /\ DOMAIN symbol_table[i] \subseteq Names
             /\ Elements(symbol_table[i]) \subseteq DOMAIN heap
    BY <1>1, <1>5
  <2>7. /\ new_function_definition_ \in BOOLEAN
        /\ result \in {"pending", "accepted", "rejected"}
        /\ exit \in {"running", "zero", "crashed", "terminated", "internal_error"}
    BY <1>1
  <2> QED
    BY <2>1, <2>2, <2>3, <2>4, <2>5, <2>6, <2>7 DEF TypeOK
<1>7. Shaped
  BY <1>1, <1>4, <1>5 DEF Shaped
<1>8. HeapTyped
  <2>1. InTables = {} /\ Elements(parameters) = {} /\ DOMAIN heap = {}
    BY <1>1, <1>4, <1>5 DEF InTables
  <2> QED
    BY <2>1 DEF HeapTyped
<1>9. TypesClaimed /\ ScopesMatchBlocks
  <2>1. Balance(<<p>>) = 0 /\ Ends(<<p>>) = 0
    <3>1. BalanceOf(p) = 0 /\ EndsOf(p) = 0
      BY <1>2 DEF BalanceOf, EndsOf, Claimers
    <3> QED
      BY <3>1, BalanceShort
  <2>2. Balance(expected) = 0 /\ Ends(expected) = 0
    BY <1>1, <2>1
  <2> QED
    BY <1>1, <1>4, <1>5, <2>2, Counted
<1>10. Situated
  <2>1. Start \in Situation /\ Effect(p, Start, Start)
    BY <1>2, PassedTyped, ProgramEffect
  <2>2. Leads(<<p>>, Start, Start)
    BY <2>1, LeadsOne
  <2>3. Leads(expected, Start, Start)
    BY <1>1, <2>2
  <2>4. Start.stage = "outside" /\ Start.kinds = <<>> /\ Start.open = 0
    BY DEF Start, Sit
  <2>5. Fits(values, <<>>)
    BY <1>1, <1>4 DEF Fits
  <2>6. Matches(Start)
    BY <1>1, <1>4, <2>4, <2>5 DEF Matches, Inner
  <2> QED
    BY <2>1, <2>3, <2>6 DEF Situated
<1>11. exit # "internal_error"
  BY <1>1
<1> QED
  BY <1>3, <1>6, <1>7, <1>8, <1>9, <1>10, <1>11 DEF PInv, Data, NoInternalError

LEMMA DeclarationStepKeeps ==
  ASSUME PInv, NoInternalError, DeclarationStep
  PROVE  PInv' /\ NoInternalError'
<1>1. CASE \E extern \in 0..1 : ExpandDeclaration(extern)
  BY <1>1, DeclarationExpansions, Zenon DEF Quiet, ExpandDeclaration, outcome, NoInternalError
<1>2. CASE \E x \in Names : ExpandFunctionDefinition(x)
  BY <1>2, DeclarationExpansions, Zenon DEF Quiet, ExpandFunctionDefinition, outcome, NoInternalError
<1>3. CASE \E t \in Type : TypeSpecifier(t)
  BY <1>3, TypeKeeps, Zenon DEF TypeSpecifier, outcome, NoInternalError
<1>4. CASE \E x \in Names : Declarator(x) \/ ExpandFunctionDeclarator(x)
  <2>1. PICK x \in Names : Declarator(x) \/ ExpandFunctionDeclarator(x)
    BY <1>4
  <2>2. CASE Declarator(x)
    BY <2>2, DeclaratorKeeps, Zenon DEF Declarator, outcome, NoInternalError
  <2>3. CASE ExpandFunctionDeclarator(x)
    BY <2>3, DeclarationExpansions, Zenon
       DEF Quiet, ExpandFunctionDeclarator, outcome, NoInternalError
  <2> QED
    BY <2>1, <2>2, <2>3
<1>5. CASE \E more \in BOOLEAN : DeclaratorList(more) \/ ParameterList(more)
  <2>1. PICK more \in BOOLEAN : DeclaratorList(more) \/ ParameterList(more)
    BY <1>5
  <2>2. CASE DeclaratorList(more)
    BY <2>2, DeclarationExpansions, Zenon DEF Quiet, DeclaratorList, outcome, NoInternalError
  <2>3. CASE ParameterList(more)
    BY <2>3, DeclarationExpansions, Zenon DEF Quiet, ParameterList, outcome, NoInternalError
  <2> QED
    BY <2>1, <2>2, <2>3
<1>6. CASE \E x \in Names : ParameterDeclaration(x)
  BY <1>6, ParameterKeeps, Zenon DEF ParameterDeclaration, outcome, NoInternalError
<1>7. CASE FunctionDeclarator
  BY <1>7, FunctionDeclaratorKeeps, Zenon DEF FunctionDeclarator, outcome, NoInternalError
<1>8. CASE ReduceDeclaration
  BY <1>8, DeclarationKeeps, Zenon DEF ReduceDeclaration, outcome, NoInternalError
<1>9. CASE RejectDeclaration
  BY <1>9, RejectKeeps DEF RejectDeclaration, Reject, At, NoInternalError
<1>10. CASE ReduceExternalDeclaration
  BY <1>10, ExternalDeclarationKeeps, Zenon
     DEF ReduceExternalDeclaration, outcome, NoInternalError
<1>11. CASE ReduceDeclGlbFct
  BY <1>11, FunctionKeeps, Zenon DEF ReduceDeclGlbFct, outcome, NoInternalError
<1>12. CASE RejectDeclGlbFct
  BY <1>12, RejectKeeps DEF RejectDeclGlbFct, At, NoInternalError
<1>13. CASE ReduceFunctionDefinition
  BY <1>13, FunctionDefinitionKeeps DEF NoInternalError
<1> QED
  BY <1>1, <1>2, <1>3, <1>4, <1>5, <1>6, <1>7, <1>8, <1>9, <1>10, <1>11, <1>12, <1>13
     DEF DeclarationStep

LEMMA InstructionStepKeeps ==
  ASSUME PInv, NoInternalError, InstructionStep
  PROVE  PInv' /\ NoInternalError'
<1>1. CASE BlockStart
  BY <1>1, BlockStartKeeps, Zenon DEF BlockStart, outcome, NoInternalError
<1>2. CASE BlockEnd
  BY <1>2, BlockEndKeeps, Zenon DEF BlockEnd, outcome, NoInternalError
<1>3. CASE AppendInstruction
  BY <1>3, AppendKeeps, Zenon DEF AppendInstruction, outcome, NoInternalError
<1>4. CASE \E more \in BOOLEAN : DeclarationList(more) \/ InstructionList(more)
  <2>1. PICK more \in BOOLEAN : DeclarationList(more) \/ InstructionList(more)
    BY <1>4
  <2>2. CASE DeclarationList(more)
    BY <2>2, BodyExpansions, Zenon DEF Quiet, DeclarationList, outcome, NoInternalError
  <2>3. CASE InstructionList(more)
    BY <2>3, BodyExpansions, Zenon DEF Quiet, InstructionList, outcome, NoInternalError
  <2> QED
    BY <2>1, <2>2, <2>3
<1>5. CASE EmptyInstruction
  BY <1>5, ValuesPushed, Zenon DEF EmptyInstruction, outcome, NoInternalError
<1>6. CASE ExpandInstruction
  <2>1. UNCHANGED outcome
    BY <1>6, Zenon DEF ExpandInstruction, Expand
  <2> QED
    BY <1>6, <2>1, InstructionExpansions, Zenon DEF Quiet, outcome, NoInternalError
<1>7. CASE ReduceInstruction
  <2>1. UNCHANGED outcome
    BY <1>7, Zenon DEF ReduceInstruction, Make
  <2> QED
    BY <1>7, <2>1, InstructionsKeep, Zenon DEF outcome, NoInternalError
<1>8. CASE \E ordering \in 0..1 : ExpandCondition(ordering)
  BY <1>8, BodyExpansions, Zenon DEF Quiet, ExpandCondition, Expand, outcome, NoInternalError
<1>9. CASE ReduceCondition
  BY <1>9, OperatorsKeep, Zenon DEF ReduceCondition, Make, outcome, NoInternalError
<1>10. CASE ReduceAssignment
  BY <1>10, BodyExpansions, Zenon DEF Quiet, ReduceAssignment, outcome, NoInternalError
<1>11. CASE RejectAssignment
  BY <1>11, RejectKeeps DEF RejectAssignment, Reject, At, NoInternalError
<1> QED
  BY <1>1, <1>2, <1>3, <1>4, <1>5, <1>6, <1>7, <1>8, <1>9, <1>10, <1>11 DEF InstructionStep

LEMMA ExpressionStepKeeps ==
  ASSUME PInv, NoInternalError, ExpressionStep
  PROVE  PInv' /\ NoInternalError'
<1>1. CASE \E t \in Type : Constant(t)
  BY <1>1, ValuesPushed, Zenon DEF Constant, Push, outcome, NoInternalError
<1>2. CASE \E x \in Names : Identifier(x) \/ RejectIdentifier(x)
  <2>1. PICK x \in Names : Identifier(x) \/ RejectIdentifier(x)
    BY <1>2
  <2>2. CASE Identifier(x)
    BY <2>2, ValuesPushed, Zenon DEF Identifier, Push, outcome, NoInternalError
  <2>3. CASE RejectIdentifier(x)
    BY <2>3, RejectKeeps DEF RejectIdentifier, Reject, At, NoInternalError
  <2> QED
    BY <2>1, <2>2, <2>3
<1>3. CASE ExpandExpression
  <2>1. UNCHANGED outcome
    BY <1>3, Zenon DEF ExpandExpression, Expand
  <2> QED
    BY <1>3, <2>1, ExpressionExpansions, Zenon DEF Quiet, outcome, NoInternalError
<1>4. CASE ReduceOperator
  BY <1>4, OperatorsKeep, Zenon DEF ReduceOperator, Make, outcome, NoInternalError
<1>5. CASE RejectOperator
  BY <1>5, RejectKeeps DEF RejectOperator, Reject, At, NoInternalError
<1>6. CASE ReduceCall
  BY <1>6, CallKeeps, Zenon DEF ReduceCall, outcome, NoInternalError
<1>7. CASE RejectCall
  BY <1>7, RejectKeeps DEF RejectCall, Reject, At, NoInternalError
<1> QED
  BY <1>1, <1>2, <1>3, <1>4, <1>5, <1>6, <1>7 DEF ExpressionStep

LEMMA StepKeeps ==
  ASSUME PInv, NoInternalError, [Next]_vars
  PROVE  PInv' /\ NoInternalError'
<1>1. ASSUME UNCHANGED vars
      PROVE  PInv' /\ NoInternalError'
  <2>1. exit' = exit
    BY <1>1 DEF vars, outcome
  <2> QED
    BY <1>1, <2>1, StutterKeeps DEF NoInternalError
<1>2. CASE DeclarationStep
  BY <1>2, DeclarationStepKeeps
<1>3. CASE InstructionStep
  BY <1>3, InstructionStepKeeps
<1>4. CASE ExpressionStep
  BY <1>4, ExpressionStepKeeps
<1>5. CASE EndOfInput
  BY <1>5, EndKeeps DEF NoInternalError
<1>6. CASE SyntaxError
  BY <1>6, RejectKeeps DEF SyntaxError, Reject, NoInternalError
<1>7. CASE Stopped
  BY <1>1, <1>7 DEF Stopped
<1> QED
  BY <1>1, <1>2, <1>3, <1>4, <1>5, <1>6, <1>7 DEF Next

LEMMA Parsing == Spec => [](PInv /\ NoInternalError)
<1>1. Init => PInv /\ NoInternalError
  BY BeginsRight
<1>2. PInv /\ NoInternalError /\ [Next]_vars => (PInv /\ NoInternalError)'
  BY StepKeeps
<1> QED
  BY <1>1, <1>2, PTL DEF Spec

(* The parser's variables keep their types, whatever it parses.               *)
THEOREM ParserTypeCorrect == Spec => []TypeOK
<1>1. PInv => TypeOK
  BY DEF PInv, Data
<1> QED
  BY <1>1, Parsing, PTL

(* The one global stack of unclaimed types (parser.hpp, type_specifier in       *)
(* parser.yy) serves declarations, parameters and function definitions that lie *)
(* within one another, and never gives one of them another's type.             *)
THEOREM TypesAlwaysClaimed == Spec => []TypesClaimed
<1>1. PInv => TypesClaimed
  BY DEF PInv
<1> QED
  BY <1>1, Parsing, PTL

(* Whatever the blocks and functions of a program, its tables are one for the   *)
(* program, one for each open block, and one for a function whose block has not *)
(* begun (block_start and block_end in parser.yy).                             *)
THEOREM ScopesAlwaysMatchBlocks == Spec => []ScopesMatchBlocks
<1>1. PInv => ScopesMatchBlocks
  BY DEF PInv
<1> QED
  BY <1>1, Parsing, PTL

(* The type_ that Symbol's constructor leaves unset is assigned before a symbol *)
(* can be looked up, and so are those of a function's parameters.              *)
THEOREM SymbolsAlwaysTyped == Spec => []SymbolsTyped
<1>1. ASSUME PInv
      PROVE  SymbolsTyped
  <2>1. TypeOK /\ HeapTyped
    BY <1>1 DEF PInv, Data
  <2>2. ASSUME NEW i \in DOMAIN symbol_table, NEW s \in Elements(symbol_table[i])
        PROVE  heap[s].type \in Type /\ Elements(ArgTypes(s)) \subseteq Type
    <3>1. s \in InTables /\ s \in DOMAIN heap
      BY <2>1, <2>2 DEF InTables, TypeOK
    <3>2. ASSUME NEW t \in Elements(ArgTypes(s))
          PROVE  t \in Type
      <4>1. PICK j \in DOMAIN heap[s].args : t = heap[heap[s].args[j]].type
        BY <3>2 DEF Elements, ArgTypes
      <4> QED
        BY <2>1, <3>1, <4>1 DEF HeapTyped
    <3> QED
      BY <2>1, <3>1, <3>2 DEF HeapTyped
  <2> QED
    BY <2>2 DEF SymbolsTyped
<1> QED
  BY <1>1, Parsing, PTL

(* The "INTERNAL ERROR" of function_definition (parser.yy:205) is unreachable.  *)
THEOREM InternalErrorUnreachable == Spec => []NoInternalError
BY Parsing, PTL
=============================================================================
