----------------------------- MODULE StackTheorems -----------------------------
(***************************************************************************)
(* Lemmas about the stacks of the models, sequences whose first entry is    *)
(* the next: the generator's todo and the parser's expected.  A step takes  *)
(* the first entry away and puts others, none perhaps, in its place.        *)
(***************************************************************************)
EXTENDS Integers, Sequences, FiniteSets, SequenceTheorems, FunctionTheorems,
        FiniteSetTheorems, TLAPS

(* The stack after its first entry has been replaced by others.              *)
LEMMA FirstReplaced ==
  ASSUME NEW S, NEW s \in Seq(S), s # <<>>, NEW items \in Seq(S)
  PROVE  /\ items \o Tail(s) \in Seq(S)
         /\ Len(items \o Tail(s)) = Len(items) + Len(s) - 1
         /\ \A i \in 1..Len(items) : (items \o Tail(s))[i] = items[i]
         /\ \A i \in Len(items) + 1..Len(items) + Len(s) - 1 :
              /\ i - Len(items) + 1 \in 2..Len(s)
              /\ (items \o Tail(s))[i] = s[i - Len(items) + 1]
<1>1. /\ Tail(s) \in Seq(S) /\ Len(Tail(s)) = Len(s) - 1
      /\ \A i \in 1..Len(Tail(s)) : Tail(s)[i] = s[i + 1]
  BY HeadTailProperties, Zenon
<1>2. /\ items \o Tail(s) \in Seq(S)
      /\ Len(items \o Tail(s)) = Len(items) + Len(Tail(s))
      /\ \A i \in 1..Len(items) + Len(Tail(s)) : (items \o Tail(s))[i] =
           IF i <= Len(items) THEN items[i] ELSE Tail(s)[i - Len(items)]
  BY <1>1, ConcatProperties, Zenon
<1>3. Len(items) \in Nat /\ Len(s) \in Nat /\ Len(s) > 0
  BY EmptySeq, LenProperties
<1>4. \A i \in 1..Len(items) : (items \o Tail(s))[i] = items[i]
  BY <1>1, <1>2, <1>3
<1>5. ASSUME NEW i \in Len(items) + 1..Len(items) + Len(s) - 1
      PROVE  /\ i - Len(items) + 1 \in 2..Len(s)
             /\ (items \o Tail(s))[i] = s[i - Len(items) + 1]
  <2>1. i - Len(items) \in 1..Len(Tail(s)) /\ i \in 1..Len(items) + Len(Tail(s))
    BY <1>1, <1>3
  <2>2. (items \o Tail(s))[i] = Tail(s)[i - Len(items)]
    BY <1>2, <1>3, <2>1
  <2> QED
    BY <1>1, <1>3, <2>1, <2>2
<1> QED
  BY <1>1, <1>2, <1>3, <1>4, <1>5

(* A finite sequence, whatever is in it.                                     *)
IsTuple(s) == s \in Seq({s[i] : i \in DOMAIN s})

LEMMA Tuples ==
  ASSUME NEW S, NEW s \in Seq(S)
  PROVE  IsTuple(s)
<1>1. Len(s) \in Nat /\ DOMAIN s = 1..Len(s) /\ s = [i \in 1..Len(s) |-> s[i]]
  BY LenProperties
<1>2. s \in [1..Len(s) -> {s[i] : i \in DOMAIN s}]
  BY <1>1
<1> QED
  BY <1>1, <1>2, SeqDef DEF IsTuple

LEMMA ShortTuples ==
  /\ IsTuple(<<>>)
  /\ \A a : IsTuple(<<a>>)
  /\ \A a, b : IsTuple(<<a, b>>)
  /\ \A a, b, c : IsTuple(<<a, b, c>>)
<1>1. <<>> \in Seq({})
  BY EmptySeq
<1>2. ASSUME NEW a, NEW b, NEW c
      PROVE  <<a>> \in Seq({a}) /\ <<a, b>> \in Seq({a, b}) /\ <<a, b, c>> \in Seq({a, b, c})
  OBVIOUS
<1> QED
  BY <1>1, <1>2, Tuples

LEMMA ShortItems ==
  /\ DOMAIN <<>> = {}
  /\ \A a : \A i \in DOMAIN <<a>> : <<a>>[i] = a
  /\ \A a, b : \A i \in DOMAIN <<a, b>> : <<a, b>>[i] = a \/ <<a, b>>[i] = b
OBVIOUS

(* u is s followed by t.                                                     *)
IsJoined(s, t, u) ==
  /\ IsTuple(u)
  /\ Len(s) \in Nat /\ DOMAIN s = 1..Len(s) /\ Len(t) \in Nat /\ DOMAIN t = 1..Len(t)
  /\ Len(u) = Len(s) + Len(t) /\ DOMAIN u = 1..Len(s) + Len(t)
  /\ \A i \in DOMAIN s : u[i] = s[i]
  /\ \A i \in DOMAIN t : u[Len(s) + i] = t[i]
  /\ \A i \in DOMAIN u :
       \/ i \in DOMAIN s /\ u[i] = s[i]
       \/ i > Len(s) /\ i - Len(s) \in DOMAIN t /\ u[i] = t[i - Len(s)]

LEMMA Joined ==
  ASSUME NEW s, NEW t, IsTuple(s), IsTuple(t)
  PROVE  IsJoined(s, t, s \o t)
<1> DEFINE A == {s[i] : i \in DOMAIN s}
           B == {t[i] : i \in DOMAIN t}
           C == A \union B
<1>1. s \in Seq(A) /\ t \in Seq(B)
  BY DEF IsTuple
<1> HIDE DEF A, B
<1>2. s \in Seq(C) /\ t \in Seq(C)
  BY <1>1, SeqMonotonic
<1> HIDE DEF C
<1>3. /\ Len(s) \in Nat /\ DOMAIN s = 1..Len(s) /\ Len(t) \in Nat /\ DOMAIN t = 1..Len(t)
  BY <1>2, LenProperties
<1>4. /\ s \o t \in Seq(C) /\ Len(s \o t) = Len(s) + Len(t)
      /\ \A i \in 1..Len(s) + Len(t) : (s \o t)[i] =
           IF i <= Len(s) THEN s[i] ELSE t[i - Len(s)]
  BY <1>2, ConcatProperties, Zenon
<1>5. DOMAIN (s \o t) = 1..Len(s) + Len(t)
  BY <1>4, LenProperties
<1>6. IsTuple(s \o t)
  BY <1>4, Tuples
<1>7. \A i \in DOMAIN s : (s \o t)[i] = s[i]
  BY <1>3, <1>4
<1>8. \A i \in DOMAIN t : (s \o t)[Len(s) + i] = t[i]
  <2> SUFFICES ASSUME NEW i \in 1..Len(t)
               PROVE  (s \o t)[Len(s) + i] = t[i]
    BY <1>3
  <2>1. /\ Len(s) + i \in 1..Len(s) + Len(t) /\ ~(Len(s) + i <= Len(s))
        /\ (Len(s) + i) - Len(s) = i
    BY <1>3
  <2> QED
    BY <1>4, <2>1
<1>9. ASSUME NEW i \in 1..Len(s) + Len(t)
      PROVE  \/ i \in DOMAIN s /\ (s \o t)[i] = s[i]
             \/ /\ i > Len(s) /\ i - Len(s) \in DOMAIN t
                /\ (s \o t)[i] = t[i - Len(s)]
  <2>1. CASE i <= Len(s)
    BY <1>3, <1>4, <2>1
  <2>2. CASE i > Len(s)
    <3>1. i - Len(s) \in 1..Len(t) /\ ~(i <= Len(s))
      BY <1>3, <2>2
    <3> QED
      BY <1>3, <1>4, <2>2, <3>1
  <2> QED
    BY <1>3, <2>1, <2>2
<1> QED
  BY <1>3, <1>4, <1>5, <1>6, <1>7, <1>8, <1>9 DEF IsJoined

(* t is s with its first entry replaced by items.                            *)
IsReplaced(s, items, t) ==
  /\ IsTuple(t) /\ Len(s) \in Nat /\ Len(s) > 0 /\ Len(items) \in Nat
  /\ DOMAIN s = 1..Len(s) /\ DOMAIN items = 1..Len(items)
  /\ Len(t) = Len(items) + Len(s) - 1
  /\ DOMAIN t = 1..Len(items) + Len(s) - 1
  /\ Head(s) = s[1]
  /\ \A i \in DOMAIN items : i \in DOMAIN t /\ t[i] = items[i]
  /\ \A i \in 2..Len(s) :
       /\ i + Len(items) - 1 \in DOMAIN t /\ i + Len(items) - 1 > Len(items)
       /\ t[i + Len(items) - 1] = s[i]
  /\ \A i \in DOMAIN t :
       \/ i \in DOMAIN items /\ t[i] = items[i]
       \/ /\ i > Len(items) /\ i - Len(items) + 1 \in 2..Len(s)
          /\ t[i] = s[i - Len(items) + 1]

LEMMA Replaced ==
  ASSUME NEW s, NEW items, IsTuple(s), IsTuple(items), s # <<>>
  PROVE  IsReplaced(s, items, items \o Tail(s))
<1> DEFINE A == {s[i] : i \in DOMAIN s} \union {items[i] : i \in DOMAIN items}
           t == items \o Tail(s)
           old(i) == i - Len(items) + 1
<1>1. s \in Seq(A) /\ items \in Seq(A)
  BY SeqMonotonic DEF IsTuple
<1> HIDE DEF A
<1>2. /\ Len(s) \in Nat /\ Len(s) > 0 /\ Len(items) \in Nat
      /\ DOMAIN s = 1..Len(s) /\ DOMAIN items = 1..Len(items) /\ Head(s) = s[1]
  BY <1>1, EmptySeq, LenProperties
<1>3. /\ t \in Seq(A) /\ Len(t) = Len(items) + Len(s) - 1
      /\ \A i \in 1..Len(items) : t[i] = items[i]
      /\ \A i \in Len(items) + 1..Len(items) + Len(s) - 1 :
           old(i) \in 2..Len(s) /\ t[i] = s[old(i)]
  BY <1>1, FirstReplaced
<1>4. DOMAIN t = 1..Len(items) + Len(s) - 1
  BY <1>3, LenProperties
<1>5. IsTuple(t)
  BY <1>3, Tuples
<1> HIDE DEF t
<1>6. ASSUME NEW i \in 2..Len(s)
      PROVE  /\ i + Len(items) - 1 \in DOMAIN t /\ i + Len(items) - 1 > Len(items)
             /\ t[i + Len(items) - 1] = s[i]
  <2>1. /\ i + Len(items) - 1 \in Len(items) + 1..Len(items) + Len(s) - 1
        /\ i + Len(items) - 1 \in 1..Len(items) + Len(s) - 1
        /\ i + Len(items) - 1 > Len(items)
        /\ old(i + Len(items) - 1) = i
    BY <1>2
  <2> HIDE DEF old
  <2> QED
    BY <1>3, <1>4, <2>1
<1>7. ASSUME NEW i \in DOMAIN t
      PROVE  \/ i \in DOMAIN items /\ t[i] = items[i]
             \/ i > Len(items) /\ old(i) \in 2..Len(s) /\ t[i] = s[old(i)]
  <2>1. CASE i \in 1..Len(items)
    BY <1>2, <1>3, <2>1
  <2>2. CASE i \in Len(items) + 1..Len(items) + Len(s) - 1
    <3>1. old(i) \in 2..Len(s) /\ t[i] = s[old(i)]
      BY <1>3, <2>2
    <3>2. i > Len(items)
      BY <1>2, <2>2
    <3> HIDE DEF old
    <3> QED
      BY <3>1, <3>2
  <2> QED
    BY <1>2, <1>4, <2>1, <2>2
<1>8. \A i \in DOMAIN items : i \in DOMAIN t /\ t[i] = items[i]
  BY <1>2, <1>3, <1>4
<1> QED
  BY <1>2, <1>3, <1>4, <1>5, <1>6, <1>7, <1>8 DEF t, IsReplaced

LEMMA SameInterval ==
  ASSUME NEW a \in Nat, NEW b \in Nat, 1..a = 1..b
  PROVE  a = b
<1>1. a >= 1 => a <= b
  <2>1. a >= 1 => a \in 1..a
    OBVIOUS
  <2> QED
    BY <2>1
<1>2. b >= 1 => b <= a
  <2>1. b >= 1 => b \in 1..b
    OBVIOUS
  <2> QED
    BY <2>1
<1> QED
  BY <1>1, <1>2

-----------------------------------------------------------------------------
(* How many entries of a stack are of some kind.                             *)

Count(s, K) == Cardinality({i \in DOMAIN s : s[i] \in K})

LEMMA CountTyped ==
  ASSUME NEW S, NEW s \in Seq(S), NEW K
  PROVE  /\ IsFiniteSet({i \in DOMAIN s : s[i] \in K})
         /\ Count(s, K) \in Nat
<1> DEFINE I == {i \in DOMAIN s : s[i] \in K}
<1>1. DOMAIN s = 1..Len(s) /\ Len(s) \in Nat
  BY LenProperties
<1>2. IsFiniteSet(1..Len(s))
  BY <1>1, FS_Interval
<1>3. I \in SUBSET (1..Len(s))
  BY <1>1
<1>4. IsFiniteSet(I)
  BY <1>2, <1>3, FS_Subset
<1>5. Cardinality(I) \in Nat
  BY <1>4, FS_CardinalityType
<1> QED
  BY <1>4, <1>5 DEF Count

LEMMA CountNone ==
  ASSUME NEW S, NEW s \in Seq(S), NEW K, \A i \in DOMAIN s : s[i] \notin K
  PROVE  Count(s, K) = 0
<1>1. {i \in DOMAIN s : s[i] \in K} = {}
  OBVIOUS
<1> QED
  BY <1>1, FS_EmptySet DEF Count

LEMMA CountOne ==
  ASSUME NEW S, NEW s \in Seq(S), NEW K, NEW p \in DOMAIN s,
         \A i \in DOMAIN s : s[i] \in K <=> i = p
  PROVE  Count(s, K) = 1
<1>1. {i \in DOMAIN s : s[i] \in K} = {p}
  OBVIOUS
<1> QED
  BY <1>1, FS_Singleton DEF Count

(* An entry that is there counts.                                            *)
LEMMA CountSome ==
  ASSUME NEW S, NEW s \in Seq(S), NEW K, NEW p \in DOMAIN s, s[p] \in K
  PROVE  Count(s, K) >= 1
<1> DEFINE I == {i \in DOMAIN s : s[i] \in K}
<1>1. IsFiniteSet(I) /\ Cardinality(I) \in Nat
  BY CountTyped DEF Count
<1>2. p \in I
  OBVIOUS
<1>3. Cardinality(I) # 0
  BY <1>1, <1>2, FS_EmptySet
<1> QED
  BY <1>1, <1>3 DEF Count

(* Replacing the first entry: the others are counted where they are now.      *)
LEMMA CountReplaced ==
  ASSUME NEW S, NEW s \in Seq(S), s # <<>>, NEW items \in Seq(S), NEW K
  PROVE  Count(items \o Tail(s), K) + (IF s[1] \in K THEN 1 ELSE 0)
           = Count(items, K) + Count(s, K)
<1> DEFINE t == items \o Tail(s)
           old == {i \in DOMAIN s : s[i] \in K}
           rest == old \ {1}
           new == {i \in DOMAIN items : items[i] \in K}
           moved == {i \in DOMAIN t : t[i] \in K} \ (1..Len(items))
           back == [i \in rest |-> i + Len(items) - 1]
<1>1. /\ Len(s) \in Nat /\ Len(s) > 0 /\ Len(items) \in Nat
      /\ DOMAIN s = 1..Len(s) /\ DOMAIN items = 1..Len(items)
  BY EmptySeq, LenProperties
<1>2. /\ t \in Seq(S) /\ Len(t) = Len(items) + Len(s) - 1
      /\ \A i \in 1..Len(items) : t[i] = items[i]
      /\ \A i \in Len(items) + 1..Len(items) + Len(s) - 1 :
           t[i] = s[i - Len(items) + 1]
  BY FirstReplaced
<1>3. DOMAIN t = 1..Len(items) + Len(s) - 1
  BY <1>2, LenProperties
<1> HIDE DEF t
<1>4. {i \in DOMAIN t : t[i] \in K} = new \union moved /\ new \intersect moved = {}
  BY <1>1, <1>2, <1>3
<1>5. IsFiniteSet(old) /\ IsFiniteSet(new)
  BY CountTyped
<1>6. /\ IsFiniteSet(rest) /\ Cardinality(old) \in Nat
      /\ Cardinality(rest) = IF 1 \in old THEN Cardinality(old) - 1 ELSE Cardinality(old)
  BY <1>5, FS_RemoveElement, FS_CardinalityType
<1>7. back \in Bijection(rest, moved)
  <2>1. \A i \in rest : i \in 2..Len(s) /\ s[i] \in K
    BY <1>1
  <2>2. \A i \in rest : back[i] \in moved
    <3> SUFFICES ASSUME NEW i \in rest
                 PROVE  i + Len(items) - 1 \in moved
      OBVIOUS
    <3>1. /\ i + Len(items) - 1 \in Len(items) + 1..Len(items) + Len(s) - 1
          /\ (i + Len(items) - 1) - Len(items) + 1 = i
      BY <1>1, <2>1
    <3>2. t[i + Len(items) - 1] = s[i]
      BY <1>2, <3>1
    <3> QED
      BY <1>1, <1>3, <2>1, <3>1, <3>2
  <2>3. \A i, j \in rest : back[i] = back[j] => i = j
    BY <1>1, <2>1
  <2>4. \A k \in moved : \E i \in rest : back[i] = k
    <3> SUFFICES ASSUME NEW k \in moved
                 PROVE  \E i \in rest : back[i] = k
      OBVIOUS
    <3>1. k \in Len(items) + 1..Len(items) + Len(s) - 1 /\ t[k] \in K
      BY <1>1, <1>3
    <3>2. k - Len(items) + 1 \in 2..Len(s) /\ s[k - Len(items) + 1] \in K
      <4>1. k - Len(items) + 1 \in 2..Len(s)
        BY <1>1, <3>1
      <4>2. t[k] = s[k - Len(items) + 1]
        BY <1>2, <3>1
      <4> QED
        BY <3>1, <4>1, <4>2
    <3>3. k - Len(items) + 1 \in rest
      BY <1>1, <3>2
    <3>4. back[k - Len(items) + 1] = k
      BY <1>1, <3>1, <3>3, SMTT(30)
    <3> QED
      BY <3>3, <3>4
  <2>5. back \in [rest -> moved]
    BY <2>2
  <2> QED
    BY <2>3, <2>4, <2>5, Fun_IsBij
<1>8. IsFiniteSet(moved) /\ Cardinality(moved) = Cardinality(rest)
  BY <1>6, <1>7, FS_Bijection, Fun_ExistsBij
<1>9. Cardinality(new \union moved) = Cardinality(new) + Cardinality(moved)
  <2>1. Cardinality({}) = 0
    BY FS_EmptySet
  <2>2. Cardinality(new) \in Nat /\ Cardinality(moved) \in Nat
    BY <1>5, <1>8, FS_CardinalityType
  <2> HIDE DEF new, moved
  <2>3. Cardinality(new \union moved)
          = Cardinality(new) + Cardinality(moved) - Cardinality(new \intersect moved)
    BY <1>5, <1>8, FS_Union
  <2>4. Cardinality(new \intersect moved) = 0
    BY <1>4, <2>1, Zenon
  <2> QED
    BY <2>2, <2>3, <2>4
<1>10. 1 \in old <=> s[1] \in K
  BY <1>1
<1>11. Cardinality(new) \in Nat
  BY <1>5, FS_CardinalityType
<1>12. Count(t, K) = Cardinality(new \union moved) /\ Count(s, K) = Cardinality(old)
       /\ Count(items, K) = Cardinality(new)
  BY <1>4 DEF Count
<1> HIDE DEF new, moved, old, rest
<1> QED
  BY <1>6, <1>8, <1>9, <1>10, <1>11, <1>12 DEF t
=============================================================================
