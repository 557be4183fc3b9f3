--------------------------- MODULE ConstString_proofs ---------------------------
(***************************************************************************)
(* For strings of every length: the two lengths of a constant differ by the   *)
(* backslashes that begin no escape.                                         *)
(*                                                                          *)
(* Each loop counts a set of places, and a step of it adds to the set at most *)
(* the place it stands on.  That a loop that may take two characters at a      *)
(* time never skips the beginning of an escape follows from the letters of the *)
(* escapes: none is a backslash.                                             *)
(***************************************************************************)
EXTENDS ConstString, FiniteSetTheorems, TLAPS

Measured(n) == size = Len(value) - Cardinality(Backslashes(n))
Written(n) == str_size = n - Cardinality(Begun(n))

(* The inductive invariant: what each loop has counted so far.                *)
IInv ==
  /\ TypeOK
  /\ phase = "measuring" => Measured(i) /\ str_size = 0
  /\ phase # "measuring" => Measured(Len(value)) /\ Written(i)
  /\ phase = "written" => i = Len(value)

-----------------------------------------------------------------------------
(* The sets counted are finite, and empty before the first character.        *)
LEMMA CountsFinite ==
  ASSUME NEW n \in Nat
  PROVE  /\ IsFiniteSet(Backslashes(n)) /\ IsFiniteSet(Begun(n))
         /\ Cardinality(Backslashes(n)) \in Nat /\ Cardinality(Begun(n)) \in Nat
<1>1. IsFiniteSet(1..n)
  BY FS_Interval
<1>2. Backslashes(n) \in SUBSET (1..n) /\ Begun(n) \in SUBSET (1..n)
  BY DEF Backslashes, Begun
<1>3. IsFiniteSet(Backslashes(n)) /\ IsFiniteSet(Begun(n))
  BY <1>1, <1>2, FS_Subset
<1> QED
  BY <1>3, FS_CardinalityType

LEMMA CountsStart ==
  Cardinality(Backslashes(0)) = 0 /\ Cardinality(Begun(0)) = 0
<1>1. Backslashes(0) = {} /\ Begun(0) = {}
  BY DEF Backslashes, Begun
<1> QED
  BY <1>1, FS_EmptySet

(* One place more: the count grows by one if the place belongs to the set.    *)
LEMMA OneBackslashMore ==
  ASSUME NEW n \in Nat
  PROVE  Cardinality(Backslashes(n + 1)) =
           Cardinality(Backslashes(n)) + (IF value[n + 1] = Backslash THEN 1 ELSE 0)
<1>1. n + 1 \notin Backslashes(n) /\ IsFiniteSet(Backslashes(n))
  BY CountsFinite DEF Backslashes
<1>2. CASE value[n + 1] = Backslash
  <2>1. Backslashes(n + 1) = Backslashes(n) \cup {n + 1}
    BY <1>2 DEF Backslashes
  <2> QED
    BY <2>1, <1>1, <1>2, FS_AddElement
<1>3. CASE value[n + 1] # Backslash
  <2>1. Backslashes(n + 1) = Backslashes(n)
    BY <1>3 DEF Backslashes
  <2> QED
    BY <2>1, <1>3, CountsFinite
<1> QED
  BY <1>2, <1>3

LEMMA OneBegunMore ==
  ASSUME NEW n \in Nat
  PROVE  Cardinality(Begun(n + 1)) =
           Cardinality(Begun(n)) + (IF Recognised(n + 1) THEN 1 ELSE 0)
<1>1. n + 1 \notin Begun(n) /\ IsFiniteSet(Begun(n))
  BY CountsFinite DEF Begun
<1>2. CASE Recognised(n + 1)
  <2>1. Begun(n + 1) = Begun(n) \cup {n + 1}
    BY <1>2 DEF Begun
  <2> QED
    BY <2>1, <1>1, <1>2, FS_AddElement
<1>3. CASE ~Recognised(n + 1)
  <2>1. Begun(n + 1) = Begun(n)
    BY <1>3 DEF Begun
  <2> QED
    BY <2>1, <1>3, CountsFinite
<1> QED
  BY <1>2, <1>3

(* The letter of an escape begins no escape.                                 *)
LEMMA LetterBeginsNone ==
  ASSUME NEW n, Recognised(n)
  PROVE  ~Recognised(n + 1)
BY DEF Recognised, Escapes, Backslash

-----------------------------------------------------------------------------
LEMMA InitIInv == Init => IInv
<1> SUFFICES ASSUME Init PROVE IInv
  OBVIOUS
<1>1. value \in Seq(Characters) /\ Len(value) \in Nat
  BY StringsAssumption DEF Init
<1>2. Measured(i)
  BY <1>1, CountsStart DEF Init, Measured
<1> QED
  BY <1>1, <1>2 DEF Init, IInv, TypeOK

LEMMA MeasureKeeps ==
  ASSUME IInv, Measure PROVE IInv'
<1>1. i \in Nat /\ Len(value) \in Nat /\ size \in Int /\ i + 1 <= Len(value)
  BY DEF IInv, TypeOK, Measure, More
<1>2. TypeOK'
  BY <1>1 DEF IInv, TypeOK, Measure
<1>3. size = Len(value) - Cardinality(Backslashes(i))
  BY DEF IInv, Measured, Measure
<1>4. size' = Len(value) - Cardinality(Backslashes(i + 1))
  <2>1. size' = size - (IF value[i + 1] = Backslash THEN 1 ELSE 0)
    BY DEF Measure, Char
  <2>2. Cardinality(Backslashes(i)) \in Nat
    BY <1>1, CountsFinite
  <2>3. Cardinality(Backslashes(i + 1)) =
          Cardinality(Backslashes(i)) + (IF value[i + 1] = Backslash THEN 1 ELSE 0)
    BY <1>1, OneBackslashMore
  <2> QED
    BY <2>1, <2>2, <2>3, <1>1, <1>3
<1>5. i' = i + 1 /\ value' = value /\ phase' = "measuring" /\ str_size' = 0
  BY DEF Measure, IInv
<1>6. Backslashes(i + 1) = Backslashes(i)'
  BY <1>5 DEF Backslashes
<1> QED
  BY <1>2, <1>4, <1>5, <1>6 DEF IInv, Measured

LEMMA WriteAddressKeeps ==
  ASSUME IInv, WriteAddress PROVE IInv'
<1>1. i = Len(value) /\ Len(value) \in Nat
  BY DEF IInv, TypeOK, WriteAddress, More
<1>2. TypeOK'
  BY <1>1 DEF IInv, TypeOK, WriteAddress
<1>3. phase' = "writing" /\ i' = 0 /\ value' = value /\ size' = size /\ str_size' = 0
  BY DEF IInv, WriteAddress
<1>4. Measured(Len(value))'
  <2>1. Measured(Len(value))
    BY <1>1 DEF IInv, WriteAddress
  <2> QED
    BY <2>1, <1>3 DEF Measured, Backslashes
<1>5. Written(i)'
  <2>1. Begun(0) = Begun(i)'
    BY <1>3 DEF Begun, Recognised
  <2> QED
    BY <2>1, <1>3, CountsStart DEF Written
<1> QED
  BY <1>2, <1>3, <1>4, <1>5 DEF IInv

(* A character that begins no escape, and an escape: each adds one to the      *)
(* length and the right places to what is counted.                           *)
LEMMA WriteKeeps ==
  ASSUME IInv, phase = "writing", NEW k \in {1, 2}, NEW symbols,
         i + k <= Len(value), Write(k, symbols),
         Cardinality(Begun(i + k)) = Cardinality(Begun(i)) + k - 1
  PROVE  IInv'
<1>1. i \in Nat /\ Len(value) \in Nat /\ str_size \in Nat /\ i + k \in Nat
  BY DEF IInv, TypeOK
<1>2. /\ i' = i + k /\ str_size' = str_size + 1
      /\ value' = value /\ phase' = "writing" /\ size' = size
  BY DEF Write
<1>3. TypeOK'
  BY <1>1, <1>2 DEF IInv, TypeOK
<1>4. Measured(Len(value))'
  BY <1>2 DEF IInv, Measured, Backslashes
<1>5. Written(i)'
  <2>1. Cardinality(Begun(i)) \in Nat
    BY <1>1, CountsFinite
  <2>2. str_size = i - Cardinality(Begun(i))
    BY DEF IInv, Written
  <2>3. str_size' = i + k - Cardinality(Begun(i + k))
    BY <1>1, <1>2, <2>1, <2>2
  <2>4. Begun(i)' = {j \in 1..i' : Recognised(j)'}
    BY DEF Begun
  <2>5. Begun(i + k) = Begun(i)'
    BY <1>2, <2>4 DEF Begun, Recognised
  <2>6. str_size' = i' - Cardinality(Begun(i + k))
    <3>1. Cardinality(Begun(i + k)) \in Nat
      BY <1>1, CountsFinite
    <3> QED
      BY <1>1, <1>2, <2>3, <3>1
  <2>7. Cardinality(Begun(i + k)) = Cardinality(Begun(i)')
    BY <2>5
  <2> QED
    BY <2>6, <2>7 DEF Written
<1> QED
  BY <1>2, <1>3, <1>4, <1>5 DEF IInv

LEMMA WriteOneKeeps ==
  ASSUME IInv, WriteControl \/ WriteOther PROVE IInv'
<1>1. i \in Nat /\ i + 1 <= Len(value) /\ phase = "writing"
  BY DEF IInv, TypeOK, WriteControl, WriteOther, More
<1>2. ~Recognised(i + 1)
  BY DEF WriteControl, WriteOther, Recognised, Char, Control, Backslash
<1>3. PICK symbols : Write(1, symbols)
  BY DEF WriteControl, WriteOther
<1>4. Cardinality(Begun(i + 1)) = Cardinality(Begun(i)) + 1 - 1
  BY <1>1, <1>2, OneBegunMore, CountsFinite
<1> QED
  BY <1>1, <1>3, <1>4, WriteKeeps

LEMMA WriteEscapeKeeps ==
  ASSUME IInv, WriteEscape PROVE IInv'
<1>1. i \in Nat /\ i + 1 \in Nat /\ phase = "writing" /\ Recognised(i + 1)
  BY DEF IInv, TypeOK, WriteEscape
<1>2. i + 2 <= Len(value)
  BY <1>1 DEF Recognised, IInv, TypeOK
<1>3. PICK symbols : Write(2, symbols)
  BY DEF WriteEscape
<1>4. ~Recognised(i + 2)
  <2>1. ~Recognised((i + 1) + 1)
    BY <1>1, LetterBeginsNone
  <2>2. (i + 1) + 1 = i + 2
    BY <1>1
  <2> QED
    BY <2>1, <2>2
<1>5. Cardinality(Begun(i + 1)) = Cardinality(Begun(i)) + 1
  BY <1>1, OneBegunMore
<1>6. Cardinality(Begun((i + 1) + 1)) = Cardinality(Begun(i + 1))
  <2>1. (i + 1) + 1 = i + 2
    BY <1>1
  <2>2. Cardinality(Begun((i + 1) + 1)) =
          Cardinality(Begun(i + 1)) + (IF Recognised((i + 1) + 1) THEN 1 ELSE 0)
    BY <1>1, OneBegunMore
  <2>3. Cardinality(Begun(i + 1)) \in Nat
    BY <1>1, CountsFinite
  <2> QED
    BY <2>1, <2>2, <2>3, <1>4
<1>7. Cardinality(Begun(i + 2)) = Cardinality(Begun(i)) + 2 - 1
  <2>1. (i + 1) + 1 = i + 2 /\ Cardinality(Begun(i)) \in Nat
    BY <1>1, CountsFinite
  <2> QED
    BY <2>1, <1>5, <1>6
<1> QED
  BY <1>1, <1>2, <1>3, <1>7, WriteKeeps

LEMMA WriteDefinitionKeeps ==
  ASSUME IInv, WriteDefinition PROVE IInv'
<1>1. i = Len(value) /\ phase' = "written"
  BY DEF IInv, TypeOK, WriteDefinition, More
<1>2. UNCHANGED <<value, i, size, str_size>>
  BY DEF WriteDefinition
<1> QED
  BY <1>1, <1>2 DEF IInv, TypeOK, WriteDefinition, Measured, Written, Backslashes,
                    Begun, Recognised

LEMMA NextIInv == IInv /\ [Next]_vars => IInv'
<1> SUFFICES ASSUME IInv, [Next]_vars PROVE IInv'
  OBVIOUS
<1>1. CASE Measure
  BY <1>1, MeasureKeeps
<1>2. CASE WriteAddress
  BY <1>2, WriteAddressKeeps
<1>3. CASE WriteControl \/ WriteOther
  BY <1>3, WriteOneKeeps
<1>4. CASE WriteEscape
  BY <1>4, WriteEscapeKeeps
<1>5. CASE WriteDefinition
  BY <1>5, WriteDefinitionKeeps
<1>6. CASE UNCHANGED vars
  BY <1>6 DEF vars, IInv, TypeOK, Measured, Written, Backslashes, Begun, Recognised
<1> QED
  BY <1>1, <1>2, <1>3, <1>4, <1>5, <1>6 DEF Next, Stopped

-----------------------------------------------------------------------------
(* The backslashes are those that begin an escape and the others.             *)
LEMMA BackslashesSplit ==
  ASSUME NEW n \in Nat
  PROVE  Cardinality(Backslashes(n)) = Cardinality(Begun(n)) + Cardinality(Lone(n))
<1>1. IsFiniteSet(Backslashes(n)) /\ IsFiniteSet(Begun(n))
  BY CountsFinite
<1>2. Begun(n) \subseteq Backslashes(n)
  BY DEF Begun, Backslashes, Recognised
<1>3. Lone(n) = Backslashes(n) \ Begun(n)
  BY DEF Lone
<1>4. Lone(n) \cap Begun(n) = {} /\ Backslashes(n) = Lone(n) \cup Begun(n)
  BY <1>2, <1>3
<1>5. IsFiniteSet(Lone(n))
  BY <1>1, <1>3, FS_Subset
<1>6. Cardinality(Lone(n)) \in Nat /\ Cardinality(Begun(n)) \in Nat
  BY <1>1, <1>5, FS_CardinalityType
<1> QED
  BY <1>1, <1>4, <1>5, <1>6, FS_Union, FS_EmptySet

(* LengthsDifferByLoneBackslashes holds: for every constant, whatever its       *)
(* length, visit(Const_String) and visit(Function_Definition) write lengths    *)
(* that differ by the backslashes that begin no escape.                       *)
THEOREM LengthsAlwaysDifferSo == Spec => []LengthsDifferByLoneBackslashes
<1>1. IInv => LengthsDifferByLoneBackslashes
  <2> SUFFICES ASSUME IInv, phase = "written"
               PROVE  str_size = size + Cardinality(Lone(Len(value)))
    BY DEF LengthsDifferByLoneBackslashes
  <2>1. Len(value) \in Nat
    BY DEF IInv, TypeOK
  <2>2. size = Len(value) - Cardinality(Backslashes(Len(value)))
    BY DEF IInv, Measured
  <2>3. str_size = Len(value) - Cardinality(Begun(Len(value)))
    BY DEF IInv, Written
  <2>4. Cardinality(Backslashes(Len(value))) =
          Cardinality(Begun(Len(value))) + Cardinality(Lone(Len(value)))
    BY <2>1, BackslashesSplit
  <2>5. /\ Cardinality(Begun(Len(value))) \in Nat
        /\ Cardinality(Backslashes(Len(value))) \in Nat
    BY <2>1, CountsFinite
  <2>6. IsFiniteSet(Lone(Len(value)))
    BY <2>1, CountsFinite, FS_Subset DEF Lone
  <2>7. Cardinality(Lone(Len(value))) \in Nat
    BY <2>6, FS_CardinalityType
  <2> QED
    BY <2>1, <2>2, <2>3, <2>4, <2>5, <2>7
<1> QED
  BY <1>1, InitIInv, NextIInv, PTL DEF Spec
=============================================================================
