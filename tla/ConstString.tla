------------------------------ MODULE ConstString ------------------------------
(***************************************************************************)
(* The two lengths of a string constant.  visit(Const_String) of src/llvm.cpp *)
(* writes one where it takes the constant's address, the end of               *)
(* visit(Function_Definition) computes another when it writes the text, and    *)
(* LLVM reads that text.  The three must agree for the output to be valid.     *)
(*                                                                          *)
(* A string is a sequence of characters; "0" and "a" stand for all that are    *)
(* digits of a hexadecimal number, "n" for the letters of the escapes.         *)
(***************************************************************************)
EXTENDS Integers, Sequences, FiniteSets

CONSTANT Strings  (* the values of Const_String that are tried               *)

Characters == {"\\", "0", "n", "a", "x", "\n"}

ASSUME StringsAssumption == Strings \subseteq Seq(Characters)

Backslash == "\\"
Control == {"\n"}         (* std::iscntrl                                    *)
Escapes == {"0", "n"}     (* the cases of the switch                         *)
HexDigits == {"0", "a"}

VARIABLES
  value,     (* node->value()                                                *)
  phase,     (* what is being done                                           *)
  i,         (* characters of value done                                     *)
  size,      (* the length that is written with the address                  *)
  str_size,  (* the length that is written with the text                     *)
  text       (* str_builder                                                  *)

vars == <<value, phase, i, size, str_size, text>>

Char == value[i + 1]
More == i < Len(value)

(* A backslash followed by the letter of an escape.                           *)
Recognised(k) ==
  value[k] = Backslash /\ k < Len(value) /\ value[k + 1] \in Escapes

(* The places of backslashes, of those that begin an escape and the others.   *)
Backslashes(n) == {k \in 1..n : value[k] = Backslash}
Begun(n) == {k \in 1..n : Recognised(k)}
Lone(n) == Backslashes(n) \ Begun(n)

-----------------------------------------------------------------------------
Init ==
  /\ value \in Strings
  /\ phase = "measuring" /\ i = 0
  /\ size = Len(value) /\ str_size = 0 /\ text = <<>>

(* The loop of visit(Const_String).  Mutant: an escaped backslash is two.      *)
MeasureBegun ==
  /\ phase = "measuring" /\ More
  /\ size' = size - (IF Recognised(i + 1) THEN 1 ELSE 0)
  /\ i' = i + 1
  /\ UNCHANGED <<value, phase, str_size, text>>

Measure ==
  /\ phase = "measuring" /\ More
  /\ size' = size - (IF Char = Backslash THEN 1 ELSE 0)
  /\ i' = i + 1
  /\ UNCHANGED <<value, phase, str_size, text>>

WriteAddress ==
  /\ phase = "measuring" /\ ~More
  /\ phase' = "writing" /\ i' = 0
  /\ UNCHANGED <<value, size, str_size, text>>

(* The loop of visit(Function_Definition): k characters are written as one.   *)
Write(k, symbols) ==
  /\ i' = i + k
  /\ text' = text \o symbols
  /\ str_size' = str_size + 1
  /\ UNCHANGED <<value, phase, size>>

(* Mutant: a control character is written with one digit.                    *)
WriteControlShort ==
  /\ phase = "writing" /\ More /\ Char \in Control
  /\ Write(1, <<Backslash, "a">>)

WriteControl ==
  /\ phase = "writing" /\ More /\ Char \in Control
  /\ Write(1, <<Backslash, "0", "a">>)

WriteEscape ==
  /\ phase = "writing" /\ More /\ Recognised(i + 1)
  /\ Write(2, <<Backslash, "0", IF value[i + 2] = "0" THEN "0" ELSE "a">>)

WriteOther ==
  /\ phase = "writing" /\ More /\ Char \notin Control /\ ~Recognised(i + 1)
  /\ Write(1, <<Char>>)

WriteDefinition ==
  /\ phase = "writing" /\ ~More
  /\ phase' = "written"
  /\ text' = text \o <<Backslash, "0", "0">>
  /\ UNCHANGED <<value, i, size, str_size>>

Stopped == phase = "written" /\ UNCHANGED vars

Next ==
  \/ Measure \/ WriteAddress
  \/ WriteControl \/ WriteEscape \/ WriteOther \/ WriteDefinition
  \/ Stopped

Spec == Init /\ [][Next]_vars

-----------------------------------------------------------------------------
(* How LLVM reads the text: a backslash with a backslash or two hexadecimal    *)
(* digits behind it is one byte with them.                                    *)
Bytes(s) ==
  LET starts(k, d) == /\ k + d <= Len(s) /\ s[k] = Backslash
                      /\ \/ d = 1 /\ s[k + 1] = Backslash
                         \/ d = 2 /\ {s[k + 1], s[k + 2]} \subseteq HexDigits
      from[k \in 1..Len(s) + 1] ==
        IF k > Len(s) THEN 0
        ELSE 1 + from[CASE starts(k, 1) -> k + 2
                        [] starts(k, 2) -> k + 3
                        [] OTHER        -> k + 1]
  IN  from[1]

-----------------------------------------------------------------------------
TypeOK ==
  /\ value \in Seq(Characters)
  /\ phase \in {"measuring", "writing", "written"}
  /\ i \in 0..Len(value)
  /\ size \in Int /\ str_size \in Nat

(* The two lengths differ by the backslashes that begin no escape: they agree  *)
(* exactly when there is none, a backslash before a backslash included.        *)
LengthsDifferByLoneBackslashes ==
  phase = "written" => str_size = size + Cardinality(Lone(Len(value)))

(* LLVM reads the bytes that both lengths announce, and the null, unless a     *)
(* backslash was alone.                                                      *)
TextHasItsLength ==
  (phase = "written" /\ Lone(Len(value)) = {}) => Bytes(text) = size + 1
=============================================================================
