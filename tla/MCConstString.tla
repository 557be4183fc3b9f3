----------------------------- MODULE MCConstString -----------------------------
(***************************************************************************)
(* Instances of ConstString for TLC: all strings up to a length.             *)
(***************************************************************************)
EXTENDS ConstString

CONSTANT MaxLength  (* bound: characters of a string                         *)

ShortStrings == UNION {[1..n -> Characters] : n \in 0..MaxLength}
=============================================================================
