------------------------------- MODULE MCScanner -------------------------------
(***************************************************************************)
(* Instances of Scanner for TLC: every short text.                           *)
(***************************************************************************)
EXTENDS Scanner

CONSTANT MaxLength  (* bound: characters of a text                           *)

ShortTexts == UNION {[1..n -> Characters] : n \in 0..MaxLength}
=============================================================================
