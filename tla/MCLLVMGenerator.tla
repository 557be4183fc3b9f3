--------------------------- MODULE MCLLVMGenerator ---------------------------
(***************************************************************************)
(* Instances of LLVMGenerator for TLC: small programs with a global, a      *)
(* parameter and local variables.                                           *)
(***************************************************************************)
EXTENDS LLVMGenerator

CONSTANTS g, p, a, b

(* Every symbol has a name of its own, and none is a name the generator uses. *)
DistinctNames == [s \in Symbols |-> CASE s = g -> "g" [] s = p -> "p"
                                      [] s = a -> "a" [] OTHER -> "b"]

(* The locals a and b have one name: one may shadow the other.                *)
ShadowingNames == [s \in Symbols |-> CASE s = g -> "g" [] s = p -> "p"
                                       [] OTHER -> "a"]

MixedTypes == [s \in Symbols |-> IF s \in {g, b} THEN "int" ELSE "string"]
IntTypes   == [s \in Symbols |-> "int"]

NoParams  == {<<>>}
OneParam  == {<<>>, <<p>>}
=============================================================================
