----------------------------- MODULE LexicalScope -----------------------------
(***************************************************************************)
(* What the symbol tables promise the parser: lexical scoping.  Every open   *)
(* block sees a complete environment, a meaning for every name; entering a   *)
(* block starts from the environment around it, leaving a block restores it, *)
(* and a block gives a name a meaning of its own once at most.               *)
(*                                                                          *)
(* The tables of src/symbol_table.cpp have no environments: they are a chain *)
(* of partial maps, searched from the innermost outwards.  Module Parser     *)
(* maps that chain to this specification.                                    *)
(***************************************************************************)
EXTENDS Naturals, Sequences

CONSTANTS
  Names,     (* identifiers                                                  *)
  Unbound    (* the meaning of a name that nothing visible declares          *)

VARIABLES
  env,       (* the environment of each open block, outermost first          *)
  own        (* the names each of them has declared itself                   *)

vars == <<env, own>>

Depth == Len(env)

(* f differs from e by new meanings for the names in D.                      *)
Rebinds(e, D, f) ==
  \A x \in Names :
    IF x \in D THEN f[x] \notin {Unbound, e[x]} ELSE f[x] = e[x]

(* The current block declares D, which changes no environment around it.     *)
DeclaredHere(D) ==
  /\ D \intersect own[Depth] = {}
  /\ own'[Depth] = own[Depth] \union D
  /\ Rebinds(env[Depth], D, env'[Depth])
  /\ \A k \in 1..Depth - 1 : env'[k] = env[k] /\ own'[k] = own[k]

Init ==
  /\ env = <<[x \in Names |-> Unbound]>>
  /\ own = <<{}>>

Declare(D) ==
  /\ Len(env') = Depth /\ Len(own') = Depth
  /\ DeclaredHere(D)

(* A block opens with declarations P: the parameters, if it is a function's,  *)
(* whose own name D is declared in the block around it.                       *)
Enter(D, P) ==
  /\ Len(env') = Depth + 1 /\ Len(own') = Depth + 1
  /\ DeclaredHere(D)
  /\ own'[Depth + 1] = P
  /\ Rebinds(env'[Depth], P, env'[Depth + 1])

Leave ==
  /\ Depth > 1
  /\ env' = SubSeq(env, 1, Depth - 1)
  /\ own' = SubSeq(own, 1, Depth - 1)

Next ==
  \/ \E D \in SUBSET Names : Declare(D)
  \/ \E D, P \in SUBSET Names : Enter(D, P)
  \/ Leave

Spec == Init /\ [][Next]_vars
=============================================================================
