--------------------------------- MODULE Heap ---------------------------------
(***************************************************************************)
(* The contract of malloc and free that the string functions of              *)
(* src/string_lib.ll rely on: a block is new when it is allocated, nothing    *)
(* but a block is freed, and that once at most.                              *)
(***************************************************************************)
EXTENDS Naturals

VARIABLES
  frees,   (* block |-> how often it was freed, for every block so far       *)
  strays   (* frees of what is no block                                      *)

Init == DOMAIN frees = {} /\ strays = 0

Allocate ==
  /\ \E b \in DOMAIN frees' :
       /\ b \notin DOMAIN frees
       /\ frees' = [x \in DOMAIN frees \union {b} |-> IF x = b THEN 0 ELSE frees[x]]
  /\ UNCHANGED strays

Free(B) ==
  /\ \A b \in B : frees[b] = 0
  /\ frees' = [x \in DOMAIN frees |-> IF x \in B THEN 1 ELSE frees[x]]
  /\ UNCHANGED strays

Next == Allocate \/ \E B \in SUBSET DOMAIN frees : Free(B)

Spec == Init /\ [][Next]_<<frees, strays>>
=============================================================================
