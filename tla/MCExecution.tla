----------------------------- MODULE MCExecution -----------------------------
(***************************************************************************)
(* Instances of Execution for TLC: the programs of MCLLVMGenerator, run.     *)
(***************************************************************************)
EXTENDS Execution, MCLLVMGenerator

(* The global and the parameter are strings.                                 *)
StringTypes == [s \in Symbols |-> "string"]
=============================================================================
