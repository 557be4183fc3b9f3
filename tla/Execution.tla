------------------------------- MODULE Execution -------------------------------
(***************************************************************************)
(* A machine that runs the functions LLVMGenerator has written: the program   *)
(* compiled by src/llvm.cpp and linked with the string functions of           *)
(* src/string_lib.ll.                                                        *)
(*                                                                          *)
(* When the generator has finished, somebody calls the functions of out, one  *)
(* after another, and they call each other and themselves: an activation has  *)
(* registers and local variables of its own, and shares the globals and the   *)
(* heap with all others.  Integers and conditions have no value: a            *)
(* conditional branch goes either way.  A pointer is a constant of the        *)
(* program or something its environment keeps, null, or a block of the heap.  *)
(***************************************************************************)
EXTENDS LLVMGenerator

CONSTANTS
  MaxActivations,  (* bound: calls of functions made                         *)
  MaxBlocks,       (* bound: blocks allocated by a behaviour                 *)
  LoopExits        (* bound: the labels that fairness speaks of              *)

ASSUME ExecutionAssumption ==
  MaxActivations \in Nat /\ MaxBlocks \in Nat /\ LoopExits \subseteq Nat

VARIABLES
  pc,           (* the line of out to execute next, 0 between activations    *)
  activations,  (* begun so far; an activation is known by its number        *)
  current,      (* the activation that runs                                  *)
  frames,       (* those that wait for the one they called, innermost last   *)
  registers,    (* of the current activation: register |-> value             *)
  memory,       (* address |-> value                                         *)
  blocks,       (* the heap: per block, who made it, who freed it, how often *)
  strays,       (* frees of what is no block of the heap                     *)
  fault         (* why the program could not go on                           *)

activation == <<activations, current, frames>>
machine == <<pc, activation, registers, memory, blocks, strays, fault>>
all == <<vars, machine>>

-----------------------------------------------------------------------------
(* Values.                                                                   *)

Value(kind, n) == [kind |-> kind, block |-> n]
Foreign  == Value("foreign", 0)  (* an integer, a constant, an argument      *)
Garbage  == Value("garbage", 0)  (* null, or never stored to                 *)
Block(n) == Value("block", n)

IsFreed(v) == v.kind = "block" /\ blocks[v.block].frees > 0
Dangling(v) == v = Garbage \/ IsFreed(v)

Defined(r) == r = Literal \/ r \in DOMAIN registers
ValueOf(r) == IF r = Literal THEN Foreign ELSE registers[r]

(* Globals are nobody's; every activation has an alloca of its own.           *)
Address(r) == <<IF r.sub = "@" THEN 0 ELSE current, r>>
Contents(a) == IF a \in DOMAIN memory THEN memory[a] ELSE Garbage

-----------------------------------------------------------------------------
(* The line to execute.  A value it uses must be there, and where a string    *)
(* function follows a pointer, the pointer must lead somewhere.               *)

NoFault == [kind |-> "none", line |-> 0, block |-> 0]
Running == pc # 0 /\ fault = NoFault
Ln == out[pc]

PointerOps == {"concat", "equal", "copy"}
CallOps == {"call i32", "call i8*"}
RetOps == {"ret i32", "ret i8*"}
Bad(r) == ~Defined(r) \/ (Ln.op \in PointerOps /\ Dangling(ValueOf(r)))

Fetched(ops) ==
  /\ Running /\ Ln.op \in ops
  /\ \A r \in Ln.use : ~Bad(r)

Operand == ValueOf(CHOOSE r \in Ln.use : TRUE)
Sets(r, v) == registers' = With(registers, r, v)
NextLine == pc' = pc + 1
LineOf(l) == CHOOSE i \in Lines : out[i].op = "label" /\ out[i].to = {l}

-----------------------------------------------------------------------------
ExecuteAlloca ==
  /\ Fetched({"alloca"}) /\ NextLine
  /\ memory' = With(memory, Address(Ln.def), Garbage)
  /\ UNCHANGED <<vars, activation, registers, blocks, strays, fault>>

ExecuteStore ==
  /\ Fetched({"store"}) /\ NextLine
  /\ memory' = With(memory, Address(Ln.mem), Operand)
  /\ UNCHANGED <<vars, activation, registers, blocks, strays, fault>>

ExecuteLoad ==
  /\ Fetched({"load"}) /\ NextLine
  /\ Sets(Ln.def, Contents(Address(Ln.mem)))
  /\ UNCHANGED <<vars, activation, memory, blocks, strays, fault>>

(* Lines whose result is an integer, a condition or a constant.               *)
ExecuteValue ==
  /\ Fetched({"gep", "sub", "arith", "icmp", "equal"}) /\ NextLine
  /\ Sets(Ln.def, Foreign)
  /\ UNCHANGED <<vars, activation, memory, blocks, strays, fault>>

(* __string_concat__ and __string_copy__: a block of malloc, always.          *)
ExecuteAllocation ==
  /\ Fetched({"concat", "copy"}) /\ NextLine /\ Len(blocks) < MaxBlocks
  /\ blocks' = Append(blocks, [by |-> current, freedBy |-> 0, frees |-> 0])
  /\ Sets(Ln.def, Block(Len(blocks')))
  /\ UNCHANGED <<vars, activation, memory, strays, fault>>

(* __string_free__, once per register of the line.                           *)
Holding(n) == {r \in Ln.use : ValueOf(r) = Block(n)}

ExecuteFree ==
  /\ Fetched({"free"}) /\ NextLine
  /\ blocks' = [n \in DOMAIN blocks |->
                  IF Holding(n) = {} THEN blocks[n]
                  ELSE [blocks[n] EXCEPT !.frees = @ + Cardinality(Holding(n)),
                                         !.freedBy = current]]
  /\ strays' = strays + Cardinality({r \in Ln.use : ValueOf(r).kind # "block"})
  /\ UNCHANGED <<vars, activation, registers, memory, fault>>

ExecuteLabel ==
  /\ Fetched({"label"}) /\ NextLine
  /\ UNCHANGED <<vars, activation, registers, memory, blocks, strays, fault>>

JumpTo(l) ==
  /\ Fetched({"br", "cbr"}) /\ l \in Ln.to
  /\ pc' = LineOf(l)
  /\ UNCHANGED <<vars, activation, registers, memory, blocks, strays, fault>>

-----------------------------------------------------------------------------
(* Activations begin and end.                                                *)

(* The head at line i is entered, with values for its parameters.             *)
Enter(i, values) ==
  /\ activations < MaxActivations
  /\ activations' = activations + 1 /\ current' = activations'
  /\ pc' = i + 1
  /\ registers' \in [out[i].use -> values]
  /\ UNCHANGED <<vars, memory, blocks, strays, fault>>

(* A call names a function of its type, by what that returns.  Which of the    *)
(* arguments goes to which parameter is left open.                            *)
ReturnsOf(f) == {out[i].op : i \in {k \in Lines : out[k].fn = f}} \intersect RetOps

Callee(i) ==
  /\ out[i].op = "define"
  /\ out[i].use = {} <=> Ln.use = {}
  /\ ReturnsOf(out[i].fn) \subseteq
       IF Ln.op = "call i32" THEN {"ret i32"} ELSE {"ret i8*"}

ExecuteCall ==
  /\ Fetched(CallOps)
  /\ \E i \in Lines : Callee(i) /\ Enter(i, {ValueOf(r) : r \in Ln.use})
  /\ frames' = Append(frames, [pc |-> pc, number |-> current, registers |-> registers])

(* A function of another file: what it returns is no block of this heap, and   *)
(* it may store to the globals.                                              *)
ForeignStores(A) ==
  memory' = [a \in DOMAIN memory \union A |-> IF a \in A THEN Foreign ELSE memory[a]]

ExecuteForeignCall(A) ==
  /\ Fetched(CallOps) /\ NextLine
  /\ ForeignStores(A)
  /\ Sets(Ln.def, Foreign)
  /\ UNCHANGED <<vars, activation, blocks, strays, fault>>

(* The registers and the variables of the activation end with it; its caller  *)
(* goes on behind the call, if it has one.                                   *)
Leave ==
  /\ Fetched(RetOps)
  /\ memory' = [a \in {x \in DOMAIN memory : x[1] # current} |-> memory[a]]
  /\ UNCHANGED <<vars, activations, blocks, strays, fault>>

ReturnToCaller ==
  /\ Leave /\ frames # <<>>
  /\ LET caller == frames[Len(frames)]
     IN  /\ pc' = caller.pc + 1
         /\ current' = caller.number
         /\ registers' = With(caller.registers, out[caller.pc].def, Operand)
  /\ frames' = SubSeq(frames, 1, Len(frames) - 1)

ReturnOutside ==
  /\ Leave /\ frames = <<>>
  /\ pc' = 0 /\ current' = 0
  /\ registers' = [r \in {} |-> Foreign]
  /\ UNCHANGED frames

(* The program is not valid, or does not survive: a register was never set, a *)
(* pointer leads nowhere, or a block ends without a terminator.               *)
Trap ==
  /\ Running
  /\ \/ \E r \in Ln.use :
          /\ Bad(r)
          /\ fault' = [kind |-> IF Defined(r) THEN "dangling" ELSE "undefined",
                       line |-> pc,
                       block |-> IF Defined(r) THEN ValueOf(r).block ELSE 0]
     \/ Ln.op = "end" /\ fault' = [NoFault EXCEPT !.kind = "no return", !.line = pc]
  /\ UNCHANGED <<vars, pc, activation, registers, memory, blocks, strays>>

(* Another part of the program stores to globals, and calls.                 *)
EnvironmentStores(A) ==
  /\ status = "finished" /\ pc = 0
  /\ ForeignStores(A)
  /\ UNCHANGED <<vars, pc, activation, registers, blocks, strays, fault>>

Call ==
  /\ status = "finished" /\ pc = 0
  /\ \E i \in Lines : out[i].op = "define" /\ Enter(i, {Foreign})
  /\ UNCHANGED frames

GlobalAddresses == {Address(Pointer(s)) : s \in Globals}

-----------------------------------------------------------------------------
ExecuteLine ==
  \/ ExecuteAlloca \/ ExecuteStore \/ ExecuteLoad \/ ExecuteValue
  \/ ExecuteAllocation \/ ExecuteFree \/ ExecuteLabel
  \/ ExecuteCall \/ \E A \in SUBSET GlobalAddresses : ExecuteForeignCall(A)
  \/ ReturnToCaller \/ ReturnOutside
  \/ \E l \in 0..next_label : JumpTo(l)

ExecutionInit ==
  /\ Init
  /\ pc = 0 /\ activations = 0 /\ current = 0 /\ frames = <<>>
  /\ registers = [r \in {} |-> Foreign] /\ memory = [a \in {} |-> Foreign]
  /\ blocks = <<>> /\ strays = 0 /\ fault = NoFault

ExecutionNext ==
  \/ Next /\ UNCHANGED machine
  \/ ExecuteLine \/ Trap \/ Call
  \/ \E A \in SUBSET GlobalAddresses : EnvironmentStores(A)

ExecutionSpec == ExecutionInit /\ [][ExecutionNext]_all

(* Fairness.  The processor goes on, and the conditions of the program do not *)
(* conspire: of a branch that is met again and again, the way out of its loop  *)
(* is taken again and again.                                                 *)
Fairness ==
  /\ WF_all(ExecuteLine \/ Trap)
  /\ \A l \in LoopExits : SF_all(JumpTo(l))

FairExecution == ExecutionSpec /\ Fairness

-----------------------------------------------------------------------------
(* Properties.                                                               *)

(* The string functions are used as malloc and free demand: whatever the      *)
(* returns of the program free is a block of the heap, and was not freed      *)
(* before.                                                                   *)
StringHeap == INSTANCE Heap WITH frees <- [n \in DOMAIN blocks |-> blocks[n].frees]
HeapUsedLegally == StringHeap!Spec

(* What an activation frees it has built itself, whatever it called or loaded. *)
FreedByMaker ==
  \A n \in DOMAIN blocks :
    blocks[n].frees > 0 => blocks[n].freedBy = blocks[n].by

(* A function without branches leaves no string behind: what it built is      *)
(* freed by its return, the returned one excepted.                           *)
Straight(f) == \A i \in Lines : out[i].fn = f => out[i].op # "label"

NothingLeaks ==
  \A f \in 1..functions :
    (Running /\ Ln.fn = f /\ Straight(f) /\ Ln.op \in {"ret i32", "ret i8*"}) =>
       \A n \in DOMAIN blocks :
         blocks[n].by = current =>
           blocks[n].frees = 1 \/ Operand = Block(n)

(* A string that is used after its end was left, in a global or as a result,   *)
(* by an activation that has ended: one called earlier, or one called in       *)
(* between.  None that is still active has freed it.                          *)
Active == {current} \union {frames[i].number : i \in DOMAIN frames}

DanglingIsInherited ==
  (fault.kind = "dangling" /\ fault.block # 0) =>
    blocks[fault.block].freedBy \notin Active

(* Every value is there when a line needs it, the frees of a return excepted: *)
(* what they name may have been built in a branch not taken, or in another    *)
(* function.                                                                 *)
OnlyFreesMissValues ==
  fault.kind = "undefined" => out[fault.line].op = "free"

(* A function that calls no other comes to an end: a return, a fault, or the   *)
(* end of its body.                                                          *)
CallsEnd == (pc # 0) ~> (pc = 0 \/ fault # NoFault)
=============================================================================
