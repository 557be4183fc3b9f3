---------------------------- MODULE LLVMGenerator ----------------------------
(***************************************************************************)
(* The code generator of the compiler: class LLVM_Generator of src/llvm.cpp *)
(* and src/llvm.hpp, a visitor that walks the AST of one external           *)
(* declaration after another and writes LLVM IR to an output stream.        *)
(*                                                                          *)
(* The recursion of the visitor is an explicit stack, todo: every entry is  *)
(* a call to emit_code still to be made, or the rest of a visit method that *)
(* resumes when the calls before it have returned.  One action runs one     *)
(* visit method up to its first nested emit_code, or one such rest.         *)
(*                                                                          *)
(* The AST is the input.  It is chosen while it is walked: the action that  *)
(* visits a node picks its class among those the parser can put there       *)
(* (src/parser.yy), so that the behaviours of Spec are the walks of all     *)
(* ASTs up to the bounds.  The IR is kept as a sequence of abstract         *)
(* instructions: what each defines, what it uses, where it jumps.           *)
(***************************************************************************)
EXTENDS Integers, Sequences, FiniteSets

CONSTANTS
  Symbols,       (* the Symbol objects (variables) of the program            *)
  NameOf,        (* Symbol::name_ as declared, a string per symbol           *)
  TypeOf,        (* Symbol::type_                                            *)
  Globals,       (* the symbols with attribute GLOBAL                        *)
  ParamLists,    (* the parameter lists a function definition may have       *)
  NodeClasses,   (* bound: the AST classes that occur, terminals aside       *)
  SourceTypes,   (* bound: the types of conditions, returns and arguments    *)
  MaxNodes,      (* bound: once so many AST nodes exist, only leaves follow  *)
  MaxFunctions,  (* bound: function definitions in the program               *)
  MaxArgs        (* bound: arguments of a call                               *)

Type == {"int", "string"}

Locals == Symbols \ Globals

ASSUME SymbolsAssumption ==
  /\ NameOf \in [Symbols -> STRING]
  /\ TypeOf \in [Symbols -> Type]
  /\ Globals \subseteq Symbols
  /\ ParamLists \subseteq Seq(Locals)

ASSUME BoundsAssumption ==
  /\ NodeClasses \subseteq STRING
  /\ SourceTypes \subseteq Type
  /\ MaxNodes \in Nat
  /\ MaxFunctions \in Nat
  /\ MaxArgs \in Nat

VARIABLES
  todo,                       (* the visitor's call stack, next entry first  *)
  nodes,                      (* AST nodes created so far: the next node     *)
  declared,                   (* symbols the parser has created so far       *)
  tables,                     (* its open symbol tables, innermost last      *)
  functions,                  (* function definitions begun so far           *)
  out,                        (* out_, as abstract instructions              *)
  register_reference_,        (* node |-> the text that denotes its value    *)
  variable_counts_,           (* symbol |-> loads emitted for it             *)
  renamed,                    (* the symbols renamed to "<name>.pointer"     *)
  next_label,                 (* Label::id_factory_                          *)
  const_strings_,             (* ids of the constants not yet written        *)
  const_string_next_id_,
  strings_to_free_,
  need_string_functions_,
  string_functions_declared_,
  status                      (* of the compiler process                     *)

vars == <<todo, nodes, declared, tables, functions, out,
          register_reference_, variable_counts_, renamed, next_label, const_strings_,
          const_string_next_id_, strings_to_free_, need_string_functions_,
          string_functions_declared_, status>>

strings == <<const_strings_, const_string_next_id_>>
frees == <<strings_to_free_, need_string_functions_,
           string_functions_declared_>>
scopes == <<declared, tables>>
program == <<scopes, functions, renamed>>

-----------------------------------------------------------------------------
(* Registers.  %name, %name.sub, %name.id or %name.sub.id: two registers are *)
(* the same when the texts are, whoever made them.                           *)

NoId == -1
Reg(name, sub, id) == [name |-> name, sub |-> sub, id |-> id]

NoReg      == Reg("", "", NoId)
Literal    == Reg("", "literal", NoId)
Tmp(n)     == Reg("tmp", "", n)
StrReg(n)  == Reg("str", "", n)
ReturnCopy == Reg("tmp", "return", NoId)

(* Set by Function_Definition for its parameters.  Mutant: not renamed.      *)
SubNameNeverSet(s) == ""
SubName(s) == IF s \in renamed THEN "pointer" ELSE ""

Pointer(s) == Reg(NameOf[s], IF s \in Globals THEN "@" ELSE SubName(s), NoId)
Load(s, n) == Reg(NameOf[s], SubName(s), n)

(* The name of the next temporary: "%tmp." + register_reference_.size().     *)
(* Mutants: numbered by the lines written; named like the constants.         *)
FreshTmpByLine == Tmp(Len(out))
FreshTmpSharingStr == StrReg(Cardinality(DOMAIN register_reference_))
FreshTmp == Tmp(Cardinality(DOMAIN register_reference_))

With(f, k, v) == [x \in DOMAIN f \union {k} |-> IF x = k THEN v ELSE f[x]]
Refer(n, r) == register_reference_' = With(register_reference_, n, r)

(* increment_var_count_.  Mutant: the counter of a symbol stays at 1.        *)
VarCountStuck(s) == 1
VarCount(s) == variable_counts_[s] + 1

-----------------------------------------------------------------------------
(* The scopes the parser resolves names in, as sets of symbols.  Two symbols  *)
(* of one table have different names; a name means its innermost symbol.      *)

Clash(s, table) == \E x \in table : NameOf[x] = NameOf[s]

Visible(s) ==
  \E i \in 1..Len(tables) :
    /\ s \in tables[i]
    /\ \A j \in i + 1..Len(tables) : ~Clash(s, tables[j])

AddSymbol(s) ==
  /\ s \notin declared /\ ~Clash(s, tables[Len(tables)])
  /\ declared' = declared \union {s}
  /\ tables' = [tables EXCEPT ![Len(tables)] = @ \union {s}]

-----------------------------------------------------------------------------
(* Instructions: the register defined, the registers used as values, the     *)
(* variable read or written in memory, the labels a branch goes to or a label *)
(* line places; fn is the function the line belongs to.  A "define" line uses *)
(* the parameters' registers, a "constants" line stands for the @str          *)
(* definitions it names, a "free" line for one call of __string_free__ per    *)
(* register (they are in an unordered_set: no order).                         *)

IR(op, def, use, mem, to) ==
  [op |-> op, fn |-> functions, def |-> def, use |-> use, mem |-> mem,
   to |-> to]

Plain(op, def, use) == IR(op, def, use, NoReg, {})
Br(l)               == IR("br", NoReg, {}, NoReg, {l})
CondBr(r, t, f)     == IR("cbr", NoReg, {r}, NoReg, {t, f})
LabelAt(l)          == IR("label", NoReg, {}, NoReg, {l})
LoadFrom(s, r)      == IR("load", r, {}, Pointer(s), {})
StoreTo(s, r)       == IR("store", NoReg, {r}, Pointer(s), {})

Emit(instructions) == out' = out \o instructions

-----------------------------------------------------------------------------
(* Entries of the call stack.                                                *)

ExprItem(n, t)       == [op |-> "expr", node |-> n, type |-> t]
CondItem(n)          == [op |-> "cond", node |-> n]
AssignItem(n)        == [op |-> "assign", node |-> n]
InstrItem            == [op |-> "instr", null |-> TRUE]
ElseItem             == [op |-> "instr", null |-> FALSE]
BodyItem             == [op |-> "body"]
BlockItem(d)         == [op |-> "block", decls |-> d]
EndFunctionItem      == [op |-> "end_function"]
(* The rest of a visit method: operand nodes are read when it resumes.       *)
UnaryRest(n, a)      == [op |-> "unary", node |-> n, arg |-> a]
BinaryRest(n, t, a, b) ==
  [op |-> "binary", node |-> n, type |-> t, lhs |-> a, rhs |-> b]
ConditionRest(n, t, o, a, b) ==
  [op |-> "condition", node |-> n, type |-> t, ordering |-> o,
   lhs |-> a, rhs |-> b]
AssignRest(s, a)     == [op |-> "store", sym |-> s, arg |-> a]
CallRest(n, t, as)   == [op |-> "call", node |-> n, type |-> t, args |-> as]
ReturnRest(t, a)     == [op |-> "return", type |-> t, arg |-> a]
BranchRest(n, t, f, at) ==
  [op |-> "branch", node |-> n, yes |-> t, no |-> f, at |-> at]
JumpRest(l, at)      == [op |-> "jump", target |-> l, at |-> at]

At(op) == status = "running" /\ todo # <<>> /\ Head(todo).op = op
Top == Head(todo)
Become(items) == todo' = items \o Tail(todo)

Idle == status = "running" /\ todo = <<>>

(* The bounds on the AST: a node with children is chosen only under them.     *)
Budget == nodes < MaxNodes
Has(class) == class \in NodeClasses
May(class) == Budget /\ Has(class)

-----------------------------------------------------------------------------
Init ==
  /\ todo = <<>>
  /\ nodes = 0
  /\ declared = {}
  /\ tables = <<{}>>
  /\ functions = 0
  /\ out = <<>>
  /\ register_reference_ = [n \in {} |-> Literal]
  /\ variable_counts_ = [s \in Symbols |-> 0]
  /\ renamed = {}
  /\ next_label = 0
  /\ const_strings_ = {}
  /\ const_string_next_id_ = 0
  /\ strings_to_free_ = {}
  /\ need_string_functions_ = FALSE
  /\ string_functions_declared_ = FALSE
  /\ status = "running"

-----------------------------------------------------------------------------
(* Terminals.                                                                *)

(* Mutant: a string read from a variable is slated to be freed as well.       *)
VisitVariableSlated(s) ==
  /\ At("expr") /\ Top.type = TypeOf[s] /\ Visible(s)
  /\ Become(<<>>)
  /\ variable_counts_' = [variable_counts_ EXCEPT ![s] = VarCount(s)]
  /\ Refer(Top.node, Load(s, VarCount(s)))
  /\ Emit(<<LoadFrom(s, Load(s, VarCount(s)))>>)
  /\ strings_to_free_' = IF Top.type = "string"
                         THEN strings_to_free_ \union {Load(s, VarCount(s))}
                         ELSE strings_to_free_
  /\ UNCHANGED <<nodes, program, next_label, strings, need_string_functions_,
                 string_functions_declared_, status>>

VisitVariable(s) ==
  /\ At("expr") /\ Top.type = TypeOf[s] /\ Visible(s)
  /\ Become(<<>>)
  /\ variable_counts_' = [variable_counts_ EXCEPT ![s] = VarCount(s)]
  /\ Refer(Top.node, Load(s, VarCount(s)))
  /\ Emit(<<LoadFrom(s, Load(s, VarCount(s)))>>)
  /\ UNCHANGED <<nodes, program, next_label, strings, frees, status>>

VisitConstInteger ==
  /\ At("expr") /\ Top.type = "int"
  /\ Become(<<>>)
  /\ Refer(Top.node, Literal)
  /\ UNCHANGED <<nodes, program, out, variable_counts_, next_label, strings,
                 frees, status>>

VisitConstString ==
  /\ At("expr") /\ Top.type = "string"
  /\ Become(<<>>)
  /\ const_string_next_id_' = const_string_next_id_ + 1
  /\ const_strings_' = const_strings_ \union {const_string_next_id_}
  /\ Refer(Top.node, StrReg(const_string_next_id_))
  /\ Emit(<<Plain("gep", StrReg(const_string_next_id_), {})>>)
  /\ UNCHANGED <<nodes, program, variable_counts_, next_label, frees, status>>

-----------------------------------------------------------------------------
(* Operators and calls.  The register is named before the operands are       *)
(* visited and defined after.  The parser gives the operands their types.    *)

(* Mutant: the operator is written before its operand.                       *)
VisitUnaryOperatorFirst ==
  /\ At("expr") /\ Top.type = "int" /\ May("Unary_Expression")
  /\ Become(<<UnaryRest(Top.node, nodes), ExprItem(nodes, "int")>>)
  /\ nodes' = nodes + 1
  /\ Refer(Top.node, FreshTmp)
  /\ UNCHANGED <<program, out, variable_counts_, next_label, strings, frees,
                 status>>

VisitUnary ==
  /\ At("expr") /\ Top.type = "int" /\ May("Unary_Expression")
  /\ Become(<<ExprItem(nodes, "int"), UnaryRest(Top.node, nodes)>>)
  /\ nodes' = nodes + 1
  /\ Refer(Top.node, FreshTmp)
  /\ UNCHANGED <<program, out, variable_counts_, next_label, strings, frees,
                 status>>

(* Mutant: the operator is applied to its own result.                        *)
UnaryResumedOnItself ==
  /\ At("unary")
  /\ Become(<<>>)
  /\ Emit(<<Plain("sub", register_reference_[Top.node],
                  {register_reference_[Top.node]})>>)
  /\ UNCHANGED <<nodes, program, register_reference_, variable_counts_,
                 next_label, strings, frees, status>>

UnaryResumed ==
  /\ At("unary")
  /\ Become(<<>>)
  /\ Emit(<<Plain("sub", register_reference_[Top.node],
                  {register_reference_[Top.arg]})>>)
  /\ UNCHANGED <<nodes, program, register_reference_, variable_counts_,
                 next_label, strings, frees, status>>

VisitBinary ==
  /\ At("expr") /\ May("Binary_Expression")
  /\ Become(<<ExprItem(nodes, Top.type), ExprItem(nodes + 1, Top.type),
              BinaryRest(Top.node, Top.type, nodes, nodes + 1)>>)
  /\ nodes' = nodes + 2
  /\ Refer(Top.node, FreshTmp)
  /\ UNCHANGED <<program, out, variable_counts_, next_label, strings, frees,
                 status>>

(* Strings only know '+': a call of __string_concat__, whose result is slated *)
(* to be freed by the next return.  Mutants: it is not slated; the call's     *)
(* first operand is its own result.                                          *)
BinaryResumedUnslated ==
  /\ At("binary")
  /\ Become(<<>>)
  /\ Emit(<<Plain(IF Top.type = "int" THEN "arith" ELSE "concat",
                  register_reference_[Top.node],
                  {register_reference_[Top.lhs], register_reference_[Top.rhs]})>>)
  /\ need_string_functions_' = (need_string_functions_ \/ Top.type = "string")
  /\ UNCHANGED <<nodes, program, register_reference_, variable_counts_,
                 next_label, strings, strings_to_free_,
                 string_functions_declared_, status>>

BinaryResumedOnItself ==
  /\ At("binary")
  /\ Become(<<>>)
  /\ LET ref == register_reference_[Top.node]
     IN  /\ Emit(<<Plain(IF Top.type = "int" THEN "arith" ELSE "concat", ref,
                         {ref, register_reference_[Top.rhs]})>>)
         /\ strings_to_free_' = IF Top.type = "int" THEN strings_to_free_
                                ELSE strings_to_free_ \union {ref}
  /\ need_string_functions_' = (need_string_functions_ \/ Top.type = "string")
  /\ UNCHANGED <<nodes, program, register_reference_, variable_counts_,
                 next_label, strings, string_functions_declared_, status>>

BinaryResumed ==
  /\ At("binary")
  /\ Become(<<>>)
  /\ LET ref == register_reference_[Top.node]
         operands == {register_reference_[Top.lhs],
                      register_reference_[Top.rhs]}
     IN  IF Top.type = "int"
         THEN /\ Emit(<<Plain("arith", ref, operands)>>)
              /\ UNCHANGED <<strings_to_free_, need_string_functions_>>
         ELSE /\ Emit(<<Plain("concat", ref, operands)>>)
              /\ need_string_functions_' = TRUE
              /\ strings_to_free_' = strings_to_free_ \union {ref}
  /\ UNCHANGED <<nodes, program, register_reference_, variable_counts_,
                 next_label, strings, string_functions_declared_, status>>

(* The operands of a comparison are not checked to have one type: the left   *)
(* one decides.  Which operator it is tells strings apart, integers not.      *)
VisitCondition(ordering, lhs, rhs) ==
  /\ At("cond") /\ (ordering => lhs = "string")
  /\ Become(<<ExprItem(nodes, lhs), ExprItem(nodes + 1, rhs),
              ConditionRest(Top.node, lhs, ordering, nodes, nodes + 1)>>)
  /\ nodes' = nodes + 2
  /\ Refer(Top.node, FreshTmp)
  /\ UNCHANGED <<program, out, variable_counts_, next_label, strings, frees,
                 status>>

(* Strings only compare with == and !=; for the other operators the visitor   *)
(* throws a runtime_error that nobody catches.                               *)
ConditionResumed ==
  /\ At("condition")
  /\ LET ref == register_reference_[Top.node]
         operands == {register_reference_[Top.lhs],
                      register_reference_[Top.rhs]}
     IN  \/ /\ Top.type = "int"
            /\ Become(<<>>)
            /\ Emit(<<Plain("icmp", ref, operands)>>)
            /\ UNCHANGED <<need_string_functions_, status>>
         \/ /\ Top.type = "string" /\ ~Top.ordering
            /\ Become(<<>>)
            /\ Emit(<<Plain("equal", ref, operands)>>)
            /\ need_string_functions_' = TRUE
            /\ UNCHANGED status
         \/ /\ Top.type = "string" /\ Top.ordering
            /\ status' = "terminated"
            /\ UNCHANGED <<todo, out, need_string_functions_>>
  /\ UNCHANGED <<nodes, program, register_reference_, variable_counts_,
                 next_label, strings, strings_to_free_,
                 string_functions_declared_>>

(* The assigned variable is not visited; the node's own register is named    *)
(* but never defined.                                                        *)
VisitAssignment(s) ==
  /\ At("assign") /\ Visible(s)
  /\ Become(<<ExprItem(nodes, TypeOf[s]), AssignRest(s, nodes)>>)
  /\ nodes' = nodes + 1
  /\ Refer(Top.node, FreshTmp)
  /\ UNCHANGED <<program, out, variable_counts_, next_label, strings, frees,
                 status>>

AssignmentResumed ==
  /\ At("store")
  /\ Become(<<>>)
  /\ Emit(<<StoreTo(Top.sym, register_reference_[Top.arg])>>)
  /\ UNCHANGED <<nodes, program, register_reference_, variable_counts_,
                 next_label, strings, frees, status>>

VisitFunctionCall(types) ==
  /\ At("expr") /\ May("Function_Call")
  /\ Become([i \in DOMAIN types |-> ExprItem(nodes + i - 1, types[i])]
            \o <<CallRest(Top.node, Top.type,
                          [i \in DOMAIN types |-> nodes + i - 1])>>)
  /\ nodes' = nodes + Len(types)
  /\ Refer(Top.node, FreshTmp)
  /\ UNCHANGED <<program, out, variable_counts_, next_label, strings, frees,
                 status>>

(* The line names the type of the function.  Which function it is is left open.*)
(* Mutant: a string that a function returns counts as built here.             *)
CallOp(t) == IF t = "int" THEN "call i32" ELSE "call i8*"

FunctionCallResumedSlated ==
  /\ At("call")
  /\ Become(<<>>)
  /\ Emit(<<Plain(CallOp(Top.type), register_reference_[Top.node],
                  {register_reference_[Top.args[i]] :
                     i \in DOMAIN Top.args})>>)
  /\ strings_to_free_' = IF Top.type = "int" THEN strings_to_free_
                         ELSE strings_to_free_ \union {register_reference_[Top.node]}
  /\ UNCHANGED <<nodes, program, register_reference_, variable_counts_,
                 next_label, strings, need_string_functions_,
                 string_functions_declared_, status>>

FunctionCallResumed ==
  /\ At("call")
  /\ Become(<<>>)
  /\ Emit(<<Plain(CallOp(Top.type), register_reference_[Top.node],
                  {register_reference_[Top.args[i]] :
                     i \in DOMAIN Top.args})>>)
  /\ UNCHANGED <<nodes, program, register_reference_, variable_counts_,
                 next_label, strings, frees, status>>

-----------------------------------------------------------------------------
(* Instructions.                                                             *)

(* Labels are numbered when a visit method starts, in the order it names them.*)
(* Mutant: the last label of an instruction is the first of the next.        *)
Lab(i) == next_label + i
TakeLabelsOneShort(k) == next_label' = next_label + k - 1
TakeLabels(k) == next_label' = next_label + k

VisitExpressionInstruction(t) ==
  /\ At("instr") /\ Has("Expression_Instruction")
  /\ Become(<<ExprItem(nodes, t)>>)
  /\ nodes' = nodes + 1
  /\ UNCHANGED <<program, out, register_reference_, variable_counts_,
                 next_label, strings, frees, status>>

(* An assignment needs a variable in scope.                                  *)
CanAssign == \E s \in Symbols : Visible(s)

VisitAssignmentInstruction ==
  /\ At("instr") /\ Has("Assignment") /\ CanAssign
  /\ Become(<<AssignItem(nodes)>>)
  /\ nodes' = nodes + 1
  /\ UNCHANGED <<program, out, register_reference_, variable_counts_,
                 next_label, strings, frees, status>>

VisitCondInstruction(hasElse) ==
  /\ At("instr") /\ May("Cond_Instruction")
  /\ Become(<<CondItem(nodes), BranchRest(nodes, Lab(0), Lab(1), Lab(0)),
              InstrItem, JumpRest(Lab(2), Lab(1))>>
            \o (IF hasElse THEN <<ElseItem>> ELSE <<>>)
            \o <<JumpRest(Lab(2), Lab(2))>>)
  /\ nodes' = nodes + (IF hasElse THEN 3 ELSE 2)
  /\ TakeLabels(3)
  /\ UNCHANGED <<program, out, register_reference_, variable_counts_, strings,
                 frees, status>>

(* Mutant: the condition is computed once, in front of the loop.              *)
VisitWhileConditionOnce ==
  /\ At("instr") /\ May("While_Instruction")
  /\ Become(<<CondItem(nodes), JumpRest(Lab(0), Lab(0)),
              BranchRest(nodes, Lab(1), Lab(2), Lab(1)),
              InstrItem, JumpRest(Lab(0), Lab(2))>>)
  /\ nodes' = nodes + 2
  /\ TakeLabels(3)
  /\ UNCHANGED <<program, out, register_reference_, variable_counts_, strings,
                 frees, status>>

(* Mutant: the loop jumps back behind its test.                              *)
VisitWhileUntestedAgain ==
  /\ At("instr") /\ May("While_Instruction")
  /\ Become(<<CondItem(nodes), BranchRest(nodes, Lab(1), Lab(2), Lab(1)),
              InstrItem, JumpRest(Lab(1), Lab(2))>>)
  /\ nodes' = nodes + 2
  /\ TakeLabels(3)
  /\ Emit(<<Br(Lab(0)), LabelAt(Lab(0))>>)
  /\ UNCHANGED <<program, register_reference_, variable_counts_, strings,
                 frees, status>>

VisitWhileInstruction ==
  /\ At("instr") /\ May("While_Instruction")
  /\ Become(<<CondItem(nodes), BranchRest(nodes, Lab(1), Lab(2), Lab(1)),
              InstrItem, JumpRest(Lab(0), Lab(2))>>)
  /\ nodes' = nodes + 2
  /\ TakeLabels(3)
  /\ Emit(<<Br(Lab(0)), LabelAt(Lab(0))>>)
  /\ UNCHANGED <<program, register_reference_, variable_counts_, strings,
                 frees, status>>

VisitDoInstruction ==
  /\ At("instr") /\ May("Do_Instruction")
  /\ Become(<<InstrItem, JumpRest(Lab(1), Lab(1)),
              CondItem(nodes), BranchRest(nodes, Lab(0), Lab(2), Lab(2))>>)
  /\ nodes' = nodes + 2
  /\ TakeLabels(3)
  /\ Emit(<<Br(Lab(0)), LabelAt(Lab(0))>>)
  /\ UNCHANGED <<program, register_reference_, variable_counts_, strings,
                 frees, status>>

VisitForInstruction ==
  /\ At("instr") /\ May("For_Instruction") /\ CanAssign
  /\ Become(<<AssignItem(nodes), JumpRest(Lab(0), Lab(0)),
              CondItem(nodes + 1),
              BranchRest(nodes + 1, Lab(1), Lab(3), Lab(1)),
              InstrItem, JumpRest(Lab(2), Lab(2)),
              AssignItem(nodes + 2), JumpRest(Lab(0), Lab(3))>>)
  /\ nodes' = nodes + 4
  /\ TakeLabels(4)
  /\ UNCHANGED <<program, out, register_reference_, variable_counts_, strings,
                 frees, status>>

(* Between two nested calls these methods write a branch and a label line.   *)
BranchResumed ==
  /\ At("branch")
  /\ Become(<<>>)
  /\ Emit(<<CondBr(register_reference_[Top.node], Top.yes, Top.no),
            LabelAt(Top.at)>>)
  /\ UNCHANGED <<nodes, program, register_reference_, variable_counts_,
                 next_label, strings, frees, status>>

(* Mutant: the branch is forgotten.                                          *)
JumpResumedFallingThrough ==
  /\ At("jump")
  /\ Become(<<>>)
  /\ Emit(<<LabelAt(Top.at)>>)
  /\ UNCHANGED <<nodes, program, register_reference_, variable_counts_,
                 next_label, strings, frees, status>>

JumpResumed ==
  /\ At("jump")
  /\ Become(<<>>)
  /\ Emit(<<Br(Top.target), LabelAt(Top.at)>>)
  /\ UNCHANGED <<nodes, program, register_reference_, variable_counts_,
                 next_label, strings, frees, status>>

VisitReturnInstruction(t) ==
  /\ At("instr") /\ Has("Return_Instruction")
  /\ Become(<<ExprItem(nodes, t), ReturnRest(t, nodes)>>)
  /\ nodes' = nodes + 1
  /\ UNCHANGED <<program, out, register_reference_, variable_counts_,
                 next_label, strings, frees, status>>

(* A string is copied exactly when its register is slated to be freed.       *)
NeedsCopy(t, reg) == t = "string" /\ reg \in strings_to_free_

(* What the return frees: every register still slated.                       *)
Freed(t, reg) == IF t = "string" /\ ~NeedsCopy(t, reg)
                 THEN strings_to_free_ \ {reg} ELSE strings_to_free_

Ret(t, reg) ==
  Plain(IF t = "int" THEN "ret i32" ELSE "ret i8*", NoReg, {reg})

(* The lines a return writes: copy, frees, ret.  Mutant: freed, then copied.  *)
ReturnLinesFreeingFirst(t, reg) ==
  (IF Freed(t, reg) # {} THEN <<Plain("free", NoReg, Freed(t, reg))>>
                         ELSE <<>>)
  \o (IF NeedsCopy(t, reg) THEN <<Plain("copy", ReturnCopy, {reg})>> ELSE <<>>)
  \o <<Ret(t, IF NeedsCopy(t, reg) THEN ReturnCopy ELSE reg)>>

ReturnLines(t, reg) ==
  (IF NeedsCopy(t, reg) THEN <<Plain("copy", ReturnCopy, {reg})>> ELSE <<>>)
  \o (IF Freed(t, reg) # {} THEN <<Plain("free", NoReg, Freed(t, reg))>>
                            ELSE <<>>)
  \o <<Ret(t, IF NeedsCopy(t, reg) THEN ReturnCopy ELSE reg)>>

ReturnResumed ==
  /\ At("return")
  /\ Become(<<>>)
  /\ Emit(ReturnLines(Top.type, register_reference_[Top.arg]))
  /\ strings_to_free_' = {}
  /\ UNCHANGED <<nodes, program, register_reference_, variable_counts_,
                 next_label, strings, need_string_functions_,
                 string_functions_declared_, status>>

-----------------------------------------------------------------------------
(* Blocks.  Declarations come first: the parser puts them in one             *)
(* Declaration_List in front of the instructions.  The body of a function     *)
(* uses the table its parameters are in; any other block has its own.        *)

VisitCompoundInstruction ==
  /\ \/ At("body") /\ UNCHANGED scopes
     \/ /\ At("instr") /\ May("Compound_Instruction")
        /\ tables' = Append(tables, {})
        /\ UNCHANGED declared
  /\ Become(<<BlockItem(TRUE)>>)
  /\ UNCHANGED <<nodes, functions, renamed, out, register_reference_,
                 variable_counts_, next_label, strings, frees, status>>

(* One symbol of the block's Declaration_List.                               *)
DeclareLocal(s) ==
  /\ At("block") /\ Top.decls /\ s \in Locals
  /\ AddSymbol(s)
  /\ Emit(<<Plain("alloca", Pointer(s), {})>>)
  /\ UNCHANGED <<todo, nodes, functions, renamed, register_reference_,
                 variable_counts_, next_label, strings, frees, status>>

(* The loop over the instruction list; the parser builds no empty one.       *)
NextInstruction ==
  /\ At("block") /\ (Top.decls \/ Budget)
  /\ Become(<<InstrItem, BlockItem(FALSE)>>)
  /\ nodes' = nodes + 1
  /\ UNCHANGED <<program, out, register_reference_, variable_counts_,
                 next_label, strings, frees, status>>

EndCompound ==
  /\ At("block") /\ ~Top.decls
  /\ Become(<<>>)
  /\ tables' = SubSeq(tables, 1, Len(tables) - 1)
  /\ UNCHANGED <<nodes, declared, functions, renamed, out,
                 register_reference_, variable_counts_, next_label, strings,
                 frees, status>>

(* The parser leaves the pointer of an empty instruction, and of a block      *)
(* without instructions, null.  emit_code is called on it all the same, the   *)
(* else branch excepted: there null means that there is none.                *)
VisitNull ==
  /\ At("body") \/ (At("instr") /\ Top.null /\ Has("Instruction"))
  /\ status' = "crashed"
  /\ UNCHANGED <<todo, nodes, program, out, register_reference_,
                 variable_counts_, next_label, strings, frees>>

-----------------------------------------------------------------------------
(* External declarations.                                                    *)

DeclareGlobal(s) ==
  /\ Idle /\ s \in Globals
  /\ AddSymbol(s)
  /\ Emit(<<Plain("global", Pointer(s), {})>>)
  /\ UNCHANGED <<todo, nodes, functions, renamed, register_reference_,
                 variable_counts_, next_label, strings, frees, status>>

SymbolsOf(params) == {params[i] : i \in DOMAIN params}

(* Parameters are added to the table without a check: of two with one name   *)
(* the first stays.                                                          *)
ParamTable(params) ==
  {params[i] : i \in {k \in DOMAIN params :
                        \A j \in 1..k - 1 : NameOf[params[j]] # NameOf[params[k]]}}

(* Every parameter is copied to an alloca named "<name>.pointer", and the     *)
(* symbol takes that name for the body.                                      *)
Incoming(s) == Reg(NameOf[s], "", NoId)

ParamLines(s) ==
  LET pointer == Reg(NameOf[s], "pointer", NoId)
  IN  <<Plain("alloca", pointer, {}),
        IR("store", NoReg, {Incoming(s)}, pointer, {})>>

FunctionHead(params) ==
  LET line(k) == IF k = 0
                 THEN Plain("define", NoReg,
                            {Incoming(s) : s \in SymbolsOf(params)})
                 ELSE ParamLines(params[(k + 1) \div 2])[2 - (k % 2)]
  IN  [k \in 1..1 + 2 * Len(params) |->
         [line(k - 1) EXCEPT !.fn = functions + 1]]

VisitFunctionDefinition(params) ==
  /\ Idle /\ functions < MaxFunctions
  /\ SymbolsOf(params) \intersect declared = {}
  /\ functions' = functions + 1
  /\ declared' = declared \union SymbolsOf(params)
  /\ tables' = Append(tables, ParamTable(params))
  /\ renamed' = renamed \union SymbolsOf(params)
  /\ Emit(FunctionHead(params))
  /\ todo' = <<BodyItem, EndFunctionItem>>
  /\ UNCHANGED <<nodes, register_reference_, variable_counts_, next_label,
                 strings, frees, status>>

(* Closing brace, the constants of the function, and once, if needed, the     *)
(* declarations of the string functions.  Mutants: the declarations are       *)
(* repeated; the constants are not forgotten.                                *)
StringDeclarationsRepeated == need_string_functions_
StringDeclarationsDue ==
  need_string_functions_ /\ ~string_functions_declared_

FunctionTail ==
  <<Plain("end", NoReg, {})>>
  \o (IF const_strings_ # {}
      THEN <<Plain("constants", NoReg, {StrReg(n) : n \in const_strings_})>>
      ELSE <<>>)
  \o (IF StringDeclarationsDue
      THEN <<Plain("declare_strings", NoReg, {})>> ELSE <<>>)

EndFunctionKeepingConstants ==
  /\ At("end_function")
  /\ Become(<<>>)
  /\ Emit(FunctionTail)
  /\ string_functions_declared_' =
       (string_functions_declared_ \/ need_string_functions_)
  /\ UNCHANGED <<nodes, program, register_reference_, variable_counts_,
                 next_label, strings, strings_to_free_,
                 need_string_functions_, status>>

EndFunction ==
  /\ At("end_function")
  /\ Become(<<>>)
  /\ Emit(FunctionTail)
  /\ const_strings_' = {}
  /\ string_functions_declared_' =
       (string_functions_declared_ \/ need_string_functions_)
  /\ UNCHANGED <<nodes, program, register_reference_, variable_counts_,
                 next_label, const_string_next_id_, strings_to_free_,
                 need_string_functions_, status>>

(* The end of the input.                                                     *)
Finish ==
  /\ Idle
  /\ status' = "finished"
  /\ UNCHANGED <<todo, nodes, program, out, register_reference_,
                 variable_counts_, next_label, strings, frees>>

Stopped == status # "running" /\ UNCHANGED vars

-----------------------------------------------------------------------------
ExpressionStep ==
  \/ \E s \in Symbols : VisitVariable(s)
  \/ VisitConstInteger \/ VisitConstString
  \/ VisitUnary \/ UnaryResumed
  \/ VisitBinary \/ BinaryResumed
  \/ \E ordering \in BOOLEAN, lhs, rhs \in SourceTypes :
       VisitCondition(ordering, lhs, rhs)
  \/ ConditionResumed
  \/ \E s \in Symbols : VisitAssignment(s)
  \/ AssignmentResumed
  \/ \E k \in 0..MaxArgs : \E types \in [1..k -> SourceTypes] :
       VisitFunctionCall(types)
  \/ FunctionCallResumed

InstructionStep ==
  \/ \E t \in SourceTypes : VisitExpressionInstruction(t)
  \/ VisitAssignmentInstruction
  \/ \E hasElse \in BOOLEAN : VisitCondInstruction(hasElse)
  \/ VisitWhileInstruction \/ VisitDoInstruction \/ VisitForInstruction
  \/ BranchResumed \/ JumpResumed
  \/ \E t \in SourceTypes : VisitReturnInstruction(t)
  \/ ReturnResumed
  \/ VisitCompoundInstruction \/ VisitNull
  \/ \E s \in Symbols : DeclareLocal(s)
  \/ NextInstruction \/ EndCompound

ExternalStep ==
  \/ \E s \in Symbols : DeclareGlobal(s)
  \/ \E params \in ParamLists : VisitFunctionDefinition(params)
  \/ EndFunction \/ Finish

Next == ExpressionStep \/ InstructionStep \/ ExternalStep \/ Stopped

Spec == Init /\ [][Next]_vars

-----------------------------------------------------------------------------
(* Properties of the IR.                                                     *)

Lines == 1..Len(out)

Defines(i) == IF out[i].op = "define" THEN out[i].use ELSE {out[i].def} \ {NoReg}

Operands(i) == IF out[i].op \in {"define", "constants"} THEN {}
                                                        ELSE out[i].use \ {Literal}

(* Lines i < j of one function with no label between them.                   *)
SameBlock(i, j) ==
  /\ out[i].fn = out[j].fn
  /\ \A k \in i + 1..j : out[k].op # "label"

StringOps == {"concat", "equal", "copy", "free"}

Register ==
  [name : {NameOf[s] : s \in Symbols} \union {"", "tmp", "str"},
   sub : {"", "@", "pointer", "literal", "return"}, id : Int]

Operation ==
  StringOps \union
  {"define", "end", "global", "constants", "declare_strings", "alloca", "load",
   "store", "gep", "sub", "arith", "icmp", "call i32", "call i8*",
   "br", "cbr", "label", "ret i32", "ret i8*"}

Line == [op : Operation, fn : Nat, def : Register, use : SUBSET Register,
         mem : Register, to : SUBSET Nat]

Visit ==
  [op : {"expr"}, node : Nat, type : Type]
    \union [op : {"cond", "assign"}, node : Nat]
    \union [op : {"instr"}, null : BOOLEAN]
    \union [op : {"body", "end_function"}]
Rest ==
  [op : {"block"}, decls : BOOLEAN]
    \union [op : {"unary"}, node : Nat, arg : Nat]
    \union [op : {"binary"}, node : Nat, type : Type, lhs : Nat, rhs : Nat]
    \union [op : {"condition"}, node : Nat, type : Type, ordering : BOOLEAN,
            lhs : Nat, rhs : Nat]
    \union [op : {"store"}, sym : Symbols, arg : Nat]
    \union [op : {"call"}, node : Nat, type : Type, args : Seq(Nat)]
    \union [op : {"return"}, type : Type, arg : Nat]
    \union [op : {"branch"}, node : Nat, yes : Nat, no : Nat, at : Nat]
    \union [op : {"jump"}, target : Nat, at : Nat]
StackItem == Visit \union Rest

TypeOK ==
  /\ todo \in Seq(StackItem)
  /\ nodes \in Nat /\ functions \in Nat
  /\ declared \subseteq Symbols /\ renamed \subseteq Symbols
  /\ tables \in Seq(SUBSET Symbols)
  /\ out \in Seq(Line)
  /\ DOMAIN register_reference_ \subseteq Nat
  /\ IsFiniteSet(DOMAIN register_reference_)
  /\ \A n \in DOMAIN register_reference_ : register_reference_[n] \in Register
  /\ variable_counts_ \in [Symbols -> Nat]
  /\ next_label \in Nat
  /\ const_strings_ \subseteq Nat /\ const_string_next_id_ \in Nat
  /\ \A r \in strings_to_free_ : r \in Register /\ r.name = "tmp"
  /\ need_string_functions_ \in BOOLEAN
  /\ string_functions_declared_ \in BOOLEAN
  /\ status \in {"running", "finished", "crashed", "terminated"}

(* The rest of a visit method reads register_reference_ for its own node and  *)
(* its operands.  Each has an entry, or its visit comes first: operator[]     *)
(* never makes an empty one (which would also shift the next temporary).      *)
Reads(item) ==
  CASE item.op = "unary"                   -> {item.node, item.arg}
    [] item.op \in {"binary", "condition"} -> {item.node, item.lhs, item.rhs}
    [] item.op = "call"                    -> {item.node} \union
                                              {item.args[i] : i \in DOMAIN item.args}
    [] item.op \in {"store", "return"}     -> {item.arg}
    [] item.op = "branch"                  -> {item.node}
    [] OTHER                               -> {}

Visits(item) ==
  IF item.op \in {"expr", "cond", "assign"} THEN {item.node} ELSE {}

OperandsVisited ==
  \A i \in DOMAIN todo : \A n \in Reads(todo[i]) :
    \/ n \in DOMAIN register_reference_
    \/ \E j \in 1..i - 1 : n \in Visits(todo[j])

(* No two instructions of a function define the same register: the name of a *)
(* temporary, taken from the size of register_reference_ before its operands  *)
(* are visited, is never taken again while they are.  The copy a return makes *)
(* has a fixed name and is left to UniqueDefinitions.                         *)
RegistersNamedOnce ==
  \A i, j \in Lines : (i < j /\ out[i].fn = out[j].fn) =>
    Defines(i) \intersect Defines(j) \subseteq {ReturnCopy}

(* Every value an instruction uses was computed before it in the same basic   *)
(* block (operands are emitted before their operator, loop conditions are     *)
(* recomputed where they are tested); parameters are defined by the header.   *)
(* The strings a return frees may come from another block.                   *)
ValuesComputed ==
  \A j \in Lines : out[j].op # "free" =>
    \A r \in Operands(j) :
      \E i \in 1..j - 1 : SameBlock(i, j) /\ r \in Defines(i)

(* A variable is read and written where an alloca of the same function, or a  *)
(* global before it, put it: a parameter is never addressed by the name of    *)
(* the incoming value.                                                       *)
MemoryAllocated ==
  \A j \in Lines : out[j].mem # NoReg =>
    \E i \in 1..j - 1 :
      /\ out[i].def = out[j].mem
      /\ out[i].op = "global" \/ (out[i].op = "alloca" /\ out[i].fn = out[j].fn)

(* No label is placed twice, and when a function is closed the labels it      *)
(* places are exactly those it branches to.                                   *)
BranchesResolved ==
  LET labels(f, ops) ==
        UNION {out[i].to : i \in {k \in Lines : out[k].fn = f /\ out[k].op \in ops}}
  IN  /\ \A i, j \in Lines :
           (i # j /\ out[i].op = "label" /\ out[j].op = "label") =>
             out[i].to # out[j].to
      /\ \A i \in Lines : out[i].op = "end" =>
           labels(out[i].fn, {"br", "cbr"}) = labels(out[i].fn, {"label"})

(* Control never falls into a label: the line before it is a branch.          *)
NoFallThrough ==
  \A i \in Lines : out[i].op = "label" =>
    i > 1 /\ out[i - 1].op \in {"br", "cbr"}

(* Between two external declarations every constant taken the address of is   *)
(* defined, once.                                                            *)
ConstStringsDefined ==
  Idle => \A i \in Lines : out[i].op = "gep" =>
    Cardinality({j \in Lines : out[j].op = "constants"
                               /\ out[i].def \in out[j].use}) = 1

(* The string functions are declared when a function that calls one has been  *)
(* closed, and never twice.                                                  *)
StringFunctionsDeclared ==
  LET declarations == {i \in Lines : out[i].op = "declare_strings"}
  IN  /\ Cardinality(declarations) <= 1
      /\ Idle /\ (\E i \in Lines : out[i].op \in StringOps) =>
           declarations # {}

(* A register is freed by one return only, and nothing later in the block of  *)
(* that return, its own copy and ret included, uses it.                       *)
FreedOnceAndLast ==
  \A i, j \in Lines : (i < j /\ out[i].op = "free") =>
    /\ out[j].op = "free" => out[i].use \intersect out[j].use = {}
    /\ SameBlock(i, j) => out[i].use \intersect out[j].use = {}

-----------------------------------------------------------------------------
(* What comments, the README and the test script say of the generator and the *)
(* code does not do; each is checked by a run of its own that refutes it.     *)

(* "Free any strings created in this function" (llvm.cpp:507).               *)
FreesOnlyOwnStrings ==
  \A j \in Lines : out[j].op = "free" =>
    \A r \in out[j].use :
      \E i \in 1..j - 1 : out[i].fn = out[j].fn /\ out[i].def = r

(* "If not, make a copy of the string so we can guarantee that the caller can *)
(* free it later" (llvm.cpp:494): a returned string is a copy or was created  *)
(* here and not freed.                                                       *)
ReturnedStringIsCopied ==
  \A j \in Lines : out[j].op = "ret i8*" =>
    \/ out[j].use = {ReturnCopy}
    \/ \E i \in 1..j - 1 : /\ out[i].op = "concat" /\ {out[i].def} = out[j].use
                           /\ out[i].fn = out[j].fn

(* The output is LLVM assembly: a register is defined once in its function.   *)
UniqueDefinitions ==
  \A i, j \in Lines : (i < j /\ out[i].fn = out[j].fn) =>
    Defines(i) \intersect Defines(j) = {}
=============================================================================
