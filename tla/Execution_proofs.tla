--------------------------- MODULE Execution_proofs ---------------------------
(***************************************************************************)
(* Theorems about the compiled program when it runs: how it uses the heap of  *)
(* string_lib.ll, and which values it finds.                                 *)
(*                                                                          *)
(* The machine executes lines, so that every argument about it rests on what  *)
(* the generator has written.  OInv is about the output: which line follows   *)
(* another, where a register is defined, which return frees a string.  EInv   *)
(* relates the registers and the heap of the machine to the lines around pc.  *)
(* Both are inductive together with the invariants of the generator.          *)
(***************************************************************************)
EXTENDS Execution, Registers_proofs

-----------------------------------------------------------------------------
(* The program that is run: what the lines of the output look like when the   *)
(* generator has finished, whatever it was given.                            *)

(* Lines that the machine executes; those of them that set a register.        *)
BodyOps == Operation \ {"define", "end", "global", "constants", "declare_strings"}

SettingOps ==
  {"load", "gep", "sub", "arith", "icmp", "equal", "call i32", "call i8*", "concat", "copy"}

(* A line of a function is followed by another, up to its end.               *)
Continued ==
  \A i \in Lines : out[i].op \in BodyOps \union {"define"} =>
    IF i = Len(out) THEN todo # <<>> /\ out[i].fn = functions
    ELSE out[i + 1].fn = out[i].fn /\ out[i + 1].op \in BodyOps \union {"end"}

(* Functions are written one after another, each with its head in front.      *)
InOrder ==
  \A i, j \in Lines : i < j =>
    /\ out[i].fn <= out[j].fn
    /\ out[j].op = "define" => out[i].fn < out[j].fn

(* A branch goes to a label of its function, once that is written.            *)
LabelsMeet ==
  \A f \in 0..functions : f < functions \/ todo = <<>> =>
    LabelsOf(f, BranchOps) \subseteq LabelsOf(f, {"label"})

(* What a line defines, and how many values it takes.                        *)
WellFormed(l) ==
  /\ l.def # NoReg => l.op \in SettingOps \union {"alloca", "global"}
  /\ l.op \in {"store"} \union RetOps => \E r : l.use = {r}
  /\ l.op = "concat" => IsTmp(l.def)
  /\ l.op = "copy" => l.def = ReturnCopy
  /\ l.op \in {"alloca", "global"} => l.def.id = NoId /\ l.def # ReturnCopy

LinesWellFormed == \A i \in Lines : WellFormed(out[i])

(* The lines of a return stay together.                                      *)
ReturnsWhole ==
  \A i \in Lines :
    /\ out[i].op = "free" => i + 1 \in Lines /\ out[i + 1].op \in RetOps
    /\ out[i].op = "copy" =>
         \E j \in {i + 1, i + 2} \intersect Lines :
           /\ out[j].op \in RetOps /\ out[j].use = {ReturnCopy}
           /\ \A k \in i + 1..j - 1 : out[k].op = "free"

(* A temporary is defined when its node is finished, by one line.             *)
TmpsFinished == \A i \in Lines : \A r \in LineDefines(out[i]) : IsTmp(r) => Finished(r)

TmpsOnce ==
  \A i, j \in Lines : i # j =>
    \A r \in LineDefines(out[i]) \intersect LineDefines(out[j]) : ~IsTmp(r)

(* The strings slated, or freed by a line, were built by concatenations.      *)
SlatedBuilt ==
  \A r \in strings_to_free_ \union Dead :
    \E i \in Lines : out[i].op = "concat" /\ out[i].def = r

(* A concatenation is freed by the next return.                              *)
UnfreedSlated ==
  \A i \in Lines :
    (out[i].op = "concat" /\ \A k \in i + 1..Len(out) : out[k].op \notin RetOps) =>
      out[i].def \in strings_to_free_

FreedByReturn ==
  \A i, j \in Lines :
    (/\ i < j /\ out[i].op = "concat" /\ out[j].op \in RetOps
     /\ \A k \in i + 1..j - 1 : out[k].op \notin RetOps) =>
      /\ j - 1 \in Lines /\ out[j - 1].op = "free" /\ out[i].def \in out[j - 1].use

(* Values have numbers; addresses have none.                                  *)
ReferencesNumbered ==
  \A n \in DOMAIN register_reference_ :
    register_reference_[n] = Literal \/ register_reference_[n].id \in Nat

OperandsNumbered ==
  \A j \in Lines : out[j].op # "free" =>
    \A r \in LineOperands(out[j]) :
      \/ r.id \in Nat \/ r = ReturnCopy
      \/ \E i \in 1..j - 1 : /\ out[i].op = "define" /\ r \in out[i].use
                             /\ SameBlock(i, j)

LInv == /\ Continued /\ InOrder /\ LabelsMeet /\ LinesWellFormed /\ ReturnsWhole
        /\ OperandsNumbered

NInv == TmpsFinished /\ TmpsOnce /\ SlatedBuilt /\ UnfreedSlated /\ FreedByReturn

OInv == LInv /\ NInv /\ ReferencesNumbered

-----------------------------------------------------------------------------
(* What a step of the generator writes.                                      *)

(* The values of the operands that the visit method on top reads.             *)
OperandsRead == {register_reference_[a] : a \in Uses(Top)}

(* The lines that compute a value, or store one.                             *)
ValueOps ==
  {"load", "gep", "sub", "arith", "concat", "icmp", "equal", "call i32", "call i8*", "store"}

WritesValue(l) ==
  /\ todo # <<>> /\ Top.op # "end_function" /\ Become(<<>>) /\ Emit(<<l>>)
  /\ UNCHANGED functions
  /\ l.op \in ValueOps /\ l.fn = functions /\ l.use \subseteq OperandsRead
  /\ l.op = "store" => l.def = NoReg /\ \E r : l.use = {r}
  /\ \/ ~IsTmp(l.def) /\ l.op # "concat"
     \/ UNCHANGED register_reference_ /\ Top.node \in Owns(Top) /\ l.def = register_reference_[Top.node]
  /\ strings_to_free_' = IF l.op = "concat" THEN strings_to_free_ \union {l.def}
                         ELSE strings_to_free_

WritesBranch(b, k) ==
  /\ todo # <<>> /\ Emit(<<b, LabelAt(k)>>)
  /\ UNCHANGED <<functions, strings_to_free_>>
  /\ b.op \in BranchOps /\ b.fn = functions /\ b.def = NoReg /\ b.use \subseteq OperandsRead

WritesNothing == UNCHANGED <<out, functions, strings_to_free_>>

LEMMA PlainLine ==
  \A op, def, use : /\ Plain(op, def, use).op = op /\ Plain(op, def, use).fn = functions
                    /\ Plain(op, def, use).def = def /\ Plain(op, def, use).use = use
                    /\ Plain(op, def, use).to = {}
BY DEF Plain, IR

LEMMA BranchLine ==
  \A l, t, r : /\ Br(l).op = "br" /\ Br(l).fn = functions /\ Br(l).def = NoReg /\ Br(l).use = {}
               /\ CondBr(r, l, t).op = "cbr" /\ CondBr(r, l, t).fn = functions
               /\ CondBr(r, l, t).def = NoReg /\ CondBr(r, l, t).use = {r}
               /\ LabelAt(l).op = "label" /\ LabelAt(l).fn = functions
               /\ LabelAt(l).def = NoReg /\ LabelAt(l).use = {} /\ LabelAt(l).to = {l}
BY DEF Br, CondBr, LabelAt, IR

ResultOps == ValueOps \ {"load", "gep", "store"}

LEMMA OwnResult ==
  ASSUME IInv, NEW op \in {"unary", "binary", "condition", "call"}, At(op), Become(<<>>),
         NEW iop \in ResultOps,
         NEW use, use \subseteq OperandsRead,
         Emit(<<Plain(iop, register_reference_[Top.node], use)>>),
         UNCHANGED <<functions, register_reference_>>,
         strings_to_free_' = IF iop = "concat"
                             THEN strings_to_free_ \union {register_reference_[Top.node]}
                             ELSE strings_to_free_
  PROVE  \E l : WritesValue(l)
<1> DEFINE ref == register_reference_[Top.node]
           l == Plain(iop, ref, use)
<1>1. todo # <<>> /\ Top.op = op
  BY TopTyped DEF IInv
<1>2. Top.node \in Owns(Top) /\ Top.op # "end_function"
  BY <1>1 DEF Owns
<1>3. l.op = iop /\ l.fn = functions /\ l.def = ref /\ l.use = use
  BY PlainLine
<1>4. Emit(<<l>>)
  OBVIOUS
<1> HIDE DEF l
<1>5. WritesValue(l)
  BY <1>1, <1>2, <1>3, <1>4 DEF WritesValue, ValueOps, ResultOps
<1> QED
  BY <1>5

LEMMA ResultWritten ==
  ASSUME IInv,
         \/ UnaryResumed \/ BinaryResumed \/ ConditionResumed \/ FunctionCallResumed
         \/ AssignmentResumed
  PROVE  (\E l : WritesValue(l)) \/ WritesNothing
<1>0. /\ {"sub", "arith", "concat", "icmp", "equal"} \subseteq ResultOps
      /\ "concat" \notin {"sub", "arith", "icmp", "equal"}
  BY DEF ResultOps, ValueOps
<1>1. TypeOK
  BY DEF IInv
<1> DEFINE two == {register_reference_[Top.lhs], register_reference_[Top.rhs]}
           ref == register_reference_[Top.node]
<1>2. CASE UnaryResumed
  <2>1. /\ At("unary") /\ Become(<<>>) /\ UNCHANGED <<functions, register_reference_>>
        /\ Emit(<<Plain("sub", ref, {register_reference_[Top.arg]})>>)
        /\ UNCHANGED strings_to_free_
    BY <1>2 DEF UnaryResumed, program, frees
  <2>2. Uses(Top) = {Top.arg}
    BY <1>1, <2>1, TopTyped DEF Uses
  <2>3. {register_reference_[Top.arg]} \subseteq OperandsRead
    BY <2>2 DEF OperandsRead
  <2> QED
    BY <2>1, <2>3, <1>0, OwnResult
<1>3. CASE BinaryResumed
  <2>1. /\ At("binary") /\ Become(<<>>) /\ UNCHANGED <<functions, register_reference_>>
        /\ \/ Emit(<<Plain("arith", ref, two)>>) /\ UNCHANGED strings_to_free_
           \/ /\ Emit(<<Plain("concat", ref, two)>>)
              /\ strings_to_free_' = strings_to_free_ \union {ref}
    BY <1>3 DEF BinaryResumed, program
  <2>2. Uses(Top) = {Top.lhs, Top.rhs}
    BY <1>1, <2>1, TopTyped DEF Uses
  <2>3. two \subseteq OperandsRead
    BY <2>2 DEF OperandsRead
  <2> HIDE DEF two
  <2> QED
    BY <2>1, <2>3, <1>0, OwnResult
<1>4. CASE ConditionResumed
  <2>1. /\ At("condition") /\ UNCHANGED <<functions, register_reference_, strings_to_free_>>
        /\ \/ Become(<<>>) /\ Emit(<<Plain("icmp", ref, two)>>)
           \/ Become(<<>>) /\ Emit(<<Plain("equal", ref, two)>>)
           \/ UNCHANGED out
    BY <1>4 DEF ConditionResumed, program
  <2>2. Uses(Top) = {Top.lhs, Top.rhs}
    BY <1>1, <2>1, TopTyped DEF Uses
  <2>3. two \subseteq OperandsRead
    BY <2>2 DEF OperandsRead
  <2> HIDE DEF two
  <2> QED
    BY <2>1, <2>3, <1>0, OwnResult DEF WritesNothing
<1>5. CASE FunctionCallResumed
  <2> DEFINE operands == {register_reference_[Top.args[i]] : i \in DOMAIN Top.args}
  <2>1. /\ At("call") /\ Become(<<>>) /\ UNCHANGED <<functions, register_reference_, strings_to_free_>>
        /\ Emit(<<Plain(CallOp(Top.type), ref, operands)>>)
    BY <1>5 DEF FunctionCallResumed, program, frees
  <2>2. Uses(Top) = {Top.args[i] : i \in DOMAIN Top.args}
    BY <1>1, <2>1, TopTyped DEF Uses
  <2>3. operands \subseteq OperandsRead
    BY <2>2 DEF OperandsRead
  <2>4. CallOp(Top.type) \in ResultOps /\ CallOp(Top.type) # "concat"
    BY CallOpTyped DEF ResultOps, ValueOps
  <2> HIDE DEF operands
  <2> QED
    BY <2>1, <2>3, <2>4, OwnResult
<1>6. CASE AssignmentResumed
  <2> DEFINE r == register_reference_[Top.arg]
             l == StoreTo(Top.sym, r)
  <2>1. /\ At("store") /\ Become(<<>>) /\ Emit(<<l>>) /\ UNCHANGED <<functions, strings_to_free_>>
    BY <1>6 DEF AssignmentResumed, program, frees
  <2>2. todo # <<>> /\ Top.op = "store" /\ Uses(Top) = {Top.arg}
    BY <1>1, <2>1, TopTyped DEF Uses
  <2>3. {r} \subseteq OperandsRead
    BY <2>2 DEF OperandsRead
  <2> HIDE DEF r
  <2>4. l.op = "store" /\ l.def = NoReg /\ l.use = {r} /\ l.fn = functions
    BY DEF StoreTo, IR
  <2> HIDE DEF l
  <2>5. WritesValue(l)
    BY <2>1, <2>2, <2>3, <2>4, NotTmps DEF WritesValue, ValueOps
  <2> QED
    BY <2>5
<1> QED
  BY <1>2, <1>3, <1>4, <1>5, <1>6

LEMMA TerminalWritten ==
  ASSUME NoTmpSymbol, TypeOK, (\E s \in Symbols : VisitVariable(s)) \/ VisitConstString
  PROVE  \E l : WritesValue(l)
<1>1. ASSUME NEW s \in Symbols, VisitVariable(s)
      PROVE  \E l : WritesValue(l)
  <2> DEFINE r == Load(s, VarCount(s))
             l == LoadFrom(s, r)
  <2>1. At("expr") /\ Become(<<>>) /\ Emit(<<l>>) /\ UNCHANGED <<functions, strings_to_free_>>
    BY <1>1 DEF VisitVariable, program, frees
  <2>2. todo # <<>> /\ Top.op = "expr"
    BY <2>1, TopTyped
  <2>3. ~IsTmp(r)
    BY NotTmps
  <2> HIDE DEF r
  <2>4. l.op = "load" /\ l.def = r /\ l.use = {} /\ l.fn = functions
    BY DEF LoadFrom, IR
  <2> HIDE DEF l
  <2>5. WritesValue(l)
    BY <2>1, <2>2, <2>3, <2>4 DEF WritesValue, ValueOps
  <2> QED
    BY <2>5
<1>2. CASE VisitConstString
  <2> DEFINE r == StrReg(const_string_next_id_)
             l == Plain("gep", r, {})
  <2>1. At("expr") /\ Become(<<>>) /\ Emit(<<l>>) /\ UNCHANGED <<functions, strings_to_free_>>
    BY <1>2 DEF VisitConstString, program, frees
  <2>2. todo # <<>> /\ Top.op = "expr"
    BY <2>1, TopTyped
  <2>3. ~IsTmp(r)
    BY NotTmps
  <2> HIDE DEF r
  <2>4. l.op = "gep" /\ l.def = r /\ l.use = {} /\ l.fn = functions
    BY PlainLine
  <2> HIDE DEF l
  <2>5. WritesValue(l)
    BY <2>1, <2>2, <2>3, <2>4 DEF WritesValue, ValueOps
  <2> QED
    BY <2>5
<1> QED
  BY <1>1, <1>2

LEMMA ExpressionWrites ==
  ASSUME NoTmpSymbol, IInv, ExpressionStep
  PROVE  (\E l : WritesValue(l)) \/ WritesNothing
<1>1. TypeOK
  BY DEF IInv
<1>2. CASE \/ VisitConstInteger \/ VisitUnary \/ VisitBinary
           \/ \E ordering \in BOOLEAN, lhs, rhs \in SourceTypes : VisitCondition(ordering, lhs, rhs)
           \/ \E s \in Symbols : VisitAssignment(s)
           \/ \E k \in 0..MaxArgs : \E types \in [1..k -> SourceTypes] : VisitFunctionCall(types)
  BY <1>2 DEF WritesNothing, VisitConstInteger, VisitUnary, VisitBinary, VisitCondition,
     VisitAssignment, VisitFunctionCall, program, frees
<1> QED
  BY <1>1, <1>2, ResultWritten, TerminalWritten DEF ExpressionStep

LEMMA InstructionWrites ==
  ASSUME IInv, InstructionStep
  PROVE  \/ \E b, k : WritesBranch(b, k)
         \/ ReturnResumed
         \/ \E s \in Symbols : DeclareLocal(s)
         \/ WritesNothing
<1>1. TypeOK
  BY DEF IInv
<1>2. CASE \/ \E t \in SourceTypes : VisitExpressionInstruction(t)
           \/ VisitAssignmentInstruction
           \/ \E hasElse \in BOOLEAN : VisitCondInstruction(hasElse)
           \/ VisitForInstruction
           \/ \E t \in SourceTypes : VisitReturnInstruction(t)
           \/ VisitCompoundInstruction \/ VisitNull \/ NextInstruction \/ EndCompound
  BY <1>2 DEF WritesNothing, VisitExpressionInstruction, VisitAssignmentInstruction,
     VisitCondInstruction, VisitForInstruction, VisitReturnInstruction, VisitCompoundInstruction,
     VisitNull, NextInstruction, EndCompound, program, frees
<1>3. CASE VisitWhileInstruction \/ VisitDoInstruction
  <2>1. /\ At("instr") /\ Emit(<<Br(Lab(0)), LabelAt(Lab(0))>>)
        /\ UNCHANGED <<functions, strings_to_free_>>
    BY <1>3 DEF VisitWhileInstruction, VisitDoInstruction, program, frees
  <2>2. todo # <<>>
    BY <1>1, <2>1, TopTyped
  <2>3. WritesBranch(Br(Lab(0)), Lab(0))
    BY <2>1, <2>2, BranchLine DEF WritesBranch, BranchOps
  <2> QED
    BY <2>3
<1>4. CASE BranchResumed
  <2> DEFINE b == CondBr(register_reference_[Top.node], Top.yes, Top.no)
  <2>1. /\ At("branch") /\ Emit(<<b, LabelAt(Top.at)>>) /\ UNCHANGED <<functions, strings_to_free_>>
    BY <1>4 DEF BranchResumed, program, frees
  <2>2. todo # <<>> /\ Uses(Top) = {Top.node}
    BY <1>1, <2>1, TopTyped DEF Uses
  <2>3. {register_reference_[Top.node]} \subseteq OperandsRead
    BY <2>2 DEF OperandsRead
  <2>4. WritesBranch(b, Top.at)
    BY <2>1, <2>2, <2>3, BranchLine DEF WritesBranch, BranchOps
  <2> QED
    BY <2>4
<1>5. CASE JumpResumed
  <2>1. /\ At("jump") /\ Emit(<<Br(Top.target), LabelAt(Top.at)>>)
        /\ UNCHANGED <<functions, strings_to_free_>>
    BY <1>5 DEF JumpResumed, program, frees
  <2>2. todo # <<>>
    BY <1>1, <2>1, TopTyped
  <2>3. WritesBranch(Br(Top.target), Top.at)
    BY <2>1, <2>2, BranchLine DEF WritesBranch, BranchOps
  <2> QED
    BY <2>3
<1> QED
  BY <1>2, <1>3, <1>4, <1>5 DEF InstructionStep

(* An open function stays open until its end is written.                     *)
LEMMA StaysOpen ==
  ASSUME TypeOK, SInv, [Next]_vars, todo # <<>>, ~EndFunction
  PROVE  todo' # <<>>
<1>1. ASSUME NEW items, IsTuple(items), Become(items), Top.op # "end_function"
      PROVE  todo' # <<>>
  BY <1>1, BottomKept
<1>2. CASE ExpressionStep
  <2>1. (\E items, lines : Evaluates(items, lines)) \/ UNCHANGED todo
    BY <1>2, ExpressionEvaluates
  <2> QED
    BY <1>1, <2>1 DEF Evaluates, ExpressionOps
<1>3. CASE \/ \E t \in SourceTypes : VisitExpressionInstruction(t)
           \/ VisitAssignmentInstruction
           \/ \E t \in SourceTypes : VisitReturnInstruction(t)
           \/ ReturnResumed \/ BranchResumed \/ JumpResumed
           \/ \E hasElse \in BOOLEAN : VisitCondInstruction(hasElse)
           \/ VisitWhileInstruction \/ VisitDoInstruction \/ VisitForInstruction
  <2>1. \E items, lines : Instructs(items, lines)
    BY <1>3, SimpleInstructs, BranchingInstructs
  <2> QED
    BY <1>1, <2>1 DEF Instructs
<1>4. CASE VisitCompoundInstruction \/ NextInstruction \/ EndCompound
  <2>1. \/ Become(<<BlockItem(TRUE)>>) \/ Become(<<InstrItem, BlockItem(FALSE)>>) \/ Become(<<>>)
    BY <1>4 DEF VisitCompoundInstruction, NextInstruction, EndCompound
  <2>2. At("body") \/ At("instr") \/ At("block")
    BY <1>4 DEF VisitCompoundInstruction, NextInstruction, EndCompound
  <2>3. Top.op # "end_function"
    BY <2>2, TopTyped
  <2> QED
    BY <1>1, <2>1, <2>3, ShortTuples
<1>5. CASE VisitNull \/ (\E s \in Symbols : DeclareLocal(s)) \/ UNCHANGED vars
  <2>1. UNCHANGED todo
    BY <1>5 DEF VisitNull, DeclareLocal, vars
  <2> QED
    BY <2>1
<1>6. CASE ExternalStep
  BY <1>6 DEF ExternalStep, DeclareGlobal, VisitFunctionDefinition, Finish, Idle
<1> QED
  BY <1>2, <1>3, <1>4, <1>5, <1>6 DEF Next, Stopped, InstructionStep

-----------------------------------------------------------------------------
(* The lines of the output, one after another.                               *)

(* What a step may append: to an open function its next lines, to a closed    *)
(* one nothing, or between two functions a global or the head of the next.     *)
Follows(lines) ==
  \A i \in DOMAIN lines : lines[i].op \in BodyOps \union {"define"} =>
    IF i = Len(lines) THEN todo' # <<>> ELSE lines[i + 1].op \in BodyOps \union {"end"}

Whole(lines) ==
  \A i \in DOMAIN lines :
    /\ lines[i].op = "free" => i + 1 \in DOMAIN lines /\ lines[i + 1].op \in RetOps
    /\ lines[i].op = "copy" =>
         \E j \in {i + 1, i + 2} \intersect DOMAIN lines :
           /\ lines[j].op \in RetOps /\ lines[j].use = {ReturnCopy}
           /\ \A k \in i + 1..j - 1 : k \in DOMAIN lines /\ lines[k].op = "free"

UsesNumbers(lines) ==
  \A j \in DOMAIN lines : lines[j].op # "free" =>
    \A r \in LineOperands(lines[j]) :
      \/ r.id \in Nat \/ r = ReturnCopy
      \/ \E i \in 1..j - 1 : /\ lines[i].op = "define" /\ r \in lines[i].use
                             /\ \A k \in i + 1..j : lines[k].op # "label"

Attaches(lines) ==
  \/ /\ todo # <<>> /\ UNCHANGED functions
     /\ 1 \in DOMAIN lines => lines[1].op \in BodyOps \union {"end"}
     /\ DOMAIN lines = {} => todo' # <<>>
  \/ todo = <<>> /\ UNCHANGED functions /\ todo' = <<>>
  \/ todo = <<>> /\ functions' = functions + 1 /\ todo' # <<>>

Section(lines) ==
  /\ IsTuple(lines) /\ Emit(lines)
  /\ \A i \in DOMAIN lines :
       /\ lines[i].fn = functions' /\ WellFormed(lines[i])
       /\ lines[i].op = "define" => i = 1 /\ functions' > functions
  /\ Follows(lines) /\ Whole(lines) /\ UsesNumbers(lines) /\ Attaches(lines)

LEMMA ContinuedKept ==
  ASSUME TypeOK, Continued, NEW lines, Section(lines)
  PROVE  Continued'
<1> DEFINE n == Len(out)
           more == BodyOps \union {"define"}
           next == BodyOps \union {"end"}
<1>1. IsJoined(out, lines, out')
  BY Written DEF Section
<1>2. /\ n \in Nat /\ Len(lines) \in Nat /\ Len(out') = n + Len(lines)
      /\ DOMAIN lines = 1..Len(lines) /\ Lines = 1..n /\ Lines' = 1..Len(out')
      /\ \A i \in 1..n : out'[i] = out[i]
      /\ \A i \in 1..Len(lines) : out'[n + i] = lines[i]
  BY <1>1 DEF IsJoined, Lines
<1>3. \A i \in DOMAIN lines :
        /\ lines[i].fn = functions'
        /\ lines[i].op \in more =>
             IF i = Len(lines) THEN todo' # <<>> ELSE lines[i + 1].op \in next
  BY DEF Section, Follows
<1>4. todo # <<>> => /\ functions' = functions
                     /\ 1 \in DOMAIN lines => lines[1].op \in next
                     /\ DOMAIN lines = {} => todo' # <<>>
  BY DEF Section, Attaches
<1>5. \A i \in 1..n : out[i].op \in more =>
        IF i = n THEN todo # <<>> /\ out[i].fn = functions
        ELSE out[i + 1].fn = out[i].fn /\ out[i + 1].op \in next
  BY <1>2 DEF Continued
<1> HIDE DEF n, more, next
<1>6. ASSUME NEW i \in 1..n, out'[i].op \in more
      PROVE  IF i = Len(out') THEN todo' # <<>> /\ out'[i].fn = functions'
             ELSE out'[i + 1].fn = out'[i].fn /\ out'[i + 1].op \in next
  <2>1. CASE i # n
    BY <1>2, <1>5, <1>6, <2>1
  <2>2. CASE i = n /\ Len(lines) = 0
    BY <1>2, <1>4, <1>5, <1>6, <2>2
  <2>3. CASE i = n /\ Len(lines) # 0
    <3>1. 1 \in DOMAIN lines /\ out'[i + 1] = lines[1] /\ i # Len(out')
      BY <1>2, <2>3
    <3> QED
      BY <1>2, <1>3, <1>4, <1>5, <1>6, <2>3, <3>1
  <2> QED
    BY <2>1, <2>2, <2>3
<1>7. ASSUME NEW k \in 1..Len(lines), out'[n + k].op \in more
      PROVE  IF n + k = Len(out') THEN todo' # <<>> /\ out'[n + k].fn = functions'
             ELSE out'[n + k + 1].fn = out'[n + k].fn /\ out'[n + k + 1].op \in next
  <2>1. CASE k = Len(lines)
    BY <1>2, <1>3, <1>7, <2>1
  <2>2. CASE k # Len(lines)
    <3>1. k + 1 \in 1..Len(lines) /\ n + k # Len(out')
      BY <1>2, <2>2
    <3>2. out'[n + (k + 1)] = lines[k + 1] /\ n + (k + 1) = n + k + 1
      BY <1>2, <3>1
    <3>3. out'[n + k].fn = functions' /\ lines[k + 1].op \in next /\ lines[k + 1].fn = functions'
      BY <1>2, <1>3, <1>7, <2>2, <3>1
    <3>4. out'[n + k + 1].fn = functions' /\ out'[n + k + 1].op \in next
      BY <3>2, <3>3
    <3> QED
      BY <3>1, <3>3, <3>4, Zenon
  <2> QED
    BY <2>1, <2>2
<1>8. \A i \in Lines' : i \in 1..n \/ \E k \in 1..Len(lines) : i = n + k
  <2> SUFFICES ASSUME NEW i \in Lines', i \notin 1..n
               PROVE  i - n \in 1..Len(lines) /\ i = n + (i - n)
    OBVIOUS
  <2> QED
    BY <1>2
<1> QED
  BY <1>6, <1>7, <1>8 DEF Continued, more, next

LEMMA InOrderKept ==
  ASSUME TypeOK, CInv, InOrder, NEW lines, Section(lines)
  PROVE  InOrder'
<1>1. IsJoined(out, lines, out')
  BY Written DEF Section
<1>2. /\ functions \in Nat /\ functions' >= functions /\ functions' \in Nat
      /\ \A i \in DOMAIN lines : /\ lines[i].fn = functions'
                                 /\ lines[i].op = "define" => i = 1 /\ functions' > functions
  BY DEF Section, Attaches, TypeOK
<1>3. \A i \in Lines : out[i].fn \in Nat /\ out[i].fn <= functions
  BY WrittenTyped DEF CInv, Closed
<1>4. Lines = DOMAIN out /\ Lines' = DOMAIN out'
  BY <1>1 DEF Lines, IsJoined
<1> SUFFICES ASSUME NEW i \in Lines', NEW j \in Lines', i < j
             PROVE  /\ out'[i].fn <= out'[j].fn
                    /\ out'[j].op = "define" => out'[i].fn < out'[j].fn
  BY DEF InOrder
<1>5. CASE j \in Lines
  <2>1. i \in Lines /\ out'[i] = out[i] /\ out'[j] = out[j]
    BY <1>1, <1>4, <1>5 DEF IsJoined
  <2> QED
    BY <1>5, <2>1 DEF InOrder
<1>6. CASE j \notin Lines
  <2>1. j > Len(out) /\ j - Len(out) \in DOMAIN lines /\ out'[j] = lines[j - Len(out)]
    BY <1>1, <1>4, <1>6 DEF IsJoined
  <2>2. CASE i \in Lines
    <3>1. out'[i] = out[i]
      BY <1>1, <1>4, <2>2 DEF IsJoined
    <3> QED
      BY <1>2, <1>3, <2>1, <2>2, <3>1
  <2>3. CASE i \notin Lines
    <3>1. i > Len(out) /\ i - Len(out) \in DOMAIN lines /\ out'[i] = lines[i - Len(out)]
      BY <1>1, <1>4, <2>3 DEF IsJoined
    <3>2. j - Len(out) # 1
      BY <1>1, <1>4, <2>1, <3>1 DEF IsJoined
    <3> QED
      BY <1>2, <2>1, <3>1, <3>2
  <2> QED
    BY <2>2, <2>3
<1> QED
  BY <1>5, <1>6

LEMMA LabelsMeetKept ==
  ASSUME TypeOK, TypeOK', CInv', LabelsMeet, NEW lines, Section(lines)
  PROVE  LabelsMeet'
<1>1. /\ functions \in Nat /\ functions' \in Nat
      /\ \A i \in DOMAIN lines : lines[i].fn = functions'
      /\ functions' = functions \/ (functions' = functions + 1 /\ todo = <<>>)
  BY DEF Section, Attaches, TypeOK
<1> SUFFICES ASSUME NEW f \in 0..functions', f < functions' \/ todo' = <<>>
             PROVE  LabelsOf(f, BranchOps)' \subseteq LabelsOf(f, {"label"})'
  BY DEF LabelsMeet
<1>2. CASE f = functions'
  <2>1. todo' = <<>> /\ DOMAIN todo' = {}
    BY <1>1, <1>2
  <2>2. LabelsOf(functions, BranchOps)' = LabelsOf(functions, {"label"})'
    BY <2>1 DEF CInv, Balanced
  <2> QED
    BY <1>2, <2>2 DEF LabelsOf
<1>3. CASE f # functions'
  <2>1. LineLabels(lines, f, BranchOps) = {} /\ LineLabels(lines, f, {"label"}) = {}
    BY <1>1, <1>3 DEF LineLabels
  <2>2. /\ LabelsOf(f, BranchOps)' = LabelsOf(f, BranchOps) \union LineLabels(lines, f, BranchOps)
        /\ LabelsOf(f, {"label"})' = LabelsOf(f, {"label"}) \union LineLabels(lines, f, {"label"})
    BY LabelsAdded DEF Section
  <2>3. f \in 0..functions /\ (f < functions \/ todo = <<>>)
    BY <1>1, <1>3
  <2> QED
    BY <2>1, <2>2, <2>3 DEF LabelsMeet
<1> QED
  BY <1>2, <1>3

LEMMA WholeKept ==
  ASSUME TypeOK, ReturnsWhole, LinesWellFormed, NEW lines, Section(lines)
  PROVE  ReturnsWhole' /\ LinesWellFormed'
<1>1. IsJoined(out, lines, out')
  BY Written DEF Section
<1>2. Lines = 1..Len(out) /\ Lines' = 1..Len(out) + Len(lines) /\ Len(out) \in Nat /\ Len(lines) \in Nat
  BY <1>1 DEF Lines, IsJoined
<1>3. /\ \A i \in Lines : i \in Lines' /\ out'[i] = out[i]
      /\ \A i \in DOMAIN lines : Len(out) + i \in Lines' /\ out'[Len(out) + i] = lines[i]
      /\ \A i \in Lines' : i \in Lines \/ (i - Len(out) \in DOMAIN lines /\ out'[i] = lines[i - Len(out)])
  BY <1>1, <1>2 DEF IsJoined
<1>4. LinesWellFormed'
  <2>1. \A i \in Lines : WellFormed(out[i])
    BY DEF LinesWellFormed
  <2>2. \A i \in DOMAIN lines : WellFormed(lines[i])
    BY DEF Section
  <2>3. \A i \in Lines' : WellFormed(out'[i])
    BY <1>3, <2>1, <2>2
  <2> QED
    BY <2>3 DEF LinesWellFormed, WellFormed
<1> SUFFICES ASSUME NEW i \in Lines'
             PROVE  /\ out'[i].op = "free" => i + 1 \in Lines' /\ out'[i + 1].op \in RetOps
                    /\ out'[i].op = "copy" =>
                         \E j \in {i + 1, i + 2} \intersect Lines' :
                           /\ out'[j].op \in RetOps /\ out'[j].use = {ReturnCopy}
                           /\ \A k \in i + 1..j - 1 : out'[k].op = "free"
  BY <1>4 DEF ReturnsWhole
<1>5. CASE i \in Lines
  <2>1. out'[i] = out[i]
    BY <1>3, <1>5
  <2>2. out[i].op = "free" => i + 1 \in Lines /\ out[i + 1].op \in RetOps
    BY <1>5 DEF ReturnsWhole
  <2>3. ASSUME out[i].op = "copy"
        PROVE  \E j \in {i + 1, i + 2} \intersect Lines' :
                 /\ out'[j].op \in RetOps /\ out'[j].use = {ReturnCopy}
                 /\ \A k \in i + 1..j - 1 : out'[k].op = "free"
    <3>1. PICK j \in {i + 1, i + 2} \intersect Lines :
                 /\ out[j].op \in RetOps /\ out[j].use = {ReturnCopy}
                 /\ \A k \in i + 1..j - 1 : out[k].op = "free"
      BY <1>5, <2>3 DEF ReturnsWhole
    <3>2. \A k \in i + 1..j - 1 : k \in Lines
      BY <1>2, <1>5, <3>1
    <3> QED
      BY <1>3, <3>1, <3>2
  <2> QED
    BY <1>3, <2>1, <2>2, <2>3
<1>6. CASE i \notin Lines
  <2> DEFINE m == i - Len(out)
  <2>1. m \in DOMAIN lines /\ out'[i] = lines[m] /\ i = Len(out) + m /\ m \in Nat
    BY <1>1, <1>2, <1>3, <1>6 DEF IsJoined
  <2>2. Whole(lines)
    BY DEF Section
  <2> HIDE DEF m
  <2>3. ASSUME lines[m].op = "free"
        PROVE  i + 1 \in Lines' /\ out'[i + 1].op \in RetOps
    <3>1. m + 1 \in DOMAIN lines /\ lines[m + 1].op \in RetOps
      BY <2>1, <2>2, <2>3 DEF Whole
    <3>2. Len(out) + (m + 1) = i + 1
      BY <1>2, <2>1
    <3> QED
      BY <1>3, <3>1, <3>2
  <2>4. ASSUME lines[m].op = "copy"
        PROVE  \E j \in {i + 1, i + 2} \intersect Lines' :
                 /\ out'[j].op \in RetOps /\ out'[j].use = {ReturnCopy}
                 /\ \A k \in i + 1..j - 1 : out'[k].op = "free"
    <3>1. PICK j \in {m + 1, m + 2} \intersect DOMAIN lines :
                 /\ lines[j].op \in RetOps /\ lines[j].use = {ReturnCopy}
                 /\ \A k \in m + 1..j - 1 : k \in DOMAIN lines /\ lines[k].op = "free"
      BY <2>1, <2>2, <2>4 DEF Whole
    <3>2. Len(out) + j \in {i + 1, i + 2} /\ Len(out) + j \in Lines' /\ out'[Len(out) + j] = lines[j]
      BY <1>2, <1>3, <2>1, <3>1
    <3>3. ASSUME NEW k \in i + 1..Len(out) + j - 1
          PROVE  out'[k].op = "free"
      <4>1. k - Len(out) \in m + 1..j - 1 /\ Len(out) + (k - Len(out)) = k
        BY <1>2, <2>1, <3>1, <3>3
      <4> QED
        BY <1>3, <3>1, <4>1
    <3> QED
      BY <3>1, <3>2, <3>3
  <2> QED
    BY <2>1, <2>3, <2>4
<1> QED
  BY <1>5, <1>6

LEMMA OperandsKept ==
  ASSUME TypeOK, OperandsNumbered, NEW lines, Section(lines)
  PROVE  OperandsNumbered'
<1>1. IsJoined(out, lines, out')
  BY Written DEF Section
<1>2. Lines = 1..Len(out) /\ Lines' = 1..Len(out) + Len(lines) /\ Len(out) \in Nat /\ Len(lines) \in Nat
  BY <1>1 DEF Lines, IsJoined
<1>3. /\ \A i \in Lines : i \in Lines' /\ out'[i] = out[i]
      /\ \A i \in DOMAIN lines : Len(out) + i \in Lines' /\ out'[Len(out) + i] = lines[i]
      /\ \A i \in Lines' : i \in Lines \/ (i - Len(out) \in DOMAIN lines /\ out'[i] = lines[i - Len(out)])
  BY <1>1, <1>2 DEF IsJoined
<1> DEFINE named(j, r) ==
             \/ r.id \in Nat \/ r = ReturnCopy
             \/ \E i \in 1..j - 1 :
                  /\ out'[i].op = "define" /\ r \in out'[i].use /\ out'[i].fn = out'[j].fn
                  /\ \A k \in i + 1..j : out'[k].op # "label"
<1> SUFFICES ASSUME NEW j \in Lines', out'[j].op # "free", NEW r \in LineOperands(out'[j])
             PROVE  named(j, r)
  BY DEF OperandsNumbered, SameBlock, LineOperands
<1>4. CASE j \in Lines
  <2>1. out'[j] = out[j]
    BY <1>3, <1>4
  <2>2. CASE r.id \in Nat \/ r = ReturnCopy
    BY <2>2
  <2>3. ASSUME NEW i \in 1..j - 1, out[i].op = "define", r \in out[i].use, SameBlock(i, j)
        PROVE  named(j, r)
    <3>1. i \in Lines /\ out'[i] = out[i]
      BY <1>2, <1>3, <1>4
    <3>2. \A k \in i + 1..j : k \in Lines /\ out'[k] = out[k]
      BY <1>2, <1>3, <1>4
    <3> QED
      BY <2>1, <2>3, <3>1, <3>2 DEF SameBlock
  <2> HIDE DEF named
  <2> QED
    BY <1>4, <2>1, <2>2, <2>3 DEF OperandsNumbered
<1>5. CASE j \notin Lines
  <2> DEFINE m == j - Len(out)
  <2>1. m \in DOMAIN lines /\ out'[j] = lines[m] /\ j = Len(out) + m /\ m \in Nat
    BY <1>1, <1>2, <1>3, <1>5 DEF IsJoined
  <2> HIDE DEF m
  <2>2. \/ r.id \in Nat \/ r = ReturnCopy
        \/ \E i \in 1..m - 1 : /\ lines[i].op = "define" /\ r \in lines[i].use
                               /\ \A k \in i + 1..m : lines[k].op # "label"
    BY <2>1 DEF Section, UsesNumbers
  <2>3. ASSUME NEW i \in 1..m - 1, lines[i].op = "define", r \in lines[i].use,
               \A k \in i + 1..m : lines[k].op # "label"
        PROVE  named(j, r)
    <3>1. DOMAIN lines = 1..Len(lines)
      BY <1>1 DEF IsJoined
    <3>2. i \in DOMAIN lines /\ Len(out) + i \in 1..j - 1 /\ out'[Len(out) + i] = lines[i]
      <4>1. m \in 1..Len(lines) /\ i \in 1..m - 1
        BY <2>1, <2>3, <3>1
      <4>2. i \in DOMAIN lines
        BY <1>2, <3>1, <4>1
      <4>3. Len(out) + i \in 1..j - 1
        BY <1>2, <2>1, <4>1
      <4> QED
        BY <1>3, <4>2, <4>3
    <3>3. lines[i].fn = lines[m].fn
      BY <2>1, <3>2 DEF Section
    <3>4. ASSUME NEW k \in Len(out) + i + 1..j
          PROVE  out'[k].op # "label"
      <4>1. k - Len(out) \in i + 1..m /\ Len(out) + (k - Len(out)) = k /\ k - Len(out) \in DOMAIN lines
        BY <1>2, <2>1, <2>3, <3>1, <3>4
      <4> QED
        BY <1>3, <2>3, <4>1
    <3> QED
      BY <2>1, <2>3, <3>2, <3>3, <3>4
  <2> HIDE DEF named
  <2> QED
    BY <2>2, <2>3 DEF named
<1> QED
  BY <1>4, <1>5

LEMMA SectionKeeps ==
  ASSUME TypeOK, TypeOK', CInv, CInv', LInv, NEW lines, Section(lines)
  PROVE  LInv'
BY ContinuedKept, InOrderKept, LabelsMeetKept, WholeKept, OperandsKept DEF LInv

-----------------------------------------------------------------------------
(* What each step appends.                                                   *)

LEMMA OpSets ==
  /\ ValueOps \subseteq BodyOps /\ ValueOps \subseteq SettingOps \union {"store"}
  /\ BranchOps \subseteq BodyOps /\ RetOps \subseteq BodyOps
  /\ {"label", "alloca", "store", "free", "copy"} \subseteq BodyOps
  /\ {"end", "constants", "declare_strings", "global", "define"} \intersect BodyOps = {}
  /\ {"free", "copy", "define", "alloca", "global"} \intersect ValueOps = {}
BY DEF ValueOps, BodyOps, SettingOps, BranchOps, RetOps, Operation, StringOps

LEMMA TupleItems ==
  /\ \A a : IsTuple(<<a>>) /\ Len(<<a>>) = 1 /\ DOMAIN <<a>> = {1} /\ <<a>>[1] = a
  /\ \A a, b : /\ IsTuple(<<a, b>>) /\ Len(<<a, b>>) = 2 /\ DOMAIN <<a, b>> = {1, 2}
               /\ <<a, b>>[1] = a /\ <<a, b>>[2] = b
  /\ \A a, b, c : /\ IsTuple(<<a, b, c>>) /\ Len(<<a, b, c>>) = 3 /\ DOMAIN <<a, b, c>> = {1, 2, 3}
                  /\ <<a, b, c>>[1] = a /\ <<a, b, c>>[2] = b /\ <<a, b, c>>[3] = c
<1>1. ASSUME NEW a
      PROVE  IsTuple(<<a>>) /\ Len(<<a>>) = 1 /\ DOMAIN <<a>> = {1} /\ <<a>>[1] = a
  <2>1. IsTuple(<<a>>)
    BY ShortTuples
  <2> QED
    BY <2>1
<1>2. ASSUME NEW a, NEW b
      PROVE  /\ IsTuple(<<a, b>>) /\ Len(<<a, b>>) = 2 /\ DOMAIN <<a, b>> = {1, 2}
             /\ <<a, b>>[1] = a /\ <<a, b>>[2] = b
  <2>1. IsTuple(<<a, b>>)
    BY ShortTuples
  <2>2. Len(<<a, b>>) = 2 /\ <<a, b>>[1] = a /\ <<a, b>>[2] = b
    OBVIOUS
  <2>3. DOMAIN <<a, b>> = 1..2 /\ 1..2 = {1, 2}
    OBVIOUS
  <2> QED
    BY <2>1, <2>2, <2>3
<1>3. ASSUME NEW a, NEW b, NEW c
      PROVE  /\ IsTuple(<<a, b, c>>) /\ Len(<<a, b, c>>) = 3 /\ DOMAIN <<a, b, c>> = {1, 2, 3}
             /\ <<a, b, c>>[1] = a /\ <<a, b, c>>[2] = b /\ <<a, b, c>>[3] = c
  <2>1. IsTuple(<<a, b, c>>)
    BY ShortTuples
  <2>2. Len(<<a, b, c>>) = 3 /\ <<a, b, c>>[1] = a /\ <<a, b, c>>[2] = b /\ <<a, b, c>>[3] = c
    OBVIOUS
  <2>3. DOMAIN <<a, b, c>> = 1..3 /\ 1..3 = {1, 2, 3}
    OBVIOUS
  <2> QED
    BY <2>1, <2>2, <2>3
<1> QED
  BY <1>1, <1>2, <1>3

LEMMA OperandNumbered ==
  ASSUME IInv, ReferencesNumbered, todo # <<>>, NEW r \in OperandsRead
  PROVE  r = Literal \/ r.id \in Nat
<1>1. 1 \in DOMAIN todo /\ Top = todo[1] /\ Top \in StackItem
  BY TopEntry DEF IInv
<1>2. PICK a \in Uses(Top) : r = register_reference_[a]
  BY DEF OperandsRead
<1>3. a \in Reads(Top)
  BY <1>2 DEF Uses, Reads
<1>4. a \in DOMAIN register_reference_
  BY <1>1, <1>3 DEF IInv, Nodes, OperandsVisited
<1> QED
  BY <1>2, <1>4 DEF ReferencesNumbered

LEMMA NothingSection ==
  ASSUME TypeOK, WritesNothing, UNCHANGED todo \/ (todo # <<>> /\ todo' # <<>>)
  PROVE  Section(<<>>)
<1>1. Emit(<<>>) /\ IsTuple(<<>>) /\ DOMAIN <<>> = {}
  BY NoLines, NoEntries DEF WritesNothing
<1>2. Attaches(<<>>)
  BY <1>1 DEF Attaches, WritesNothing
<1> QED
  BY <1>1, <1>2, Zenon DEF Section, Follows, Whole, UsesNumbers

LEMMA ValueSection ==
  ASSUME IInv, RInv, ReferencesNumbered, NEW l, WritesValue(l), todo' # <<>>
  PROVE  Section(<<l>>)
<1> DEFINE lines == <<l>>
<1>1. IsTuple(lines) /\ Len(lines) = 1 /\ DOMAIN lines = {1} /\ lines[1] = l /\ Emit(lines)
  BY TupleItems DEF WritesValue
<1>2. /\ todo # <<>> /\ UNCHANGED functions
      /\ l.op \in ValueOps /\ l.fn = functions /\ l.use \subseteq OperandsRead
      /\ l.op = "store" => l.def = NoReg /\ \E r : l.use = {r}
  BY DEF WritesValue
<1> HIDE DEF lines
<1>3. l.op \in BodyOps /\ l.op \notin {"free", "copy", "define", "alloca", "global"} \union RetOps
  BY <1>2 DEF ValueOps, BodyOps, RetOps, Operation, StringOps
<1>4. l.op = "concat" => IsTmp(l.def)
  <2>1. 1 \in DOMAIN todo /\ Top = todo[1]
    BY <1>2, TopEntry DEF IInv
  <2> QED
    BY <2>1 DEF WritesValue, RInv, OwnersTmp
<1>5. WellFormed(l)
  BY <1>2, <1>3, <1>4, OpSets DEF WellFormed
<1>6. Follows(lines) /\ Whole(lines) /\ Attaches(lines)
  BY <1>1, <1>2, <1>3 DEF Follows, Whole, Attaches
<1>7. \A r \in LineOperands(l) : r.id \in Nat
  BY <1>2, OperandNumbered DEF LineOperands
<1>8. UsesNumbers(lines)
  BY <1>1, <1>7 DEF UsesNumbers
<1>9. \A i \in DOMAIN lines :
        /\ lines[i].fn = functions' /\ WellFormed(lines[i])
        /\ lines[i].op = "define" => i = 1 /\ functions' > functions
  BY <1>1, <1>2, <1>3, <1>5
<1>10. Section(lines)
  BY <1>1, <1>6, <1>8, <1>9 DEF Section
<1> QED
  BY <1>10 DEF lines

LEMMA BranchSection ==
  ASSUME IInv, ReferencesNumbered, NEW b, NEW at, WritesBranch(b, at), todo' # <<>>
  PROVE  Section(<<b, LabelAt(at)>>)
<1> DEFINE l == LabelAt(at)
           lines == <<b, l>>
<1>1. /\ IsTuple(lines) /\ Len(lines) = 2 /\ DOMAIN lines = {1, 2}
      /\ lines[1] = b /\ lines[2] = l /\ Emit(lines)
  BY TupleItems DEF WritesBranch
<1>2. /\ todo # <<>> /\ UNCHANGED functions
      /\ b.op \in BranchOps /\ b.fn = functions /\ b.use \subseteq OperandsRead /\ b.def = NoReg
  BY DEF WritesBranch
<1>3. l.op = "label" /\ l.fn = functions /\ l.def = NoReg /\ l.use = {}
  BY BranchLine
<1> HIDE DEF lines, l
<1>4. /\ b.op \in BodyOps /\ l.op \in BodyOps
      /\ {b.op, l.op} \intersect ({"free", "copy", "define", "alloca", "global", "store", "concat"}
                                   \union RetOps) = {}
  BY <1>2, <1>3 DEF BranchOps, BodyOps, RetOps, Operation, StringOps
<1>5. WellFormed(b) /\ WellFormed(l)
  BY <1>2, <1>3, <1>4 DEF WellFormed
<1>6. Follows(lines) /\ Whole(lines) /\ Attaches(lines)
  <2>1. b.op # "free" /\ l.op # "free" /\ b.op # "copy" /\ l.op # "copy"
    BY <1>4
  <2>2. Follows(lines)
    BY <1>1, <1>4 DEF Follows
  <2>3. Whole(lines)
    BY <1>1, <2>1 DEF Whole
  <2>4. Attaches(lines)
    BY <1>1, <1>2, <1>4 DEF Attaches
  <2> QED
    BY <2>2, <2>3, <2>4
<1>7. /\ \A r \in LineOperands(b) : r.id \in Nat
      /\ LineOperands(l) = {}
  BY <1>2, <1>3, OperandNumbered DEF LineOperands
<1>8. UsesNumbers(lines)
  BY <1>1, <1>7 DEF UsesNumbers
<1>9. \A i \in DOMAIN lines :
        /\ lines[i].fn = functions' /\ WellFormed(lines[i])
        /\ lines[i].op = "define" => i = 1 /\ functions' > functions
  BY <1>1, <1>2, <1>3, <1>4, <1>5
<1>10. Section(lines)
  BY <1>1, <1>6, <1>8, <1>9 DEF Section
<1> QED
  BY <1>10 DEF lines, l

LEMMA PointerFields ==
  \A s : Pointer(s).id = NoId /\ Pointer(s) # ReturnCopy
<1>1. \A s : Pointer(s).id = NoId
  BY RegisterFields
<1>2. \A s : Pointer(s).sub \in {"@", "pointer", ""}
  BY Zenon DEF Pointer, SubName, Reg
<1>3. ReturnCopy.sub = "return"
  BY Zenon DEF ReturnCopy, Reg
<1>4. "return" \notin {"@", "pointer", ""}
  BY Zenon
<1> QED
  BY <1>1, <1>2, <1>3, <1>4, Zenon

LEMMA VariableSection ==
  ASSUME TypeOK, NEW s, (DeclareLocal(s) /\ todo # <<>>) \/ DeclareGlobal(s)
  PROVE  \E l : /\ Section(<<l>>) /\ UNCHANGED strings_to_free_
                /\ l.op \in {"alloca", "global"} /\ ~IsTmp(l.def) /\ l.use = {}
<1> DEFINE op == IF DeclareGlobal(s) THEN "global" ELSE "alloca"
           def == Pointer(s)
           l == Plain(op, def, {})
           lines == <<l>>
<1>1. UNCHANGED <<todo, functions, strings_to_free_>> /\ (DeclareGlobal(s) => todo = <<>>)
  BY DEF DeclareLocal, DeclareGlobal, frees, Idle
<1>2. Emit(<<Plain(op, def, {})>>)
  <2>1. CASE DeclareGlobal(s)
    BY <2>1 DEF DeclareGlobal
  <2>2. CASE ~DeclareGlobal(s)
    BY <2>2 DEF DeclareLocal
  <2> QED
    BY <2>1, <2>2
<1>3. op \in {"alloca", "global"} /\ (op = "global" => todo = <<>>) /\ (todo = <<>> => op = "global")
  BY <1>1
<1>4. def.id = NoId /\ def # ReturnCopy /\ ~IsTmp(def)
  BY PointerFields, NotTmps
<1> HIDE DEF op, def
<1>5. l.op = op /\ l.fn = functions /\ l.def = def /\ l.use = {}
  BY PlainLine
<1>6. Emit(<<l>>)
  BY <1>2
<1> HIDE DEF l
<1>7. IsTuple(lines) /\ Len(lines) = 1 /\ DOMAIN lines = {1} /\ lines[1] = l /\ Emit(lines)
  BY <1>6, TupleItems
<1> HIDE DEF lines
<1>8. WellFormed(l)
  BY <1>3, <1>4, <1>5 DEF WellFormed, RetOps
<1>9. Follows(lines)
  BY <1>1, <1>3, <1>5, <1>7, OpSets DEF Follows
<1>10. Attaches(lines)
  BY <1>1, <1>3, <1>5, <1>7, OpSets DEF Attaches
<1>11. Whole(lines) /\ UsesNumbers(lines)
  BY <1>3, <1>5, <1>7 DEF Whole, UsesNumbers, LineOperands
<1>12. Section(lines)
  BY <1>1, <1>3, <1>5, <1>7, <1>8, <1>9, <1>10, <1>11 DEF Section
<1> QED
  BY <1>1, <1>3, <1>4, <1>5, <1>12 DEF lines

(* The lines of a return: ret, the frees in front of it if there are any, and  *)
(* the copy in front of them.                                                *)
ReturnBlock(lines, reg) ==
  LET n == Len(lines)
  IN  /\ IsTuple(lines) /\ n \in 1..3 /\ DOMAIN lines = 1..n
      /\ lines[n].op \in RetOps /\ \E x \in {reg, ReturnCopy} : lines[n].use = {x}
      /\ strings_to_free_ # {} => n > 1
      /\ n > 1 => lines[n - 1].op = "free" /\ lines[n - 1].use = strings_to_free_
      /\ n > 2 => lines[1].op = "copy" /\ lines[1].use = {reg} /\ lines[n].use = {ReturnCopy}
      /\ \A i \in 1..n : /\ lines[i].fn = functions
                         /\ lines[i].def = IF n = 3 /\ i = 1 THEN ReturnCopy ELSE NoReg

LEMMA JoinedTo ==
  ASSUME NEW s, NEW t, NEW u, IsTuple(s), IsTuple(t), IsTuple(u), Len(u) = Len(s) + Len(t),
         \A i \in DOMAIN s : u[i] = s[i], \A i \in DOMAIN t : u[Len(s) + i] = t[i]
  PROVE  s \o t = u
<1> DEFINE v == s \o t
           A == {u[i] : i \in DOMAIN u}
           B == {v[i] : i \in DOMAIN v}
<1>1. IsJoined(s, t, v)
  BY Joined
<1>2. u \in Seq(A) /\ v \in Seq(B)
  BY <1>1 DEF IsTuple, IsJoined
<1> HIDE DEF A, B, v
<1>3. u \in Seq(A \union B) /\ v \in Seq(A \union B)
  BY <1>2, SeqMonotonic
<1>4. Len(v) = Len(u) /\ DOMAIN v = 1..Len(u)
  BY <1>1 DEF IsJoined
<1>5. ASSUME NEW i \in 1..Len(u)
      PROVE  v[i] = u[i]
  <2>1. \/ i \in DOMAIN s /\ v[i] = s[i]
        \/ i > Len(s) /\ i - Len(s) \in DOMAIN t /\ v[i] = t[i - Len(s)]
    BY <1>1, <1>4 DEF IsJoined
  <2>2. Len(s) + (i - Len(s)) = i
    BY <1>1 DEF IsJoined
  <2> QED
    BY <2>1, <2>2
<1>6. v = u
  BY <1>3, <1>4, <1>5, SeqEqual
<1> QED
  BY <1>6 DEF v

LEMMA ShortJoined ==
  /\ <<>> \o <<>> = <<>>
  /\ \A a : <<>> \o <<a>> = <<a>> /\ <<a>> \o <<>> = <<a>>
  /\ \A a, b : <<a>> \o <<b>> = <<a, b>>
  /\ \A a, b, c : <<a, b>> \o <<c>> = <<a, b, c>>
<1>0. IsTuple(<<>>) /\ Len(<<>>) = 0 /\ DOMAIN <<>> = {}
  BY NoEntries
<1>1. <<>> \o <<>> = <<>>
  BY <1>0, JoinedTo
<1>2. ASSUME NEW a
      PROVE  <<>> \o <<a>> = <<a>> /\ <<a>> \o <<>> = <<a>>
  <2> DEFINE t == <<a>>
             e == <<>>
  <2>1. IsTuple(t) /\ Len(t) = 1 /\ DOMAIN t = {1} /\ IsTuple(e) /\ Len(e) = 0 /\ DOMAIN e = {}
    BY <1>0, TupleItems
  <2> HIDE DEF t, e
  <2>2. Len(t) = Len(e) + Len(t) /\ Len(t) = Len(t) + Len(e)
    BY <2>1
  <2>3. \A i \in DOMAIN t : t[Len(e) + i] = t[i]
    BY <2>1
  <2>4. e \o t = t /\ t \o e = t
    BY <2>1, <2>2, <2>3, JoinedTo
  <2> QED
    BY <2>4 DEF t, e
<1>3. ASSUME NEW a, NEW b
      PROVE  <<a>> \o <<b>> = <<a, b>>
  <2> DEFINE s == <<a>>
             t == <<b>>
             u == <<a, b>>
  <2>1. /\ IsTuple(s) /\ Len(s) = 1 /\ DOMAIN s = {1} /\ s[1] = a
        /\ IsTuple(t) /\ Len(t) = 1 /\ DOMAIN t = {1} /\ t[1] = b
        /\ IsTuple(u) /\ Len(u) = 2 /\ DOMAIN u = {1, 2} /\ u[1] = a /\ u[2] = b
    BY TupleItems
  <2> HIDE DEF s, t, u
  <2>2. Len(u) = Len(s) + Len(t) /\ \A i \in DOMAIN s : u[i] = s[i]
    BY <2>1
  <2>3. \A i \in DOMAIN t : u[Len(s) + i] = t[i]
    BY <2>1
  <2>4. s \o t = u
    BY <2>1, <2>2, <2>3, JoinedTo
  <2> QED
    BY <2>4 DEF s, t, u
<1>4. ASSUME NEW a, NEW b, NEW c
      PROVE  <<a, b>> \o <<c>> = <<a, b, c>>
  <2> DEFINE s == <<a, b>>
             t == <<c>>
             u == <<a, b, c>>
  <2>1. /\ IsTuple(s) /\ Len(s) = 2 /\ DOMAIN s = {1, 2} /\ s[1] = a /\ s[2] = b
        /\ IsTuple(t) /\ Len(t) = 1 /\ DOMAIN t = {1} /\ t[1] = c
        /\ IsTuple(u) /\ Len(u) = 3 /\ DOMAIN u = {1, 2, 3} /\ u[1] = a /\ u[2] = b /\ u[3] = c
    BY TupleItems
  <2> HIDE DEF s, t, u
  <2>2. Len(u) = Len(s) + Len(t) /\ \A i \in DOMAIN s : u[i] = s[i]
    BY <2>1
  <2>3. \A i \in DOMAIN t : u[Len(s) + i] = t[i]
    BY <2>1
  <2>4. s \o t = u
    BY <2>1, <2>2, <2>3, JoinedTo
  <2> QED
    BY <2>4 DEF s, t, u
<1> QED
  BY <1>1, <1>2, <1>3, <1>4

LEMMA ReturnLinesBlock ==
  ASSUME NEW t, NEW reg
  PROVE  ReturnBlock(ReturnLines(t, reg), reg)
<1> DEFINE c == Plain("copy", ReturnCopy, {reg})
           f == Plain("free", NoReg, strings_to_free_)
           r == Ret(t, reg)
           k == Ret(t, ReturnCopy)
<1>1. Freed(t, reg) = strings_to_free_
  BY DEF Freed, NeedsCopy
<1>2. /\ c.op = "copy" /\ c.def = ReturnCopy /\ c.use = {reg} /\ c.fn = functions
      /\ f.op = "free" /\ f.def = NoReg /\ f.use = strings_to_free_ /\ f.fn = functions
  BY PlainLine
<1>3. \A x : /\ Ret(t, x).op \in RetOps /\ Ret(t, x).def = NoReg /\ Ret(t, x).use = {x}
             /\ Ret(t, x).fn = functions
  BY DEF Ret, Plain, IR, RetOps
<1>4. /\ r.op \in RetOps /\ r.def = NoReg /\ r.use = {reg} /\ r.fn = functions
      /\ k.op \in RetOps /\ k.def = NoReg /\ k.use = {ReturnCopy} /\ k.fn = functions
  BY <1>3
<1>5. ReturnLines(t, reg) = ((IF NeedsCopy(t, reg) THEN <<c>> ELSE <<>>)
                             \o (IF strings_to_free_ # {} THEN <<f>> ELSE <<>>))
                            \o (IF NeedsCopy(t, reg) THEN <<k>> ELSE <<r>>)
  BY <1>1 DEF ReturnLines
<1>6. NeedsCopy(t, reg) => strings_to_free_ # {}
  BY DEF NeedsCopy
<1> HIDE DEF c, f, r, k
<1>7. CASE NeedsCopy(t, reg)
  <2> DEFINE lines == <<c, f, k>>
  <2>1. /\ IsTuple(lines) /\ Len(lines) = 3 /\ DOMAIN lines = {1, 2, 3}
        /\ lines[1] = c /\ lines[2] = f /\ lines[3] = k
    BY TupleItems
  <2>2. ReturnLines(t, reg) = lines
    <3>1. <<c>> \o <<f>> = <<c, f>> /\ <<c, f>> \o <<k>> = <<c, f, k>>
      BY ShortJoined
    <3>2. ReturnLines(t, reg) = (<<c>> \o <<f>>) \o <<k>>
      BY <1>5, <1>6, <1>7
    <3> QED
      BY <3>1, <3>2, Zenon
  <2> HIDE DEF lines
  <2>3. ReturnBlock(lines, reg)
    BY <1>2, <1>4, <2>1 DEF ReturnBlock
  <2> QED
    BY <2>2, <2>3
<1>8. CASE ~NeedsCopy(t, reg) /\ strings_to_free_ # {}
  <2> DEFINE lines == <<f, r>>
  <2>1. /\ IsTuple(lines) /\ Len(lines) = 2 /\ DOMAIN lines = {1, 2}
        /\ lines[1] = f /\ lines[2] = r
    BY TupleItems
  <2>2. ReturnLines(t, reg) = lines
    <3>1. <<>> \o <<f>> = <<f>> /\ <<f>> \o <<r>> = <<f, r>>
      BY ShortJoined
    <3> QED
      BY <1>5, <1>8, <3>1
  <2> HIDE DEF lines
  <2>3. ReturnBlock(lines, reg)
    BY <1>2, <1>4, <2>1 DEF ReturnBlock
  <2> QED
    BY <2>2, <2>3
<1>9. CASE ~NeedsCopy(t, reg) /\ strings_to_free_ = {}
  <2> DEFINE lines == <<r>>
  <2>1. /\ IsTuple(lines) /\ Len(lines) = 1 /\ DOMAIN lines = {1} /\ lines[1] = r
    BY TupleItems
  <2>2. ReturnLines(t, reg) = lines
    <3>1. <<>> \o <<>> = <<>> /\ <<>> \o <<r>> = <<r>>
      BY ShortJoined
    <3> QED
      BY <1>5, <1>9, <3>1
  <2> HIDE DEF lines
  <2>3. ReturnBlock(lines, reg)
    BY <1>4, <1>9, <2>1 DEF ReturnBlock
  <2> QED
    BY <2>2, <2>3
<1> QED
  BY <1>7, <1>8, <1>9

LEMMA ReturnSection ==
  ASSUME IInv, ReferencesNumbered, ReturnResumed, todo' # <<>>
  PROVE  \E lines : /\ Section(lines) /\ \E reg : ReturnBlock(lines, reg)
                    /\ UNCHANGED functions /\ strings_to_free_' = {}
<1> DEFINE reg == register_reference_[Top.arg]
           lines == ReturnLines(Top.type, reg)
<1>1. /\ At("return") /\ Emit(lines) /\ UNCHANGED functions /\ strings_to_free_' = {}
  BY DEF ReturnResumed, program
<1>2. todo # <<>> /\ Uses(Top) = {Top.arg}
  BY <1>1, TopTyped DEF IInv, Uses
<1>3. reg = Literal \/ reg.id \in Nat
  BY <1>2, OperandNumbered DEF OperandsRead
<1>4. ReturnBlock(lines, reg)
  BY ReturnLinesBlock
<1> HIDE DEF reg, lines
<1> DEFINE n == Len(lines)
<1>5. n \in {1, 2, 3} /\ DOMAIN lines = 1..n /\ IsTuple(lines)
  BY <1>4 DEF ReturnBlock
<1>6. lines[n].op \in RetOps /\ \E x \in {reg, ReturnCopy} : lines[n].use = {x}
  BY <1>4 DEF ReturnBlock
<1>7. n > 1 => lines[n - 1].op = "free"
  BY <1>4 DEF ReturnBlock
<1>8. n > 2 => lines[1].op = "copy" /\ lines[1].use = {reg} /\ lines[n].use = {ReturnCopy}
  BY <1>4 DEF ReturnBlock
<1>9. \A i \in 1..n : /\ lines[i].fn = functions
                      /\ lines[i].def = IF n = 3 /\ i = 1 THEN ReturnCopy ELSE NoReg
  BY <1>4 DEF ReturnBlock
<1> HIDE DEF n
<1>10. \A i \in 1..n : \/ i = n
                       \/ i = n - 1 /\ lines[i].op = "free" /\ lines[i].def = NoReg
                       \/ i = 1 /\ n = 3 /\ lines[1].op = "copy" /\ lines[i].def = ReturnCopy
  BY <1>5, <1>7, <1>8, <1>9
<1>11. /\ RetOps \subseteq BodyOps /\ {"free", "copy"} \subseteq BodyOps
       /\ \A op \in RetOps :
            op \notin {"free", "copy", "define", "alloca", "global", "store", "concat", "label"}
  BY DEF RetOps, BodyOps, Operation, StringOps
<1>12. lines[n].def = NoReg /\ n \in 1..n
  BY <1>5, <1>9
<1>13. \A i \in 1..n : lines[i].op \in BodyOps /\ lines[i].op # "define"
  BY <1>5, <1>6, <1>10, <1>11
<1>14. \A i \in 1..n : WellFormed(lines[i])
  <2>1. WellFormed(lines[n])
    BY <1>6, <1>11, <1>12 DEF WellFormed
  <2>2. \A l : l.op = "free" /\ l.def = NoReg => WellFormed(l)
    BY DEF WellFormed, RetOps
  <2>3. \A l : l.op = "copy" /\ l.def = ReturnCopy => WellFormed(l)
    BY DEF WellFormed, RetOps, SettingOps
  <2> QED
    BY <1>10, <2>1, <2>2, <2>3
<1>15. Follows(lines)
  BY <1>5, <1>13 DEF Follows, n
<1>16. Whole(lines)
  <2> SUFFICES ASSUME NEW i \in DOMAIN lines
               PROVE  /\ lines[i].op = "free" => i + 1 \in DOMAIN lines /\ lines[i + 1].op \in RetOps
                      /\ lines[i].op = "copy" =>
                           \E j \in {i + 1, i + 2} \intersect DOMAIN lines :
                             /\ lines[j].op \in RetOps /\ lines[j].use = {ReturnCopy}
                             /\ \A k \in i + 1..j - 1 : k \in DOMAIN lines /\ lines[k].op = "free"
    BY DEF Whole
  <2>1. CASE i = n
    BY <1>6, <1>11, <2>1
  <2>2. CASE i = n - 1 /\ lines[i].op = "free"
    BY <1>5, <1>6, <2>2
  <2>3. CASE i = 1 /\ n = 3 /\ lines[1].op = "copy"
    <3>1. 3 \in {i + 1, i + 2} \intersect DOMAIN lines /\ lines[3].op \in RetOps
          /\ lines[3].use = {ReturnCopy}
      BY <1>5, <1>6, <1>8, <2>3
    <3>2. \A k \in i + 1..3 - 1 : k \in DOMAIN lines /\ lines[k].op = "free"
      BY <1>5, <1>7, <2>3
    <3> QED
      BY <2>3, <3>1, <3>2
  <2> QED
    BY <1>5, <1>10, <2>1, <2>2, <2>3
<1>17. UsesNumbers(lines)
  <2> SUFFICES ASSUME NEW j \in 1..n, lines[j].op # "free", NEW r \in LineOperands(lines[j])
               PROVE  r.id \in Nat \/ r = ReturnCopy
    BY <1>5 DEF UsesNumbers
  <2>1. r \in lines[j].use /\ r # Literal
    BY DEF LineOperands
  <2>2. j = n \/ (j = 1 /\ n = 3)
    BY <1>10
  <2>3. r = reg \/ r = ReturnCopy
    BY <1>6, <1>8, <2>1, <2>2
  <2> QED
    BY <1>3, <2>1, <2>3
<1>18. Attaches(lines)
  BY <1>1, <1>2, <1>5, <1>13 DEF Attaches
<1>19. Section(lines)
  BY <1>1, <1>5, <1>9, <1>13, <1>14, <1>15, <1>16, <1>17, <1>18 DEF Section
<1> QED
  BY <1>1, <1>4, <1>19

LEMMA HeadSection ==
  ASSUME SymbolsAssumption, TypeOK, NEW params \in ParamLists, VisitFunctionDefinition(params)
  PROVE  \E lines : /\ Section(lines) /\ UNCHANGED strings_to_free_
                    /\ \A i \in DOMAIN lines :
                         /\ lines[i].op \in {"define", "alloca", "store"}
                         /\ \A r \in LineDefines(lines[i]) : ~IsTmp(r)
<1> DEFINE lines == FunctionHead(params)
           numbered(l) == [l EXCEPT !.fn = functions + 1]
           S == SymbolsOf(params)
           define == Plain("define", NoReg, {Incoming(s) : s \in S})
           n == Len(params)
           cell(s) == Reg(NameOf[s], "pointer", NoId)
<1>1. params \in Seq(Symbols) /\ functions \in Nat
  BY DEF SymbolsAssumption, Locals, TypeOK
<1>2. n \in Nat /\ DOMAIN params = 1..n
  BY <1>1, LenProperties
<1>3. \A k \in 1..n : params[k] \in S
  BY <1>2 DEF SymbolsOf
<1>4. /\ todo = <<>> /\ todo' # <<>> /\ functions' = functions + 1 /\ UNCHANGED strings_to_free_
  BY DEF VisitFunctionDefinition, Idle, frees
<1>5. Emit(lines)
  BY DEF VisitFunctionDefinition
<1>6. /\ IsTuple(lines) /\ DOMAIN lines = 1..1 + 2 * n
      /\ lines[1] = numbered(define)
      /\ \A k \in 1..n : /\ lines[2 * k] = numbered(ParamLines(params[k])[1])
                         /\ lines[2 * k + 1] = numbered(ParamLines(params[k])[2])
      /\ \A i \in DOMAIN lines : i = 1 \/ \E k \in 1..n : i = 2 * k \/ i = 2 * k + 1
  BY <1>1, HeadLines, Zenon
<1>7. /\ numbered(define).op = "define" /\ numbered(define).use = {Incoming(s) : s \in S}
      /\ numbered(define).def = NoReg /\ numbered(define).fn = functions + 1
  BY DEF Plain, IR
<1>8. \A s : LET a == numbered(ParamLines(s)[1])
                 b == numbered(ParamLines(s)[2])
             IN  /\ a.op = "alloca" /\ a.def = cell(s) /\ a.use = {} /\ a.fn = functions + 1
                 /\ b.op = "store" /\ b.def = NoReg /\ b.use = {Incoming(s)}
                 /\ b.fn = functions + 1
  BY DEF ParamLines, Plain, IR
<1>9. \A s : /\ cell(s).id = NoId /\ cell(s) # ReturnCopy
             /\ ~IsTmp(Incoming(s)) /\ ~IsTmp(cell(s))
  <2>1. \A s : cell(s).id = NoId /\ ~IsTmp(Incoming(s))
    BY RegisterFields, NotTmps
  <2>2. \A s : ~IsTmp(cell(s))
    BY <2>1, NotTmps DEF NoId
  <2>3. \A s : cell(s).sub = "pointer"
    BY Zenon DEF Reg
  <2>4. ReturnCopy.sub = "return"
    BY Zenon DEF ReturnCopy, Reg
  <2>5. "pointer" # "return"
    OBVIOUS
  <2> HIDE DEF cell
  <2> QED
    BY <2>1, <2>2, <2>3, <2>4, <2>5
<1> HIDE DEF lines, numbered, define, S, n, cell
<1>10. \A k \in 1..n :
         /\ lines[2 * k].op = "alloca" /\ lines[2 * k].def = cell(params[k])
         /\ lines[2 * k].use = {} /\ lines[2 * k].fn = functions + 1
         /\ lines[2 * k + 1].op = "store" /\ lines[2 * k + 1].def = NoReg
         /\ lines[2 * k + 1].use = {Incoming(params[k])} /\ lines[2 * k + 1].fn = functions + 1
  <2> TAKE k \in 1..n
  <2> DEFINE a == numbered(ParamLines(params[k])[1])
             b == numbered(ParamLines(params[k])[2])
  <2>1. lines[2 * k] = a /\ lines[2 * k + 1] = b
    BY <1>6
  <2>2. /\ a.op = "alloca" /\ a.def = cell(params[k]) /\ a.use = {} /\ a.fn = functions + 1
        /\ b.op = "store" /\ b.def = NoReg /\ b.use = {Incoming(params[k])}
        /\ b.fn = functions + 1
    BY <1>8
  <2> HIDE DEF a, b
  <2> QED
    BY <2>1, <2>2
<1>11. \A i \in DOMAIN lines :
         \/ i = 1 /\ lines[i].op = "define" /\ lines[i].def = NoReg /\ lines[i].fn = functions + 1
         \/ /\ i > 1 /\ lines[i].op = "alloca" /\ lines[i].use = {} /\ lines[i].fn = functions + 1
            /\ \E k \in 1..n : lines[i].def = cell(params[k])
         \/ /\ i > 1 /\ lines[i].op = "store" /\ lines[i].def = NoReg /\ lines[i].fn = functions + 1
            /\ \E k \in 1..n : lines[i].use = {Incoming(params[k])}
  <2> SUFFICES ASSUME NEW i \in DOMAIN lines, i # 1
               PROVE  /\ i > 1 /\ lines[i].fn = functions + 1
                      /\ \/ /\ lines[i].op = "alloca" /\ lines[i].use = {}
                            /\ \E k \in 1..n : lines[i].def = cell(params[k])
                         \/ /\ lines[i].op = "store" /\ lines[i].def = NoReg
                            /\ \E k \in 1..n : lines[i].use = {Incoming(params[k])}
    BY <1>6, <1>7
  <2>1. PICK k \in 1..n : i = 2 * k \/ i = 2 * k + 1
    BY <1>6
  <2>2. i > 1
    BY <1>2, <2>1
  <2>3. CASE i = 2 * k
    <3>1. /\ lines[i].op = "alloca" /\ lines[i].def = cell(params[k])
          /\ lines[i].use = {} /\ lines[i].fn = functions + 1
      BY <1>10, <2>3
    <3> QED
      BY <2>2, <3>1
  <2>4. CASE i = 2 * k + 1
    <3>1. /\ lines[i].op = "store" /\ lines[i].def = NoReg
          /\ lines[i].use = {Incoming(params[k])} /\ lines[i].fn = functions + 1
      BY <1>10, <2>4
    <3> QED
      BY <2>2, <3>1
  <2> QED
    BY <2>1, <2>3, <2>4
<1>12. DOMAIN lines = 1..Len(lines) /\ Len(lines) \in Nat
  BY <1>6, LenProperties DEF IsTuple
<1>13. Follows(lines)
  <2>1. \A i \in DOMAIN lines : i > 1 => lines[i].op \in BodyOps
    BY <1>11, OpSets
  <2>2. \A i \in DOMAIN lines : i # Len(lines) => i + 1 \in DOMAIN lines /\ i + 1 > 1
    BY <1>12
  <2> QED
    BY <1>4, <2>1, <2>2 DEF Follows
<1>14. Whole(lines)
  BY <1>11 DEF Whole
<1>15. \A i \in DOMAIN lines : WellFormed(lines[i])
  <2>1. \A l : l.op = "define" /\ l.def = NoReg => WellFormed(l)
    BY DEF WellFormed, RetOps
  <2>2. \A l : l.op = "alloca" /\ l.def.id = NoId /\ l.def # ReturnCopy => WellFormed(l)
    BY DEF WellFormed, RetOps
  <2>3. \A l : l.op = "store" /\ l.def = NoReg /\ (\E r : l.use = {r}) => WellFormed(l)
    BY DEF WellFormed, RetOps
  <2> QED
    BY <1>9, <1>11, <2>1, <2>2, <2>3
<1>16. UsesNumbers(lines)
  <2> SUFFICES ASSUME NEW j \in DOMAIN lines, NEW r \in LineOperands(lines[j])
               PROVE  \E i \in 1..j - 1 : /\ lines[i].op = "define" /\ r \in lines[i].use
                                          /\ \A k \in i + 1..j : lines[k].op # "label"
    BY DEF UsesNumbers
  <2>1. r \in lines[j].use /\ lines[j].op # "define"
    BY DEF LineOperands
  <2>2. j > 1 /\ \E k \in 1..n : r = Incoming(params[k])
    BY <1>11, <2>1
  <2>3. 1 \in 1..j - 1 /\ \A k \in 1 + 1..j : k \in DOMAIN lines
    BY <1>2, <1>6, <2>2
  <2>4. lines[1].op = "define" /\ r \in lines[1].use
    BY <1>3, <1>6, <1>7, <2>2
  <2>5. \A k \in 1 + 1..j : lines[k].op # "label"
    BY <1>11, <2>3
  <2> QED
    BY <2>3, <2>4, <2>5
<1>17. Attaches(lines)
  BY <1>4 DEF Attaches
<1>18. \A i \in DOMAIN lines :
         /\ lines[i].fn = functions' /\ functions' > functions
         /\ lines[i].op = "define" => i = 1
  BY <1>1, <1>4, <1>11
<1>19. Section(lines)
  BY <1>5, <1>6, <1>13, <1>14, <1>15, <1>16, <1>17, <1>18 DEF Section
<1>20. \A i \in DOMAIN lines : \A r \in LineDefines(lines[i]) : ~IsTmp(r)
  <2> SUFFICES ASSUME NEW i \in DOMAIN lines, NEW r \in LineDefines(lines[i])
               PROVE  ~IsTmp(r)
    OBVIOUS
  <2>1. CASE i = 1
    <3>1. r \in {Incoming(s) : s \in S}
      BY <1>6, <1>7, <2>1 DEF LineDefines
    <3> QED
      BY <1>9, <3>1
  <2>2. CASE i # 1
    <3>1. r = lines[i].def /\ r # NoReg
      BY <1>11, <2>2 DEF LineDefines
    <3> QED
      BY <1>9, <1>11, <2>2, <3>1
  <2> QED
    BY <2>1, <2>2
<1> QED
  BY <1>4, <1>11, <1>19, <1>20

LEMMA TailSection ==
  ASSUME TypeOK, SInv, EndFunction
  PROVE  \E lines : /\ Section(lines) /\ UNCHANGED <<functions, strings_to_free_>>
                    /\ \A i \in DOMAIN lines :
                         lines[i].op \in {"end", "constants", "declare_strings"} /\ lines[i].def = NoReg
<1> DEFINE lines == FunctionTail
<1>1. /\ IsTuple(lines)
      /\ \A i \in DOMAIN lines :
           /\ lines[i].op \in {"end", "constants", "declare_strings"}
           /\ lines[i].fn = functions
           /\ lines[i].def = NoReg
           /\ lines[i].op # "constants" => lines[i].use = {}
  BY TailOps
<1>2. Emit(lines) /\ UNCHANGED <<functions, strings_to_free_>> /\ todo # <<>>
  BY DEF EndFunction, At, program
<1>3. 1 \in DOMAIN lines /\ lines[1].op = "end"
  <2> DEFINE e == <<Plain("end", NoReg, {})>>
             c == IF const_strings_ # {}
                  THEN <<Plain("constants", NoReg, {StrReg(n) : n \in const_strings_})>> ELSE <<>>
             d == IF StringDeclarationsDue THEN <<Plain("declare_strings", NoReg, {})>> ELSE <<>>
             front == e \o c
  <2>1. lines = front \o d
    BY DEF FunctionTail
  <2>2. IsTuple(e) /\ DOMAIN e = {1} /\ e[1].op = "end"
    BY TupleItems, PlainLine
  <2>3. IsTuple(c) /\ IsTuple(d)
    BY ShortTuples
  <2> HIDE DEF e, c, d, lines
  <2>4. IsJoined(e, c, front)
    BY <2>2, <2>3, Joined
  <2> HIDE DEF front
  <2>5. IsJoined(front, d, lines)
    <3>1. IsTuple(front)
      BY <2>4 DEF IsJoined
    <3>2. IsJoined(front, d, front \o d)
      BY <2>3, <3>1, Joined
    <3> QED
      BY <2>1, <3>2, Zenon
  <2>6. 1 \in DOMAIN front /\ front[1] = e[1]
    BY <2>2, <2>4 DEF IsJoined
  <2>7. 1 \in DOMAIN lines /\ lines[1] = front[1]
    BY <2>5, <2>6 DEF IsJoined
  <2> QED
    BY <2>2, <2>6, <2>7
<1> HIDE DEF lines
<1>4. \A l : l.op \in {"end", "constants", "declare_strings"} /\ l.def = NoReg => WellFormed(l)
  BY DEF WellFormed, RetOps
<1>5. Follows(lines)
  BY <1>1, OpSets DEF Follows
<1>6. Whole(lines) /\ Attaches(lines)
  <2>1. Whole(lines)
    BY <1>1 DEF Whole
  <2>2. Attaches(lines)
    BY <1>2, <1>3 DEF Attaches
  <2> QED
    BY <2>1, <2>2
<1>7. \A i \in DOMAIN lines : LineOperands(lines[i]) = {}
  BY <1>1 DEF LineOperands
<1>8. UsesNumbers(lines)
  BY <1>7 DEF UsesNumbers
<1>9. Section(lines)
  BY <1>1, <1>2, <1>4, <1>5, <1>6, <1>8 DEF Section
<1> QED
  BY <1>1, <1>2, <1>9

(* A step appends the line of a value, a return, or lines that neither end an  *)
(* activation nor touch its strings.                                         *)
Aside(lines) ==
  /\ Section(lines) /\ UNCHANGED strings_to_free_
  /\ \A i \in DOMAIN lines :
       /\ lines[i].op \notin RetOps \union {"free", "concat"}
       /\ \A r \in LineDefines(lines[i]) : ~IsTmp(r)

Appends ==
  \/ \E l : WritesValue(l) /\ Section(<<l>>)
  \/ /\ ReturnResumed /\ strings_to_free_' = {}
     /\ \E lines : Section(lines) /\ \E reg : ReturnBlock(lines, reg)
  \/ \E lines : Aside(lines)

LEMMA BranchAside ==
  ASSUME IInv, ReferencesNumbered, NEW b, NEW at, WritesBranch(b, at), todo' # <<>>
  PROVE  \E lines : Aside(lines)
<1> DEFINE l == LabelAt(at)
           lines == <<b, l>>
<1>1. Section(lines)
  BY BranchSection
<1>2. DOMAIN lines = {1, 2} /\ lines[1] = b /\ lines[2] = l
  BY TupleItems
<1>3. b.op \in BranchOps /\ b.def = NoReg /\ UNCHANGED strings_to_free_
  BY DEF WritesBranch
<1>4. l.op = "label" /\ l.def = NoReg
  BY BranchLine
<1> HIDE DEF lines, l
<1>5. \A i \in DOMAIN lines :
        lines[i].op \notin RetOps \union {"free", "concat", "define"} /\ lines[i].def = NoReg
  BY <1>2, <1>3, <1>4 DEF BranchOps, RetOps
<1>6. \A i \in DOMAIN lines : LineDefines(lines[i]) = {}
  BY <1>5 DEF LineDefines
<1>7. Aside(lines)
  BY <1>1, <1>3, <1>5, <1>6 DEF Aside
<1> QED
  BY <1>7

LEMMA NothingAside ==
  ASSUME TypeOK, WritesNothing, UNCHANGED todo \/ (todo # <<>> /\ todo' # <<>>)
  PROVE  \E lines : Aside(lines)
<1>1. Section(<<>>)
  BY NothingSection
<1>2. Aside(<<>>)
  BY <1>1, NoEntries DEF Aside, WritesNothing
<1> QED
  BY <1>2

LEMMA VariableAside ==
  ASSUME TypeOK, NEW s, (DeclareLocal(s) /\ todo # <<>>) \/ DeclareGlobal(s)
  PROVE  \E lines : Aside(lines)
<1>1. PICK l : /\ Section(<<l>>) /\ UNCHANGED strings_to_free_
               /\ l.op \in {"alloca", "global"} /\ ~IsTmp(l.def) /\ l.use = {}
  BY VariableSection
<1> DEFINE lines == <<l>>
<1>2. DOMAIN lines = {1} /\ lines[1] = l
  BY TupleItems
<1>3. Section(lines)
  BY <1>1
<1> HIDE DEF lines
<1>4. \A r \in LineDefines(l) : ~IsTmp(r)
  BY <1>1 DEF LineDefines
<1>5. Aside(lines)
  BY <1>1, <1>2, <1>3, <1>4 DEF Aside, RetOps
<1> QED
  BY <1>5

LEMMA StepAppends ==
  ASSUME SymbolsAssumption, NoTmpSymbol, IInv, RInv, SInv, ReferencesNumbered, [Next]_vars
  PROVE  Appends
<1>1. TypeOK
  BY DEF IInv
<1>2. ASSUME ExpressionStep
      PROVE  Appends
  <2>1. todo # <<>> /\ ~EndFunction
    <3>1. PICK op \in {"expr", "cond", "assign", "unary", "binary", "condition", "store", "call"} : At(op)
      BY <1>2 DEF ExpressionStep, VisitVariable, VisitConstInteger, VisitConstString, VisitUnary,
         UnaryResumed, VisitBinary, BinaryResumed, VisitCondition, ConditionResumed,
         VisitAssignment, AssignmentResumed, VisitFunctionCall, FunctionCallResumed
    <3> QED
      BY <3>1 DEF At, EndFunction
  <2>2. todo' # <<>>
    BY <1>1, <2>1, StaysOpen
  <2>3. (\E l : WritesValue(l)) \/ WritesNothing
    BY <1>2, ExpressionWrites
  <2>4. CASE WritesNothing
    BY <1>1, <2>1, <2>2, <2>4, NothingAside DEF Appends
  <2>5. ASSUME NEW l, WritesValue(l)
        PROVE  Appends
    <3>1. Section(<<l>>)
      BY <2>2, <2>5, ValueSection
    <3> QED
      BY <2>5, <3>1 DEF Appends
  <2> QED
    BY <2>3, <2>4, <2>5
<1>3. ASSUME InstructionStep
      PROVE  Appends
  <2>1. todo # <<>> /\ ~EndFunction
    <3>1. PICK op \in {"instr", "branch", "jump", "return", "body", "block"} : At(op)
      BY <1>3 DEF InstructionStep, VisitExpressionInstruction, VisitAssignmentInstruction,
         VisitCondInstruction, VisitWhileInstruction, VisitDoInstruction, VisitForInstruction,
         BranchResumed, JumpResumed, VisitReturnInstruction, ReturnResumed,
         VisitCompoundInstruction, VisitNull, DeclareLocal, NextInstruction, EndCompound
    <3> QED
      BY <3>1 DEF At, EndFunction
  <2>2. todo' # <<>>
    BY <1>1, <2>1, StaysOpen
  <2>3. \/ \E b, k : WritesBranch(b, k)
        \/ ReturnResumed
        \/ \E s \in Symbols : DeclareLocal(s)
        \/ WritesNothing
    BY <1>3, InstructionWrites
  <2>4. CASE WritesNothing
    BY <1>1, <2>1, <2>2, <2>4, NothingAside DEF Appends
  <2>5. CASE \E b, k : WritesBranch(b, k)
    BY <2>2, <2>5, BranchAside DEF Appends
  <2>6. CASE \E s \in Symbols : DeclareLocal(s)
    BY <1>1, <2>1, <2>6, VariableAside DEF Appends
  <2>7. CASE ReturnResumed
    BY <2>2, <2>7, ReturnSection DEF Appends
  <2> QED
    BY <2>3, <2>4, <2>5, <2>6, <2>7
<1>4. CASE Finish \/ Stopped \/ UNCHANGED vars
  <2>1. WritesNothing /\ UNCHANGED todo
    BY <1>4 DEF WritesNothing, Finish, Stopped, vars, program, frees
  <2> QED
    BY <1>1, <2>1, NothingAside DEF Appends
<1>5. CASE \E s \in Symbols : DeclareGlobal(s)
  BY <1>1, <1>5, VariableAside DEF Appends
<1>6. ASSUME NEW params \in ParamLists, VisitFunctionDefinition(params)
      PROVE  Appends
  <2>1. PICK lines : /\ Section(lines) /\ UNCHANGED strings_to_free_
                     /\ \A i \in DOMAIN lines :
                          /\ lines[i].op \in {"define", "alloca", "store"}
                          /\ \A r \in LineDefines(lines[i]) : ~IsTmp(r)
    BY <1>1, <1>6, HeadSection
  <2>2. Aside(lines)
    BY <2>1 DEF Aside, RetOps
  <2> QED
    BY <2>2 DEF Appends
<1>7. CASE EndFunction
  <2>1. PICK lines : /\ Section(lines) /\ UNCHANGED <<functions, strings_to_free_>>
                     /\ \A i \in DOMAIN lines :
                          /\ lines[i].op \in {"end", "constants", "declare_strings"}
                          /\ lines[i].def = NoReg
    BY <1>1, <1>7, TailSection
  <2>2. \A i \in DOMAIN lines : LineDefines(lines[i]) = {}
    BY <2>1 DEF LineDefines
  <2>3. Aside(lines)
    BY <2>1, <2>2 DEF Aside, RetOps
  <2> QED
    BY <2>3 DEF Appends
<1> QED
  BY <1>2, <1>3, <1>4, <1>5, <1>6, <1>7 DEF Next, ExternalStep

LEMMA NextLInv ==
  ASSUME Appends, TypeOK, TypeOK', CInv, CInv', LInv
  PROVE  LInv'
BY SectionKeeps DEF Appends, Aside

-----------------------------------------------------------------------------
(* Temporaries, and the strings among them.                                  *)

LEMMA TmpsKept ==
  ASSUME TypeOK, TmpsFinished, TmpsOnce, NEW lines, IsTuple(lines), Emit(lines),
         \A r : Finished(r) => Finished(r)',
         \A i \in DOMAIN lines : \A r \in LineDefines(lines[i]) :
           IsTmp(r) => DOMAIN lines = {1} /\ ~Finished(r) /\ Finished(r)'
  PROVE  TmpsFinished' /\ TmpsOnce'
<1>1. /\ \A i \in Lines : i \in Lines' /\ out'[i] = out[i]
      /\ \A i \in Lines' : i \in Lines \/ \E k \in DOMAIN lines : i = Len(out) + k
      /\ \A k \in DOMAIN lines : out'[Len(out) + k] = lines[k] /\ Len(out) + k \notin Lines
  BY LinesAfter
<1>2. \A i \in Lines' : \A r \in LineDefines(out'[i]) : IsTmp(r) =>
        \/ i \in Lines /\ out'[i] = out[i] /\ Finished(r) /\ Finished(r)'
        \/ /\ i \notin Lines /\ ~Finished(r) /\ Finished(r)'
           /\ i = Len(out) + 1
  <2> SUFFICES ASSUME NEW i \in Lines', NEW r \in LineDefines(out'[i]), IsTmp(r)
               PROVE  \/ i \in Lines /\ out'[i] = out[i] /\ Finished(r) /\ Finished(r)'
                      \/ /\ i \notin Lines /\ ~Finished(r) /\ Finished(r)'
                         /\ i = Len(out) + 1
    OBVIOUS
  <2>1. CASE i \in Lines
    BY <1>1, <2>1 DEF TmpsFinished
  <2>2. CASE i \notin Lines
    <3>1. PICK k \in DOMAIN lines : i = Len(out) + k
      BY <1>1, <2>2
    <3>2. out'[i] = lines[k]
      BY <1>1, <3>1
    <3>3. DOMAIN lines = {1} /\ ~Finished(r) /\ Finished(r)'
      BY <3>2
    <3> QED
      BY <2>2, <3>1, <3>3
  <2> QED
    BY <2>1, <2>2
<1>3. \A i \in Lines' : \A r \in LineDefines(out'[i]) : IsTmp(r) => Finished(r)'
  BY <1>2
<1>4. ASSUME NEW i \in Lines', NEW j \in Lines', i # j,
             NEW r \in LineDefines(out'[i]) \intersect LineDefines(out'[j]), IsTmp(r)
      PROVE  FALSE
  BY <1>2, <1>4 DEF TmpsOnce
<1> QED
  BY <1>3, <1>4 DEF TmpsFinished, TmpsOnce, LineDefines

LEMMA BuiltKept ==
  ASSUME TypeOK, SlatedBuilt, UnfreedSlated, FreedByReturn,
         NEW lines, IsTuple(lines), Emit(lines),
         \A i \in DOMAIN lines : lines[i].op \notin RetOps \union {"free"},
         strings_to_free_' =
           strings_to_free_ \union {lines[i].def : i \in {k \in DOMAIN lines : lines[k].op = "concat"}}
  PROVE  SlatedBuilt' /\ UnfreedSlated' /\ FreedByReturn'
<1>1. /\ \A i \in Lines : i \in Lines' /\ out'[i] = out[i]
      /\ \A i \in Lines' : i \in Lines \/ \E k \in DOMAIN lines : i = Len(out) + k
      /\ \A k \in DOMAIN lines : Len(out) + k \in Lines' /\ out'[Len(out) + k] = lines[k]
  BY LinesAfter
<1>2. Dead' = Dead
  BY DeadStays
<1>3. IsJoined(out, lines, out')
  BY Written
<1>4. /\ Len(out) \in Nat /\ Len(out') \in Nat /\ Len(out) <= Len(out')
      /\ Lines = 1..Len(out) /\ Lines' = 1..Len(out')
  BY <1>3 DEF IsJoined, Lines
<1>5. \A i \in Lines' : out'[i].op \in RetOps => i \in Lines
  BY <1>1
<1>6. ASSUME NEW r \in (strings_to_free_ \union Dead)'
      PROVE  \E i \in Lines' : out'[i].op = "concat" /\ out'[i].def = r
  <2>1. CASE r \in strings_to_free_ \union Dead
    BY <1>1, <2>1 DEF SlatedBuilt
  <2>2. CASE r \notin strings_to_free_ \union Dead
    <3>1. PICK k \in DOMAIN lines : lines[k].op = "concat" /\ r = lines[k].def
      BY <1>2, <1>6, <2>2
    <3> QED
      BY <1>1, <3>1
  <2> QED
    BY <2>1, <2>2
<1>7. ASSUME NEW i \in Lines', out'[i].op = "concat",
             \A k \in i + 1..Len(out') : out'[k].op \notin RetOps
      PROVE  out'[i].def \in strings_to_free_'
  <2>1. CASE i \in Lines
    <3>1. \A k \in i + 1..Len(out) : k \in Lines /\ k \in i + 1..Len(out')
      BY <1>4, <2>1
    <3>2. \A k \in i + 1..Len(out) : out[k].op \notin RetOps
      BY <1>1, <1>7, <3>1
    <3> QED
      BY <1>1, <1>7, <2>1, <3>2 DEF UnfreedSlated
  <2>2. CASE i \notin Lines
    BY <1>1, <1>7, <2>2
  <2> QED
    BY <2>1, <2>2
<1>8. ASSUME NEW i \in Lines', NEW j \in Lines', i < j, out'[i].op = "concat",
             out'[j].op \in RetOps, \A k \in i + 1..j - 1 : out'[k].op \notin RetOps
      PROVE  j - 1 \in Lines' /\ out'[j - 1].op = "free" /\ out'[i].def \in out'[j - 1].use
  <2>1. j \in Lines /\ i \in Lines
    BY <1>4, <1>5, <1>8
  <2>2. \A k \in i + 1..j - 1 : k \in Lines
    BY <1>4, <2>1
  <2>3. \A k \in i + 1..j - 1 : out[k].op \notin RetOps
    BY <1>1, <1>8, <2>2
  <2>4. out[i].op = "concat" /\ out[j].op \in RetOps
    BY <1>1, <1>8, <2>1
  <2>5. j - 1 \in Lines /\ out[j - 1].op = "free" /\ out[i].def \in out[j - 1].use
    BY <1>8, <2>1, <2>3, <2>4 DEF FreedByReturn
  <2> QED
    BY <1>1, <2>1, <2>5
<1> QED
  BY <1>6, <1>7, <1>8 DEF SlatedBuilt, UnfreedSlated, FreedByReturn

LEMMA ReturnFrees ==
  ASSUME TypeOK, SlatedBuilt, UnfreedSlated, FreedByReturn,
         NEW lines, NEW reg, ReturnBlock(lines, reg), Emit(lines), strings_to_free_' = {}
  PROVE  SlatedBuilt' /\ UnfreedSlated' /\ FreedByReturn'
<1> DEFINE n == Len(lines)
<1>1. /\ IsTuple(lines) /\ n \in {1, 2, 3} /\ DOMAIN lines = 1..n /\ lines[n].op \in RetOps
  BY DEF ReturnBlock
<1>2. /\ strings_to_free_ # {} => n > 1
      /\ n > 1 => lines[n - 1].op = "free" /\ lines[n - 1].use = strings_to_free_
      /\ n > 2 => lines[1].op = "copy"
  BY DEF ReturnBlock
<1>3. /\ \A i \in Lines : i \in Lines' /\ out'[i] = out[i]
      /\ \A i \in Lines' : i \in Lines \/ \E k \in DOMAIN lines : i = Len(out) + k
      /\ \A k \in DOMAIN lines : Len(out) + k \in Lines' /\ out'[Len(out) + k] = lines[k]
  BY <1>1, LinesAfter
<1>4. IsJoined(out, lines, out')
  BY <1>1, Written
<1>5. /\ Len(out) \in Nat /\ Len(out') = Len(out) + n
      /\ Lines = 1..Len(out) /\ Lines' = 1..Len(out')
  BY <1>4 DEF IsJoined, Lines
<1> HIDE DEF n
<1>6. \A k \in 1..n : /\ lines[k].op # "concat"
                      /\ lines[k].op \in RetOps => k = n
                      /\ lines[k].op = "free" => lines[k].use = strings_to_free_
  <2> TAKE k \in 1..n
  <2>1. k = n \/ (k = n - 1 /\ n > 1) \/ (k = 1 /\ n > 2)
    BY <1>1
  <2>2. "concat" \notin RetOps /\ "free" \notin RetOps /\ "copy" \notin RetOps
    BY DEF RetOps
  <2>3. CASE k = n
    BY <1>1, <2>2, <2>3
  <2>4. CASE k = n - 1 /\ n > 1
    BY <1>2, <2>2, <2>4
  <2>5. CASE k = 1 /\ n > 2
    BY <1>2, <2>2, <2>5
  <2> QED
    BY <2>1, <2>3, <2>4, <2>5
<1>7. \A i \in Lines' : out'[i].op = "concat" => i \in Lines
  BY <1>1, <1>3, <1>6
<1>8. Dead' \subseteq Dead \union strings_to_free_
  <2>1. Dead' = UNION {out'[i].use : i \in {k \in Lines' : out'[k].op = "free"}}
    BY DEF Dead
  <2>2. \A i \in Lines : out[i].op = "free" => out[i].use \subseteq Dead
    BY DEF Dead
  <2>3. \A i \in Lines' : out'[i].op = "free" => out'[i].use \subseteq Dead \union strings_to_free_
    BY <1>1, <1>3, <1>6, <2>2
  <2> QED
    BY <2>1, <2>3
<1>9. ASSUME NEW r \in (strings_to_free_ \union Dead)'
      PROVE  \E i \in Lines' : out'[i].op = "concat" /\ out'[i].def = r
  <2>1. r \in strings_to_free_ \union Dead
    BY <1>8, <1>9
  <2> QED
    BY <1>3, <2>1 DEF SlatedBuilt
<1>10. ASSUME NEW i \in Lines', out'[i].op = "concat",
              \A k \in i + 1..Len(out') : out'[k].op \notin RetOps
       PROVE  FALSE
  <2>1. i \in Lines
    BY <1>7, <1>10
  <2>2. Len(out) + n \in i + 1..Len(out') /\ n \in DOMAIN lines
    BY <1>1, <1>5, <2>1
  <2> QED
    BY <1>1, <1>3, <1>10, <2>2
<1>11. ASSUME NEW i \in Lines', NEW j \in Lines', i < j, out'[i].op = "concat",
              out'[j].op \in RetOps, \A k \in i + 1..j - 1 : out'[k].op \notin RetOps
       PROVE  j - 1 \in Lines' /\ out'[j - 1].op = "free" /\ out'[i].def \in out'[j - 1].use
  <2>1. i \in Lines /\ out'[i] = out[i]
    BY <1>3, <1>7, <1>11
  <2>2. CASE j \in Lines
    <3>1. \A k \in i + 1..j - 1 : k \in Lines
      BY <1>5, <2>1, <2>2
    <3>2. \A k \in i + 1..j - 1 : out[k].op \notin RetOps
      BY <1>3, <1>11, <3>1
    <3>3. out[i].op = "concat" /\ out[j].op \in RetOps
      BY <1>3, <1>11, <2>1, <2>2
    <3>4. j - 1 \in Lines /\ out[j - 1].op = "free" /\ out[i].def \in out[j - 1].use
      BY <1>11, <2>1, <2>2, <3>2, <3>3 DEF FreedByReturn
    <3> QED
      BY <1>3, <2>1, <3>4
  <2>3. CASE j \notin Lines
    <3>1. PICK m \in DOMAIN lines : j = Len(out) + m
      BY <1>3, <2>3
    <3>2. m = n
      BY <1>1, <1>3, <1>6, <1>11, <3>1
    <3>3. \A k \in i + 1..Len(out) : k \in Lines /\ k \in i + 1..j - 1
      BY <1>1, <1>5, <2>1, <3>1, <3>2
    <3>4. \A k \in i + 1..Len(out) : out[k].op \notin RetOps
      BY <1>3, <1>11, <3>3
    <3>5. out[i].def \in strings_to_free_
      BY <1>11, <2>1, <3>4 DEF UnfreedSlated
    <3>6. n > 1 /\ n - 1 \in DOMAIN lines /\ Len(out) + (n - 1) = j - 1
      BY <1>1, <1>2, <1>5, <3>1, <3>2, <3>5
    <3>7. j - 1 \in Lines' /\ out'[j - 1] = lines[n - 1]
      BY <1>3, <3>6
    <3> QED
      BY <1>2, <2>1, <3>5, <3>6, <3>7
  <2> QED
    BY <2>2, <2>3
<1>12. SlatedBuilt'
  BY <1>9 DEF SlatedBuilt
<1>13. UnfreedSlated'
  BY <1>10 DEF UnfreedSlated
<1>14. FreedByReturn'
  BY <1>11 DEF FreedByReturn
<1> QED
  BY <1>12, <1>13, <1>14

LEMMA NextNInv ==
  ASSUME SymbolsAssumption, BoundsAssumption, NoTmpSymbol, IInv, VInv, RInv, NInv,
         [Next]_vars, Appends
  PROVE  NInv'
<1>1. \A r : Finished(r) => Finished(r)'
  BY NextRInv
<1>2. TypeOK /\ TmpsFinished /\ TmpsOnce /\ SlatedBuilt /\ UnfreedSlated /\ FreedByReturn
  BY DEF IInv, NInv
<1>3. ASSUME NEW l, WritesValue(l)
      PROVE  NInv'
  <2> DEFINE lines == <<l>>
  <2>1. IsTuple(lines) /\ DOMAIN lines = {1} /\ lines[1] = l /\ Emit(lines)
    BY <1>3, TupleItems DEF WritesValue
  <2> HIDE DEF lines
  <2>2. /\ todo # <<>> /\ Become(<<>>) /\ l.op \in ValueOps
        /\ \/ ~IsTmp(l.def) /\ l.op # "concat"
           \/ UNCHANGED register_reference_ /\ Top.node \in Owns(Top) /\ l.def = register_reference_[Top.node]
        /\ strings_to_free_' = IF l.op = "concat" THEN strings_to_free_ \union {l.def}
                               ELSE strings_to_free_
    BY <1>3 DEF WritesValue
  <2>3. 1 \in DOMAIN todo /\ Top = todo[1]
    BY <1>2, <2>2, TopEntry
  <2>4. ASSUME IsTmp(l.def)
        PROVE  ~Finished(l.def) /\ Finished(l.def)'
    <3>1. UNCHANGED register_reference_ /\ Top.node \in Owns(Top) /\ l.def = register_reference_[Top.node]
      BY <2>2, <2>4
    <3>2. Names(<<>>)
      BY <2>2, <3>1, NoEntries DEF Names
    <3>3. ~Finished(l.def)
      BY <2>3, <3>1, OwnedUnfinished
    <3>4. PICK n : n = Top.node
      OBVIOUS
    <3>5. Finished(l.def)'
      <4>1. Finished(register_reference_[n])'
        BY <3>1, <3>2, <3>4, NamesKept
      <4>2. l.def = register_reference_'[n]
        BY <3>1, <3>4
      <4> QED
        BY <4>1, <4>2 DEF Finished
    <3> QED
      BY <3>3, <3>5
  <2>5. \A i \in DOMAIN lines : \A r \in LineDefines(lines[i]) :
          IsTmp(r) => DOMAIN lines = {1} /\ ~Finished(r) /\ Finished(r)'
    <3>1. \A r \in LineDefines(l) : r = l.def
      BY <2>2 DEF LineDefines, ValueOps
    <3> QED
      BY <2>1, <2>4, <3>1
  <2>6. TmpsFinished' /\ TmpsOnce'
    BY <1>1, <1>2, <2>1, <2>5, TmpsKept
  <2>7. \A i \in DOMAIN lines : lines[i].op \notin RetOps \union {"free"}
    BY <2>1, <2>2 DEF ValueOps, RetOps
  <2>8. strings_to_free_' =
          strings_to_free_ \union {lines[i].def : i \in {k \in DOMAIN lines : lines[k].op = "concat"}}
    BY <2>1, <2>2
  <2>9. SlatedBuilt' /\ UnfreedSlated' /\ FreedByReturn'
    BY <1>2, <2>1, <2>7, <2>8, BuiltKept
  <2> QED
    BY <2>6, <2>9 DEF NInv
<1>4. ASSUME NEW lines, Section(lines), NEW reg, ReturnBlock(lines, reg), strings_to_free_' = {}
      PROVE  NInv'
  <2>1. IsTuple(lines) /\ Emit(lines) /\ DOMAIN lines = 1..Len(lines)
    BY <1>4 DEF Section, ReturnBlock
  <2>2. \A i \in DOMAIN lines : lines[i].op # "define" /\ (lines[i].def = NoReg \/ lines[i].def = ReturnCopy)
    <3>1. \A i \in DOMAIN lines : lines[i].def = NoReg \/ lines[i].def = ReturnCopy
      BY <1>4, <2>1 DEF ReturnBlock
    <3> DEFINE n == Len(lines)
    <3>2. n \in {1, 2, 3} /\ lines[n].op \in RetOps /\ (n > 1 => lines[n - 1].op = "free")
          /\ (n > 2 => lines[1].op = "copy")
      BY <1>4 DEF ReturnBlock
    <3>3. \A i \in DOMAIN lines : i = n \/ (i = n - 1 /\ n > 1) \/ (i = 1 /\ n > 2)
      BY <2>1, <3>2
    <3> HIDE DEF n
    <3> QED
      BY <3>1, <3>2, <3>3 DEF RetOps
  <2>3. \A i \in DOMAIN lines : \A r \in LineDefines(lines[i]) : ~IsTmp(r)
    BY <2>2, NotTmps DEF LineDefines
  <2>4. TmpsFinished' /\ TmpsOnce'
    BY <1>1, <1>2, <2>1, <2>3, TmpsKept
  <2>5. SlatedBuilt' /\ UnfreedSlated' /\ FreedByReturn'
    BY <1>2, <1>4, <2>1, ReturnFrees
  <2> QED
    BY <2>4, <2>5 DEF NInv
<1>5. ASSUME NEW lines, Aside(lines)
      PROVE  NInv'
  <2>1. /\ IsTuple(lines) /\ Emit(lines) /\ UNCHANGED strings_to_free_
        /\ \A i \in DOMAIN lines : lines[i].op \notin RetOps \union {"free"} /\ lines[i].op # "concat"
        /\ \A i \in DOMAIN lines : \A r \in LineDefines(lines[i]) : ~IsTmp(r)
    BY <1>5 DEF Aside, Section
  <2>2. TmpsFinished' /\ TmpsOnce'
    BY <1>1, <1>2, <2>1, TmpsKept
  <2>3. strings_to_free_' =
          strings_to_free_ \union {lines[i].def : i \in {k \in DOMAIN lines : lines[k].op = "concat"}}
    BY <2>1
  <2>4. SlatedBuilt' /\ UnfreedSlated' /\ FreedByReturn'
    BY <1>2, <2>1, <2>3, BuiltKept
  <2> QED
    BY <2>2, <2>4 DEF NInv
<1> QED
  BY <1>3, <1>4, <1>5 DEF Appends

LEMMA NumberReferred ==
  ASSUME ReferencesNumbered, NEW n, NEW r, Refer(n, r), r = Literal \/ r.id \in Nat
  PROVE  ReferencesNumbered'
<1>1. DOMAIN register_reference_' = DOMAIN register_reference_ \union {n}
  BY DEF Refer, With
<1>2. \A m \in DOMAIN register_reference_' :
        register_reference_'[m] = IF m = n THEN r ELSE register_reference_[m]
  BY <1>1 DEF Refer, With
<1> QED
  BY <1>1, <1>2 DEF ReferencesNumbered

LEMMA ReferencesKept ==
  ASSUME IInv, ReferencesNumbered, [Next]_vars
  PROVE  ReferencesNumbered'
<1>1. TypeOK /\ FreshTmp.id \in Nat
  BY FS_CardinalityType, RegisterFields DEF IInv, TypeOK, FreshTmp
<1>2. CASE UNCHANGED register_reference_
  BY <1>2 DEF ReferencesNumbered
<1>3. CASE \/ VisitUnary \/ VisitBinary
           \/ \E ordering \in BOOLEAN, lhs, rhs \in SourceTypes : VisitCondition(ordering, lhs, rhs)
           \/ \E s \in Symbols : VisitAssignment(s)
           \/ \E k \in 0..MaxArgs : \E types \in [1..k -> SourceTypes] : VisitFunctionCall(types)
  <2>1. Refer(Top.node, FreshTmp)
    BY <1>3 DEF VisitUnary, VisitBinary, VisitCondition, VisitAssignment, VisitFunctionCall
  <2> QED
    BY <1>1, <2>1, NumberReferred
<1>4. CASE VisitConstInteger
  BY <1>4, NumberReferred DEF VisitConstInteger
<1>5. CASE VisitConstString
  <2>1. Refer(Top.node, StrReg(const_string_next_id_)) /\ StrReg(const_string_next_id_).id \in Nat
    BY <1>1, <1>5, RegisterFields DEF VisitConstString, TypeOK
  <2> QED
    BY <2>1, NumberReferred
<1>6. ASSUME NEW s \in Symbols, VisitVariable(s)
      PROVE  ReferencesNumbered'
  <2>1. VarCount(s) \in Nat
    BY <1>1 DEF VarCount, TypeOK
  <2>2. Refer(Top.node, Load(s, VarCount(s))) /\ Load(s, VarCount(s)).id \in Nat
    BY <1>6, <2>1, RegisterFields DEF VisitVariable
  <2> QED
    BY <2>2, NumberReferred
<1>7. \/ UNCHANGED register_reference_
      \/ VisitUnary \/ VisitBinary \/ VisitConstInteger \/ VisitConstString
      \/ \E ordering \in BOOLEAN, lhs, rhs \in SourceTypes : VisitCondition(ordering, lhs, rhs)
      \/ \E s \in Symbols : VisitAssignment(s) \/ VisitVariable(s)
      \/ \E k \in 0..MaxArgs : \E types \in [1..k -> SourceTypes] : VisitFunctionCall(types)
  <2>1. CASE InstructionStep
    BY <2>1 DEF InstructionStep, VisitExpressionInstruction, VisitAssignmentInstruction,
       VisitCondInstruction, VisitWhileInstruction, VisitDoInstruction, VisitForInstruction,
       BranchResumed, JumpResumed, VisitReturnInstruction, ReturnResumed,
       VisitCompoundInstruction, VisitNull, DeclareLocal, NextInstruction, EndCompound
  <2>2. CASE ExternalStep \/ Stopped \/ UNCHANGED vars
    BY <2>2 DEF ExternalStep, Stopped, vars, DeclareGlobal, VisitFunctionDefinition, EndFunction, Finish
  <2>3. CASE UnaryResumed \/ BinaryResumed \/ ConditionResumed \/ AssignmentResumed \/ FunctionCallResumed
    BY <2>3 DEF UnaryResumed, BinaryResumed, ConditionResumed, AssignmentResumed, FunctionCallResumed
  <2> QED
    BY <2>1, <2>2, <2>3 DEF Next, ExpressionStep
<1> QED
  BY <1>2, <1>3, <1>4, <1>5, <1>6, <1>7

LEMMA InitOInv == Init => OInv
<1> SUFFICES ASSUME Init PROVE OInv
  OBVIOUS
<1>1. Lines = {} /\ strings_to_free_ = {} /\ DOMAIN register_reference_ = {}
  BY EmptySeq DEF Init, Lines
<1>2. Dead = {}
  BY <1>1 DEF Dead
<1>3. \A f, ops : LabelsOf(f, ops) = {}
  BY <1>1 DEF LabelsOf
<1>4. LInv
  BY <1>1, <1>3 DEF LInv, Continued, InOrder, LabelsMeet, LinesWellFormed, ReturnsWhole,
     OperandsNumbered
<1>5. NInv
  BY <1>1, <1>2 DEF NInv, TmpsFinished, TmpsOnce, SlatedBuilt, UnfreedSlated, FreedByReturn
<1>6. ReferencesNumbered
  BY <1>1 DEF ReferencesNumbered
<1> QED
  BY <1>4, <1>5, <1>6 DEF OInv

LEMMA NextOInv ==
  ASSUME SymbolsAssumption, BoundsAssumption, NoTmpSymbol, IInv, VInv, RInv, SInv, CInv,
         TypeOK', CInv', OInv, [Next]_vars
  PROVE  OInv'
<1>1. TypeOK /\ LInv /\ NInv /\ ReferencesNumbered
  BY DEF IInv, OInv
<1>2. Appends
  BY <1>1, StepAppends
<1> QED
  BY <1>1, <1>2, NextLInv, NextNInv, ReferencesKept DEF OInv

(* The process ends between two external declarations, and stays ended.       *)
Ended == status = "finished" => todo = <<>>

LEMMA FinishedStops ==
  ASSUME status = "finished", [Next]_vars
  PROVE  UNCHANGED vars
<1>1. ~ExpressionStep
  BY DEF At, ExpressionStep, VisitVariable, VisitConstInteger, VisitConstString, VisitUnary,
     UnaryResumed, VisitBinary, BinaryResumed, VisitCondition, ConditionResumed,
     VisitAssignment, AssignmentResumed, VisitFunctionCall, FunctionCallResumed
<1>2. ~InstructionStep
  BY DEF At, InstructionStep, VisitExpressionInstruction, VisitAssignmentInstruction,
     VisitCondInstruction, VisitWhileInstruction, VisitDoInstruction, VisitForInstruction,
     BranchResumed, JumpResumed, VisitReturnInstruction, ReturnResumed,
     VisitCompoundInstruction, VisitNull, DeclareLocal, NextInstruction, EndCompound
<1>3. ~ExternalStep
  BY DEF At, Idle, ExternalStep, DeclareGlobal, VisitFunctionDefinition, EndFunction, Finish
<1> QED
  BY <1>1, <1>2, <1>3 DEF Next, Stopped

LEMMA NextEnded ==
  ASSUME Ended, [Next]_vars
  PROVE  Ended'
<1>1. CASE ExpressionStep
  <2>1. ~(status' = "finished")
    BY <1>1 DEF At, ExpressionStep, VisitVariable, VisitConstInteger, VisitConstString, VisitUnary,
       UnaryResumed, VisitBinary, BinaryResumed, VisitCondition, ConditionResumed,
       VisitAssignment, AssignmentResumed, VisitFunctionCall, FunctionCallResumed
  <2> QED
    BY <2>1 DEF Ended
<1>2. CASE InstructionStep
  <2>1. ~(status' = "finished")
    BY <1>2 DEF At, InstructionStep, VisitExpressionInstruction, VisitAssignmentInstruction,
       VisitCondInstruction, VisitWhileInstruction, VisitDoInstruction, VisitForInstruction,
       BranchResumed, JumpResumed, VisitReturnInstruction, ReturnResumed,
       VisitCompoundInstruction, VisitNull, DeclareLocal, NextInstruction, EndCompound
  <2> QED
    BY <2>1 DEF Ended
<1>3. CASE \/ \E s \in Symbols : DeclareGlobal(s)
           \/ \E params \in ParamLists : VisitFunctionDefinition(params)
           \/ EndFunction
  <2>1. ~(status' = "finished")
    BY <1>3 DEF At, Idle, DeclareGlobal, VisitFunctionDefinition, EndFunction
  <2> QED
    BY <2>1 DEF Ended
<1>4. CASE Finish
  BY <1>4 DEF Finish, Idle, Ended
<1>5. CASE Stopped \/ UNCHANGED vars
  BY <1>5 DEF Stopped, vars, Ended
<1> QED
  BY <1>1, <1>2, <1>3, <1>4, <1>5 DEF Next, ExternalStep

(* What the generator has written, together.                                 *)
Generated == IInv /\ VInv /\ RInv /\ FInv /\ SInv /\ CInv /\ OInv /\ Ended

LEMMA Output ==
  ASSUME NoTmpSymbol
  PROVE  Spec => []Generated
<1>1. Init => OInv
  BY InitOInv
<1>2. /\ IInv /\ VInv /\ RInv /\ SInv /\ CInv /\ TypeOK' /\ CInv' /\ OInv /\ [Next]_vars
      => OInv'
  BY NextOInv, SymbolsAssumption, BoundsAssumption
<1>3. Spec => [](IInv /\ VInv /\ RInv /\ FInv)
  BY Strings
<1>4. IInv /\ VInv /\ RInv /\ FInv /\ SInv /\ CInv /\ OInv /\ Ended => Generated
  BY DEF Generated
<1>5. (Init => Ended) /\ (Ended /\ [Next]_vars => Ended')
  BY NextEnded DEF Init, Ended
<1> QED
  BY <1>1, <1>2, <1>3, <1>4, <1>5, StringFunctions, ControlFlow, TypeCorrect, PTL DEF Spec

-----------------------------------------------------------------------------
(* A finished program.                                                       *)

LEMMA LineAfter ==
  ASSUME Generated, todo = <<>>, NEW i \in Lines, out[i].op \in BodyOps \union {"define"}
  PROVE  /\ i \in Nat /\ i > 0 /\ i + 1 \in Lines
         /\ out[i + 1].fn = out[i].fn /\ out[i + 1].op \in BodyOps \union {"end"}
<1>1. Lines = 1..Len(out) /\ Len(out) \in Nat
  BY LenProperties DEF Generated, IInv, TypeOK, Lines
<1>2. IF i = Len(out) THEN todo # <<>> /\ out[i].fn = functions
      ELSE out[i + 1].fn = out[i].fn /\ out[i + 1].op \in BodyOps \union {"end"}
  BY DEF Generated, OInv, LInv, Continued
<1>3. i # Len(out)
  BY <1>2
<1> QED
  BY <1>1, <1>2, <1>3

(* Between two lines of a function there are lines of this function only.     *)
LEMMA LinesBetween ==
  ASSUME Generated, NEW i \in Lines, NEW p \in Lines, out[p].fn = out[i].fn, NEW k \in i..p
  PROVE  k \in Lines /\ out[k].fn = out[i].fn
<1>1. /\ Lines = 1..Len(out) /\ Len(out) \in Nat
      /\ \A j \in Lines : out[j].fn \in Nat
  BY LenProperties, WrittenTyped DEF Generated, IInv, TypeOK, Lines
<1>2. k \in Lines
  BY <1>1
<1>3. InOrder
  BY DEF Generated, OInv, LInv
<1>4. i <= k /\ k <= p
  BY <1>1
<1>5. out[i].fn <= out[k].fn /\ out[k].fn <= out[p].fn
  <2>1. CASE i = k /\ k = p
    BY <1>1, <2>1
  <2>2. CASE i = k /\ k < p
    BY <1>1, <1>2, <1>3, <2>2 DEF InOrder
  <2>3. CASE i < k /\ k = p
    BY <1>1, <1>2, <1>3, <2>3 DEF InOrder
  <2>4. CASE i < k /\ k < p
    BY <1>1, <1>2, <1>3, <2>4 DEF InOrder
  <2> QED
    BY <1>1, <1>2, <1>4, <2>1, <2>2, <2>3, <2>4
<1> QED
  BY <1>1, <1>2, <1>5

(* What a concatenation defines, no other line defines.                      *)
LEMMA ConcatDefines ==
  ASSUME Generated, NEW i \in Lines, out[i].op = "concat"
  PROVE  /\ IsTmp(out[i].def) /\ out[i].def # ReturnCopy /\ out[i].def # NoReg
         /\ \A j \in Lines : out[i].def \in LineDefines(out[j]) => j = i
<1>1. WellFormed(out[i])
  BY DEF Generated, OInv, LInv, LinesWellFormed
<1>2. IsTmp(out[i].def)
  BY <1>1 DEF WellFormed
<1>3. out[i].def # ReturnCopy /\ out[i].def # NoReg
  BY <1>2, NotTmps
<1>4. out[i].def \in LineDefines(out[i])
  BY <1>3 DEF LineDefines
<1>5. TmpsOnce
  BY DEF Generated, OInv, NInv
<1> QED
  BY <1>2, <1>3, <1>4, <1>5 DEF TmpsOnce

LEMMA DeadBuilt ==
  ASSUME Generated, NEW r \in Dead
  PROVE  /\ IsTmp(r) /\ r # ReturnCopy /\ r # Literal /\ r # NoReg
         /\ \A j \in Lines : r \in LineDefines(out[j]) => out[j].op = "concat"
<1>1. PICK i \in Lines : out[i].op = "concat" /\ out[i].def = r
  BY DEF Generated, OInv, NInv, SlatedBuilt
<1> QED
  BY <1>1, ConcatDefines, NotTmps

(* After a copy come the frees and the ret of its return.                     *)
LEMMA AfterCopy ==
  ASSUME Generated, todo = <<>>, NEW i \in Lines, out[i].op = "copy",
         NEW p \in Lines, i < p, out[p].fn = out[i].fn,
         \A k \in 1..p - 1 : out[k].fn = out[i].fn => out[k].op \notin RetOps
  PROVE  out[p].op = "free" \/ (out[p].op \in RetOps /\ out[p].use = {ReturnCopy})
<1>1. /\ Lines = 1..Len(out) /\ Len(out) \in Nat
  BY LenProperties DEF Generated, IInv, TypeOK, Lines
<1>2. PICK j \in {i + 1, i + 2} \intersect Lines :
           /\ out[j].op \in RetOps /\ out[j].use = {ReturnCopy}
           /\ \A k \in i + 1..j - 1 : out[k].op = "free"
  BY DEF Generated, OInv, LInv, ReturnsWhole
<1>3. CASE p < j
  <2>1. p \in i + 1..j - 1
    BY <1>1, <1>2, <1>3
  <2> QED
    BY <1>2, <2>1
<1>4. CASE p = j
  BY <1>2, <1>4
<1>5. CASE p > j
  <2>1. j \in i..p /\ j \in 1..p - 1
    BY <1>1, <1>2, <1>5
  <2>2. out[j].fn = out[i].fn
    BY <2>1, LinesBetween
  <2> QED
    BY <1>2, <2>1, <2>2
<1> QED
  BY <1>1, <1>2, <1>3, <1>4, <1>5

(* A branch goes to the line of a label.                                     *)
LEMMA BranchLands ==
  ASSUME Generated, todo = <<>>, NEW p \in Lines, out[p].op \in BranchOps, NEW l \in out[p].to
  PROVE  LineOf(l) \in Lines /\ out[LineOf(l)].op = "label"
<1>1. /\ LabelTaken /\ LabelsMeet /\ \A i \in Lines : out[i].fn <= functions
      /\ \A i \in Lines : out[i].fn \in Nat
      /\ functions \in Nat
  BY WrittenTyped DEF Generated, IInv, TypeOK, CInv, Closed, OInv, LInv
<1>2. out[p].fn \in 0..functions
  BY <1>1
<1>3. l \in LabelsOf(out[p].fn, BranchOps)
  BY DEF LabelsOf
<1>4. l \in LabelsOf(out[p].fn, {"label"})
  BY <1>1, <1>2, <1>3 DEF LabelsMeet
<1>5. PICK i \in Lines : out[i].op = "label" /\ l \in out[i].to
  BY <1>4 DEF LabelsOf
<1>6. out[i].to = {l}
  BY <1>1, <1>5 DEF LabelTaken
<1> QED
  BY <1>5, <1>6 DEF LineOf

(* The value a line reads is that of a line of its block.                     *)
LEMMA OperandSet ==
  ASSUME Generated, NEW j \in Lines, out[j].op # "free", NEW r \in LineOperands(out[j])
  PROVE  \E i \in 1..j - 1 :
           /\ SameBlock(i, j)
           /\ \/ out[i].op = "define" /\ r \in out[i].use
              \/ out[i].op \in SettingOps /\ out[i].def = r
<1>1. /\ ValuesComputed /\ OperandsNumbered /\ LinesWellFormed
      /\ Lines = 1..Len(out) /\ Len(out) \in Nat
  BY LenProperties DEF Generated, VInv, OInv, LInv, IInv, TypeOK, Lines
<1>2. CASE r.id \in Nat \/ r = ReturnCopy
  <2>1. r \in Operands(j)
    BY DEF Operands, LineOperands
  <2>2. PICK i \in 1..j - 1 : SameBlock(i, j) /\ r \in Defines(i)
    BY <1>1, <2>1 DEF ValuesComputed
  <2>3. i \in Lines /\ WellFormed(out[i])
    BY <1>1 DEF LinesWellFormed
  <2>4. CASE out[i].op = "define"
    BY <2>2, <2>4 DEF Defines
  <2>5. CASE out[i].op # "define"
    <3>1. r = out[i].def /\ r # NoReg
      BY <2>2, <2>5 DEF Defines
    <3>2. NoId \notin Nat
      BY DEF NoId
    <3>3. out[i].op \in SettingOps
      BY <1>2, <2>3, <3>1, <3>2 DEF WellFormed
    <3> QED
      BY <2>2, <3>1, <3>3
  <2> QED
    BY <2>4, <2>5
<1>3. CASE ~(r.id \in Nat \/ r = ReturnCopy)
  BY <1>1, <1>3 DEF OperandsNumbered
<1> QED
  BY <1>2, <1>3

-----------------------------------------------------------------------------
(* The machine.                                                              *)

Held == {Foreign, Garbage} \union {Block(n) : n \in DOMAIN blocks}

MachineTyped ==
  /\ pc \in Nat
  /\ pc # 0 => pc \in Lines /\ out[pc].op \in BodyOps \union {"end"}
  /\ pc # 0 => status = "finished"
  /\ fault # NoFault => pc # 0
  /\ activations \in Nat /\ current \in 0..activations
  /\ strays = 0
  /\ IsTuple(blocks)
  /\ \A n \in DOMAIN blocks :
       /\ blocks[n] = [by |-> blocks[n].by, freedBy |-> blocks[n].freedBy, frees |-> blocks[n].frees]
       /\ blocks[n].by \in 0..activations /\ blocks[n].freedBy \in 0..activations
       /\ blocks[n].frees \in Nat
  /\ \A r \in DOMAIN registers : registers[r] \in Held
  /\ \A a \in DOMAIN memory : memory[a] \in Held

(* The activations that wait are at a call, and no two of them are the same.   *)
FramesTyped ==
  /\ IsTuple(frames)
  /\ frames # <<>> => pc # 0
  /\ \A i \in DOMAIN frames :
       /\ frames[i].pc \in Lines /\ out[frames[i].pc].op \in CallOps
       /\ frames[i].number \in 0..activations /\ frames[i].number # current
       /\ \A j \in DOMAIN frames : frames[j].number = frames[i].number => j = i
       /\ \A r \in DOMAIN frames[i].registers : frames[i].registers[r] \in Held

(* What is known of an activation, the one that runs or one that waits: n is  *)
(* its number, p its line, R its registers, B the heap.                      *)

(* Until its return frees them, the strings it has built and will free are     *)
(* different blocks of its own, not freed; and it has freed none.             *)
Holds(p, R, n, B) ==
  out[p].op \notin RetOps =>
    /\ \A r \in Dead \intersect DOMAIN R :
         \E k \in DOMAIN B : R[r] = Block(k) /\ B[k].frees = 0 /\ B[k].by = n
    /\ \A q, r \in Dead \intersect DOMAIN R : R[q] = R[r] => q = r
    /\ \A k \in DOMAIN B : B[k].frees > 0 => B[k].freedBy # n

(* What the lines of the block before its line define has been set.           *)
Present(p, R) ==
  \A i \in 1..p - 1 : SameBlock(i, p) =>
    /\ out[i].op \in SettingOps => out[i].def \in DOMAIN R
    /\ out[i].op = "define" => out[i].use \subseteq DOMAIN R

(* A function without labels is run from its head; its blocks are in the      *)
(* registers of the concatenations and the copy before its line.              *)
BuiltBefore(p, R, k) ==
  \E i \in 1..p - 1 :
    /\ out[i].fn = out[p].fn /\ out[i].op \in {"concat", "copy"}
    /\ out[i].def \in DOMAIN R /\ R[out[i].def] = Block(k)

RunsStraight(p, R, n, B) ==
  Straight(out[p].fn) =>
    /\ \A k \in 1..p - 1 : out[k].fn = out[p].fn => out[k].op \notin RetOps
    /\ \A k \in DOMAIN B : B[k].by = n => BuiltBefore(p, R, k)

Sound(p, R, n, B) == Holds(p, R, n, B) /\ Present(p, R) /\ RunsStraight(p, R, n, B)

Current == pc # 0 => Sound(pc, registers, current, blocks)

Suspended ==
  \A i \in DOMAIN frames :
    Sound(frames[i].pc, frames[i].registers, frames[i].number, blocks)

(* A return has freed what its line names.                                   *)
JustFreed ==
  pc # 0 /\ Ln.op \in RetOps /\ pc - 1 \in Lines /\ out[pc - 1].op = "free" =>
    \A r \in out[pc - 1].use :
      /\ r \in DOMAIN registers
      /\ \E n \in DOMAIN blocks : registers[r] = Block(n) /\ blocks[n].frees = 1

Faults ==
  /\ fault.kind = "dangling" /\ fault.block # 0 =>
       fault.block \in DOMAIN blocks /\ blocks[fault.block].freedBy \notin Active
  /\ fault.kind = "undefined" => out[fault.line].op = "free"

EInv == /\ MachineTyped /\ FramesTyped /\ Current /\ Suspended /\ JustFreed
        /\ FreedByMaker /\ Faults

LEMMA Blocks ==
  /\ \A n : Block(n).kind = "block" /\ Block(n).block = n
  /\ Foreign.kind = "foreign" /\ Garbage.kind = "garbage"
  /\ Foreign.block = 0 /\ Garbage.block = 0
  /\ \A m, n : Block(m) = Block(n) => m = n
<1>1. \A n : Block(n).kind = "block" /\ Block(n).block = n
  BY DEF Block, Value
<1>2. /\ Foreign.kind = "foreign" /\ Garbage.kind = "garbage"
      /\ Foreign.block = 0 /\ Garbage.block = 0
  BY DEF Foreign, Garbage, Value
<1>3. ASSUME NEW m, NEW n, Block(m) = Block(n)
      PROVE  m = n
  <2>1. Block(m).block = m /\ Block(n).block = n
    BY <1>1
  <2> QED
    BY <1>3, <2>1
<1> QED
  BY <1>1, <1>2, <1>3

(* The program does not change under the machine.                            *)
LEMMA ProgramKept ==
  ASSUME UNCHANGED vars
  PROVE  /\ Lines' = Lines /\ out' = out /\ Dead' = Dead /\ status' = status
         /\ \A i, j : SameBlock(i, j)' <=> SameBlock(i, j)
         /\ \A f : Straight(f)' <=> Straight(f)
<1>1. out' = out /\ status' = status /\ Lines' = Lines
  BY DEF vars, Lines
<1>2. Dead' = Dead
  BY <1>1 DEF Dead
<1>3. \A i, j : SameBlock(i, j)' <=> SameBlock(i, j)
  BY <1>1 DEF SameBlock
<1>4. \A f : Straight(f)' <=> Straight(f)
  BY <1>1 DEF Straight
<1> QED
  BY <1>1, <1>2, <1>3, <1>4

LEMMA RunningLine ==
  ASSUME Generated, EInv, Running
  PROVE  /\ pc \in Nat /\ pc > 0 /\ pc \in Lines /\ pc - 1 \in Nat
         /\ status = "finished" /\ todo = <<>> /\ fault = NoFault
         /\ Ln.op \in BodyOps \union {"end"} /\ Ln = out[pc]
         /\ Lines = 1..Len(out) /\ Len(out) \in Nat
<1>1. /\ pc \in Nat /\ pc # 0 /\ pc \in Lines /\ out[pc].op \in BodyOps \union {"end"}
      /\ status = "finished"
  BY DEF EInv, MachineTyped, Running
<1>2. todo = <<>>
  BY <1>1 DEF Generated, Ended
<1>3. Lines = 1..Len(out) /\ Len(out) \in Nat
  BY LenProperties DEF Generated, IInv, TypeOK, Lines
<1> QED
  BY <1>1, <1>2, <1>3 DEF Ln, Running

LEMMA CurrentLater ==
  ASSUME UNCHANGED vars, pc' # 0 => Sound(pc', registers', current', blocks')
  PROVE  Current'
<1>1. out' = out /\ Dead' = Dead
  BY ProgramKept
<1> SUFFICES ASSUME pc' # 0
             PROVE  Sound(pc, registers, current, blocks)'
  BY DEF Current
<1>2. Holds(pc, registers, current, blocks)'
  BY <1>1 DEF Sound, Holds, Block, Value
<1>3. Present(pc, registers)'
  BY <1>1 DEF Sound, Present, SameBlock
<1>4. RunsStraight(pc, registers, current, blocks)'
  BY <1>1, ProgramKept DEF Sound, RunsStraight, BuiltBefore, Block, Value, Straight
<1> QED
  BY <1>2, <1>3, <1>4 DEF Sound

LEMMA WaitingLater ==
  ASSUME UNCHANGED vars,
         \A i \in DOMAIN frames' :
           Sound(frames'[i].pc, frames'[i].registers, frames'[i].number, blocks')
  PROVE  Suspended'
<1>1. out' = out /\ Dead' = Dead
  BY ProgramKept
<1> SUFFICES ASSUME NEW i \in DOMAIN frames'
             PROVE  Sound(frames[i].pc, frames[i].registers, frames[i].number, blocks)'
  BY DEF Suspended
<1>2. Sound(frames'[i].pc, frames'[i].registers, frames'[i].number, blocks')
  OBVIOUS
<1>3. Holds(frames[i].pc, frames[i].registers, frames[i].number, blocks)'
  BY <1>1, <1>2 DEF Sound, Holds, Block, Value
<1>4. Present(frames[i].pc, frames[i].registers)'
  BY <1>1, <1>2 DEF Sound, Present, SameBlock
<1>5. RunsStraight(frames[i].pc, frames[i].registers, frames[i].number, blocks)'
  BY <1>1, <1>2, ProgramKept DEF Sound, RunsStraight, BuiltBefore, Block, Value, Straight
<1> QED
  BY <1>3, <1>4, <1>5 DEF Sound

-----------------------------------------------------------------------------
(* From a line to the next.  A line other than a free or a ret sets the        *)
(* register it defines, an allocation to a new block.                        *)

SetsAt(p, R, R2) ==
  /\ \A r \in DOMAIN R :
       /\ r \in DOMAIN R2
       /\ R2[r] = R[r] \/ (out[p].op \in SettingOps /\ r = out[p].def)
  /\ \A r \in DOMAIN R2 : r \in DOMAIN R \/ (out[p].op \in SettingOps /\ r = out[p].def)
  /\ out[p].op \in SettingOps => out[p].def \in DOMAIN R2

MakesAt(p, R2, n, B, B2) ==
  /\ \A k \in DOMAIN B : k \in DOMAIN B2 /\ B2[k] = B[k]
  /\ \A k \in DOMAIN B2 : k \notin DOMAIN B =>
       /\ B2[k] = [by |-> n, freedBy |-> 0, frees |-> 0]
       /\ out[p].op \in {"concat", "copy"} /\ R2[out[p].def] = Block(k)
  /\ out[p].op \in {"concat", "copy"} =>
       \E k \in DOMAIN B2 : k \notin DOMAIN B /\ R2[out[p].def] = Block(k)

LEMMA HoldsNext ==
  ASSUME Generated, NEW p \in Lines, out[p].op \in BodyOps \ (RetOps \union {"free"}),
         NEW R, NEW n, NEW B, Holds(p, R, n, B),
         NEW R2, NEW B2, SetsAt(p, R, R2), MakesAt(p, R2, n, B, B2)
  PROVE  Holds(p + 1, R2, n, B2)
<1>1. /\ \A r \in Dead \intersect DOMAIN R :
           \E k \in DOMAIN B : R[r] = Block(k) /\ B[k].frees = 0 /\ B[k].by = n
      /\ \A q, r \in Dead \intersect DOMAIN R : R[q] = R[r] => q = r
      /\ \A k \in DOMAIN B : B[k].frees > 0 => B[k].freedBy # n
  BY DEF Holds
<1>2. /\ \A k \in DOMAIN B : k \in DOMAIN B2 /\ B2[k] = B[k]
      /\ \A k \in DOMAIN B2 : k \notin DOMAIN B =>
           B2[k].frees = 0 /\ B2[k].by = n /\ ~(B2[k].frees > 0)
      /\ out[p].op = "concat" =>
           \E k \in DOMAIN B2 : k \notin DOMAIN B /\ R2[out[p].def] = Block(k)
  BY DEF MakesAt
<1>3. \A r \in Dead \intersect DOMAIN R2 :
        \/ r \in DOMAIN R /\ R2[r] = R[r] /\ r # out[p].def
        \/ r = out[p].def /\ out[p].op = "concat"
  <2> SUFFICES ASSUME NEW r \in Dead, r \in DOMAIN R2,
                      ~(r \in DOMAIN R /\ R2[r] = R[r] /\ r # out[p].def)
               PROVE  r = out[p].def /\ out[p].op = "concat"
    OBVIOUS
  <2>1. r = out[p].def
    BY DEF SetsAt
  <2>2. out[p].op # "define"
    BY DEF BodyOps
  <2>3. r # NoReg /\ (r \in LineDefines(out[p]) => out[p].op = "concat")
    BY DeadBuilt
  <2> QED
    BY <2>1, <2>2, <2>3 DEF LineDefines
<1>4. ASSUME NEW r \in Dead \intersect DOMAIN R2
      PROVE  \E k \in DOMAIN B2 : /\ R2[r] = Block(k) /\ B2[k].frees = 0 /\ B2[k].by = n
                                  /\ r # out[p].def => k \in DOMAIN B
                                  /\ r = out[p].def => k \notin DOMAIN B
  <2>1. CASE r \in DOMAIN R /\ R2[r] = R[r] /\ r # out[p].def
    BY <1>1, <1>2, <2>1
  <2>2. CASE r = out[p].def /\ out[p].op = "concat"
    BY <1>2, <2>2
  <2> QED
    BY <1>3, <2>1, <2>2
<1>5. ASSUME NEW q \in Dead \intersect DOMAIN R2, NEW r \in Dead \intersect DOMAIN R2, R2[q] = R2[r]
      PROVE  q = r
  <2>1. CASE q # out[p].def /\ r # out[p].def
    BY <1>1, <1>3, <1>5, <2>1
  <2>2. CASE q = out[p].def /\ r # out[p].def
    BY <1>4, <1>5, <2>2, Blocks
  <2>3. CASE q # out[p].def /\ r = out[p].def
    BY <1>4, <1>5, <2>3, Blocks
  <2> QED
    BY <2>1, <2>2, <2>3
<1>6. \A k \in DOMAIN B2 : B2[k].frees > 0 => B2[k].freedBy # n
  BY <1>1, <1>2
<1>7. \A r \in Dead \intersect DOMAIN R2 :
        \E k \in DOMAIN B2 : R2[r] = Block(k) /\ B2[k].frees = 0 /\ B2[k].by = n
  BY <1>4
<1> QED
  BY <1>5, <1>6, <1>7 DEF Holds

LEMMA PresentNext ==
  ASSUME Generated, todo = <<>>, NEW p \in Lines, out[p].op \in BodyOps,
         NEW R, Present(p, R), NEW R2, DOMAIN R \subseteq DOMAIN R2,
         out[p].op \in SettingOps => out[p].def \in DOMAIN R2
  PROVE  Present(p + 1, R2)
<1>1. p \in Nat /\ p > 0 /\ out[p + 1].fn = out[p].fn
  BY LineAfter
<1>2. (p + 1) - 1 = p
  BY <1>1
<1> SUFFICES ASSUME NEW i \in 1..(p + 1) - 1, SameBlock(i, p + 1)
             PROVE  /\ out[i].op \in SettingOps => out[i].def \in DOMAIN R2
                    /\ out[i].op = "define" => out[i].use \subseteq DOMAIN R2
  BY DEF Present
<1>3. CASE i = p
  <2>1. "define" \notin BodyOps
    BY DEF BodyOps
  <2> QED
    BY <1>3, <2>1
<1>4. CASE i # p
  <2>1. i \in 1..p - 1
    BY <1>1, <1>2, <1>4
  <2>2. SameBlock(i, p)
    <3>1. \A k \in i + 1..p : k \in i + 1..p + 1
      BY <1>1
    <3> QED
      BY <1>1, <3>1 DEF SameBlock
  <2> QED
    BY <2>1, <2>2 DEF Present
<1> QED
  BY <1>3, <1>4

LEMMA StraightNext ==
  ASSUME Generated, todo = <<>>, NEW p \in Lines, out[p].op \in BodyOps \ (RetOps \union {"free"}),
         NEW R, NEW n, NEW B, RunsStraight(p, R, n, B),
         NEW R2, NEW B2, SetsAt(p, R, R2), MakesAt(p, R2, n, B, B2)
  PROVE  RunsStraight(p + 1, R2, n, B2)
<1>1. p \in Nat /\ p > 0 /\ out[p + 1].fn = out[p].fn /\ Lines = 1..Len(out) /\ (p + 1) - 1 = p
  BY LineAfter DEF Lines
<1> SUFFICES ASSUME Straight(out[p].fn)
             PROVE  /\ \A k \in 1..p : out[k].fn = out[p].fn => out[k].op \notin RetOps
                    /\ \A k \in DOMAIN B2 : B2[k].by = n => BuiltBefore(p + 1, R2, k)
  BY <1>1 DEF RunsStraight
<1>2. /\ \A k \in 1..p - 1 : out[k].fn = out[p].fn => out[k].op \notin RetOps
      /\ \A k \in DOMAIN B : B[k].by = n => BuiltBefore(p, R, k)
  BY DEF RunsStraight
<1>3. \A k \in 1..p : out[k].fn = out[p].fn => out[k].op \notin RetOps
  <2>1. \A k \in 1..p : k = p \/ k \in 1..p - 1
    BY <1>1
  <2> QED
    BY <1>2, <2>1
<1>4. ASSUME NEW m \in DOMAIN B2, B2[m].by = n
      PROVE  \E i \in 1..p :
               /\ out[i].fn = out[p].fn /\ out[i].op \in {"concat", "copy"}
               /\ out[i].def \in DOMAIN R2 /\ R2[out[i].def] = Block(m)
  <2>1. CASE m \notin DOMAIN B
    <3>1. out[p].op \in {"concat", "copy"} /\ R2[out[p].def] = Block(m)
      BY <2>1 DEF MakesAt
    <3>2. out[p].def \in DOMAIN R2
      BY <3>1 DEF SetsAt, SettingOps
    <3>3. p \in 1..p
      BY <1>1
    <3> QED
      BY <3>1, <3>2, <3>3
  <2>2. CASE m \in DOMAIN B
    <3>1. B[m].by = n
      BY <1>4, <2>2 DEF MakesAt
    <3>2. PICK i \in 1..p - 1 :
             /\ out[i].fn = out[p].fn /\ out[i].op \in {"concat", "copy"}
             /\ out[i].def \in DOMAIN R /\ R[out[i].def] = Block(m)
      BY <1>2, <2>2, <3>1 DEF BuiltBefore
    <3>3. i \in Lines /\ i < p /\ i # p /\ i \in 1..p
      BY <1>1
    <3>4. ~(out[p].op \in SettingOps /\ out[i].def = out[p].def)
      <4>1. CASE out[i].op = "concat"
        <5>1. out[i].def # NoReg /\ (out[i].def \in LineDefines(out[p]) => p = i)
          BY <3>3, <4>1, ConcatDefines
        <5>2. out[p].op # "define"
          BY DEF BodyOps
        <5> QED
          BY <3>3, <5>1, <5>2 DEF LineDefines
      <4>2. CASE out[i].op = "copy"
        <5>1. out[p].op = "free" \/ out[p].op \in RetOps
          BY <1>2, <3>2, <3>3, <4>2, AfterCopy
        <5> QED
          BY <5>1
      <4> QED
        BY <3>2, <4>1, <4>2
    <3>5. out[i].def \in DOMAIN R2 /\ R2[out[i].def] = R[out[i].def]
      BY <3>2, <3>4 DEF SetsAt
    <3> QED
      BY <3>2, <3>3, <3>5
  <2> QED
    BY <2>1, <2>2
<1>5. \A m \in DOMAIN B2 : B2[m].by = n => BuiltBefore(p + 1, R2, m)
  BY <1>1, <1>4 DEF BuiltBefore
<1> QED
  BY <1>3, <1>5

LEMMA SoundNext ==
  ASSUME Generated, todo = <<>>, NEW p \in Lines, out[p].op \in BodyOps \ (RetOps \union {"free"}),
         NEW R, NEW n, NEW B, Sound(p, R, n, B),
         NEW R2, NEW B2, SetsAt(p, R, R2), MakesAt(p, R2, n, B, B2)
  PROVE  Sound(p + 1, R2, n, B2)
<1>1. DOMAIN R \subseteq DOMAIN R2 /\ (out[p].op \in SettingOps => out[p].def \in DOMAIN R2)
  BY DEF SetsAt
<1>2. Present(p + 1, R2)
  BY <1>1, PresentNext DEF Sound
<1> QED
  BY <1>2, HoldsNext, StraightNext DEF Sound

(* What the activation that runs does to the heap leaves the others alone.     *)
Works(B2) ==
  /\ \A k \in DOMAIN blocks :
       /\ k \in DOMAIN B2
       /\ \/ B2[k] = blocks[k]
          \/ blocks[k].by = current /\ B2[k].by = current /\ B2[k].freedBy = current
  /\ \A k \in DOMAIN B2 : k \notin DOMAIN blocks => B2[k].by = current /\ B2[k].frees = 0

LEMMA SoundElsewhere ==
  ASSUME NEW p, NEW R, NEW n, n # current, Sound(p, R, n, blocks), NEW B2, Works(B2)
  PROVE  Sound(p, R, n, B2)
<1>1. /\ \A k \in DOMAIN blocks : k \in DOMAIN B2 /\ (blocks[k].by = n => B2[k] = blocks[k])
      /\ \A k \in DOMAIN B2 : B2[k].by = n => k \in DOMAIN blocks /\ B2[k] = blocks[k]
      /\ \A k \in DOMAIN B2 : \/ k \in DOMAIN blocks /\ B2[k] = blocks[k]
                              \/ B2[k].freedBy # n \/ B2[k].frees = 0
  <2>1. \A k \in DOMAIN blocks : k \in DOMAIN B2 /\ (blocks[k].by = n => B2[k] = blocks[k])
    BY DEF Works
  <2>2. ASSUME NEW k \in DOMAIN B2
        PROVE  /\ B2[k].by = n => k \in DOMAIN blocks /\ B2[k] = blocks[k]
               /\ \/ k \in DOMAIN blocks /\ B2[k] = blocks[k]
                  \/ B2[k].freedBy # n \/ B2[k].frees = 0
    BY <2>2 DEF Works
  <2> QED
    BY <2>1, <2>2
<1>2. Holds(p, R, n, B2)
  <2> SUFFICES ASSUME out[p].op \notin RetOps
               PROVE  /\ \A r \in Dead \intersect DOMAIN R :
                           \E k \in DOMAIN B2 : R[r] = Block(k) /\ B2[k].frees = 0 /\ B2[k].by = n
                      /\ \A q, r \in Dead \intersect DOMAIN R : R[q] = R[r] => q = r
                      /\ \A k \in DOMAIN B2 : B2[k].frees > 0 => B2[k].freedBy # n
    BY DEF Holds
  <2>1. /\ \A r \in Dead \intersect DOMAIN R :
             \E k \in DOMAIN blocks : R[r] = Block(k) /\ blocks[k].frees = 0 /\ blocks[k].by = n
        /\ \A q, r \in Dead \intersect DOMAIN R : R[q] = R[r] => q = r
        /\ \A k \in DOMAIN blocks : blocks[k].frees > 0 => blocks[k].freedBy # n
    BY DEF Sound, Holds
  <2>2. \A r \in Dead \intersect DOMAIN R :
          \E k \in DOMAIN B2 : R[r] = Block(k) /\ B2[k].frees = 0 /\ B2[k].by = n
    BY <1>1, <2>1
  <2>3. \A k \in DOMAIN B2 : B2[k].frees > 0 => B2[k].freedBy # n
    <3> SUFFICES ASSUME NEW k \in DOMAIN B2, B2[k].frees > 0
                 PROVE  B2[k].freedBy # n
      OBVIOUS
    <3>1. B2[k].frees # 0
      OBVIOUS
    <3> QED
      BY <1>1, <2>1, <3>1
  <2> QED
    BY <2>1, <2>2, <2>3
<1>3. RunsStraight(p, R, n, B2)
  BY <1>1 DEF Sound, RunsStraight
<1> QED
  BY <1>2, <1>3 DEF Sound

LEMMA FramesStay ==
  ASSUME EInv, UNCHANGED <<vars, activation>>, pc' # 0, Works(blocks')
  PROVE  FramesTyped' /\ Suspended'
<1>1. /\ frames' = frames /\ activations' = activations /\ current' = current
      /\ out' = out /\ Lines' = Lines
  BY ProgramKept DEF activation
<1>2. Held \subseteq Held'
  <2>1. DOMAIN blocks \subseteq DOMAIN blocks'
    BY DEF Works
  <2> QED
    BY <2>1 DEF Held, Block, Value, Foreign, Garbage
<1>3. FramesTyped'
  <2>1. FramesTyped
    BY DEF EInv
  <2>2. \A i \in DOMAIN frames : \A r \in DOMAIN frames[i].registers : frames[i].registers[r] \in Held'
    BY <1>2, <2>1 DEF FramesTyped
  <2> QED
    BY <1>1, <2>1, <2>2 DEF FramesTyped
<1>4. Suspended'
  <2>1. ASSUME NEW i \in DOMAIN frames
        PROVE  Sound(frames[i].pc, frames[i].registers, frames[i].number, blocks')
    BY <2>1, SoundElsewhere DEF EInv, FramesTyped, Suspended
  <2>2. \A i \in DOMAIN frames' :
          Sound(frames'[i].pc, frames'[i].registers, frames'[i].number, blocks')
    BY <1>1, <2>1
  <2> QED
    BY <2>2, WaitingLater
<1> QED
  BY <1>3, <1>4

-----------------------------------------------------------------------------
(* The lines that the machine executes one after another.                     *)

Executes ==
  /\ Running /\ pc' = pc + 1
  /\ Ln.op \in BodyOps \ (RetOps \union {"free"})
  /\ UNCHANGED <<vars, activation, strays, fault>>
  /\ SetsAt(pc, registers, registers') /\ MakesAt(pc, registers', current, blocks, blocks')
  /\ IsTuple(blocks')
  /\ \A r \in DOMAIN registers' : registers'[r] \in Held'
  /\ \A a \in DOMAIN memory' : memory'[a] \in Held'

LEMMA ExecutesKeeps ==
  ASSUME Generated, EInv, Executes
  PROVE  EInv'
<1>1. /\ pc \in Lines /\ todo = <<>> /\ Ln = out[pc] /\ status = "finished" /\ pc # 0
      /\ pc' = pc + 1 /\ fault' = NoFault /\ activations' = activations /\ current' = current
      /\ frames' = frames /\ strays' = strays
      /\ Ln.op \in BodyOps \ (RetOps \union {"free"}) /\ out[pc].op \in BodyOps
      /\ out' = out /\ Lines' = Lines /\ status' = status /\ pc \in Nat
  BY RunningLine, ProgramKept DEF Executes, activation, Running
<1>2. pc + 1 \in Lines /\ out[pc + 1].op \in BodyOps \union {"end"} /\ pc + 1 \in Nat
      /\ pc + 1 # 0 /\ (pc + 1) - 1 = pc
  BY <1>1, LineAfter
<1>3. MachineTyped
  BY DEF EInv
<1>4. ASSUME NEW n \in DOMAIN blocks'
      PROVE  /\ blocks'[n] = [by |-> blocks'[n].by, freedBy |-> blocks'[n].freedBy, frees |-> blocks'[n].frees]
             /\ blocks'[n].by \in 0..activations /\ blocks'[n].freedBy \in 0..activations
             /\ blocks'[n].frees \in Nat
             /\ blocks'[n].frees > 0 => blocks'[n].freedBy = blocks'[n].by
  <2>1. CASE n \in DOMAIN blocks
    <3>1. blocks'[n] = blocks[n]
      BY <2>1 DEF Executes, MakesAt
    <3> QED
      BY <1>3, <2>1, <3>1 DEF MachineTyped, EInv, FreedByMaker
  <2>2. CASE n \notin DOMAIN blocks
    <3>1. blocks'[n] = [by |-> current, freedBy |-> 0, frees |-> 0]
      BY <1>4, <2>2 DEF Executes, MakesAt
    <3> QED
      BY <1>3, <3>1 DEF MachineTyped
  <2> QED
    BY <2>1, <2>2
<1>5. MachineTyped'
  <2>1. /\ IsTuple(blocks')
        /\ \A r \in DOMAIN registers' : registers'[r] \in Held'
        /\ \A a \in DOMAIN memory' : memory'[a] \in Held'
    BY DEF Executes
  <2>2. pc' \in Lines' /\ out'[pc'].op \in BodyOps \union {"end"} /\ pc' \in Nat /\ pc' # 0
    BY <1>1, <1>2
  <2> QED
    BY <1>1, <1>3, <1>4, <2>1, <2>2 DEF MachineTyped
<1>6. Works(blocks')
  BY DEF Executes, MakesAt, Works
<1>7. FramesTyped' /\ Suspended'
  BY <1>1, <1>2, <1>6, FramesStay DEF Executes
<1>8. Current'
  <2>1. Sound(pc, registers, current, blocks)
    BY <1>1 DEF EInv, Current
  <2>2. Sound(pc + 1, registers', current, blocks')
    BY <1>1, <2>1, SoundNext DEF Executes
  <2>3. Sound(pc', registers', current', blocks')
    BY <1>1, <2>2
  <2> QED
    BY <2>3, CurrentLater DEF Executes
<1>9. JustFreed'
  <2>1. pc' - 1 = pc /\ out'[pc].op # "free"
    BY <1>1, <1>2
  <2> QED
    BY <1>1, <2>1 DEF JustFreed
<1>10. FreedByMaker'
  BY <1>4 DEF FreedByMaker
<1>11. Faults'
  <2>1. fault'.kind = "none"
    BY <1>1 DEF NoFault
  <2> QED
    BY <2>1 DEF Faults
<1> QED
  BY <1>5, <1>7, <1>8, <1>9, <1>10, <1>11 DEF EInv

LEMMA ValueHeld ==
  ASSUME EInv, NEW r, Defined(r)
  PROVE  ValueOf(r) \in Held
BY DEF EInv, MachineTyped, Defined, ValueOf, Held

LEMMA OneOperand ==
  ASSUME Generated, EInv, NEW ops, Fetched(ops), Ln.op \in {"store"} \union RetOps
  PROVE  Operand \in Held /\ \E r : Ln.use = {r} /\ Defined(r) /\ Operand = ValueOf(r)
<1>1. pc \in Lines /\ Ln = out[pc]
  BY RunningLine DEF Fetched, Ln
<1>2. WellFormed(out[pc])
  BY <1>1 DEF Generated, OInv, LInv, LinesWellFormed
<1>3. PICK r : Ln.use = {r}
  BY <1>1, <1>2 DEF WellFormed
<1>4. (CHOOSE q \in Ln.use : TRUE) = r
  BY <1>3
<1>5. Defined(r)
  BY <1>3 DEF Fetched, Bad
<1>6. Operand = ValueOf(r)
  BY <1>4 DEF Operand
<1> QED
  BY <1>3, <1>5, <1>6, ValueHeld

LEMMA RegisterSet ==
  ASSUME NEW v, Sets(Ln.def, v), Ln.op \in SettingOps
  PROVE  /\ SetsAt(pc, registers, registers') /\ registers'[Ln.def] = v
         /\ \A r \in DOMAIN registers' :
              registers'[r] = v \/ (r \in DOMAIN registers /\ registers'[r] = registers[r])
<1>1. /\ DOMAIN registers' = DOMAIN registers \union {Ln.def} /\ registers'[Ln.def] = v
      /\ \A x \in DOMAIN registers' : x # Ln.def => x \in DOMAIN registers /\ registers'[x] = registers[x]
  <2>1. registers' = [x \in DOMAIN registers \union {Ln.def} |-> IF x = Ln.def THEN v ELSE registers[x]]
    BY DEF Sets, With
  <2> QED
    BY <2>1
<1> QED
  BY <1>1 DEF SetsAt, Ln

LEMMA HeapKept ==
  ASSUME EInv, UNCHANGED blocks, Ln.op \notin {"concat", "copy"}
  PROVE  MakesAt(pc, registers', current, blocks, blocks') /\ IsTuple(blocks') /\ Held' = Held
<1>1. IsTuple(blocks)
  BY DEF EInv, MachineTyped
<1>2. blocks' = blocks
  OBVIOUS
<1>3. Held' = Held
  BY <1>2 DEF Held, Block, Value, Foreign, Garbage
<1> QED
  BY <1>1, <1>2, <1>3 DEF MakesAt, Ln

(* A line whose value is no new block.                                       *)
LEMMA SettingExecutes ==
  ASSUME Generated, EInv, Running, NEW v \in Held, Sets(Ln.def, v), NextLine,
         Ln.op \in SettingOps \ {"concat", "copy"},
         \A a \in DOMAIN memory' : memory'[a] \in Held,
         UNCHANGED <<vars, activation, blocks, strays, fault>>
  PROVE  Executes
<1>1. Ln.op \in BodyOps \ (RetOps \union {"free"})
  BY DEF SettingOps, BodyOps, RetOps, Operation, StringOps
<1>2. MakesAt(pc, registers', current, blocks, blocks') /\ IsTuple(blocks') /\ Held' = Held
  BY HeapKept
<1>3. /\ SetsAt(pc, registers, registers')
      /\ \A r \in DOMAIN registers' :
           registers'[r] = v \/ (r \in DOMAIN registers /\ registers'[r] = registers[r])
  BY RegisterSet
<1>4. \A r \in DOMAIN registers : registers[r] \in Held
  BY DEF EInv, MachineTyped
<1>5. \A r \in DOMAIN registers' : registers'[r] \in Held'
  BY <1>2, <1>3, <1>4
<1>6. \A a \in DOMAIN memory' : memory'[a] \in Held'
  BY <1>2
<1> QED
  BY <1>1, <1>2, <1>3, <1>5, <1>6 DEF Executes, NextLine

LEMMA MemoryHeld ==
  ASSUME EInv
  PROVE  /\ \A a \in DOMAIN memory : memory[a] \in Held
         /\ Foreign \in Held /\ Garbage \in Held
         /\ \A a : Contents(a) \in Held
BY DEF EInv, MachineTyped, Held, Contents

LEMMA ExecuteLoadExecutes ==
  ASSUME Generated, EInv, ExecuteLoad
  PROVE  Executes
<1>1. /\ Contents(Address(Ln.mem)) \in Held /\ memory' = memory
      /\ \A a \in DOMAIN memory' : memory'[a] \in Held
  BY MemoryHeld DEF ExecuteLoad
<1> QED
  BY <1>1, SettingExecutes DEF ExecuteLoad, Fetched, SettingOps

LEMMA ExecuteValueExecutes ==
  ASSUME Generated, EInv, ExecuteValue
  PROVE  Executes
<1>1. /\ Foreign \in Held /\ memory' = memory
      /\ \A a \in DOMAIN memory' : memory'[a] \in Held
  BY MemoryHeld DEF ExecuteValue
<1> QED
  BY <1>1, SettingExecutes DEF ExecuteValue, Fetched, SettingOps

LEMMA ForeignHeld ==
  ASSUME EInv, NEW A, ForeignStores(A)
  PROVE  \A a \in DOMAIN memory' : memory'[a] \in Held
BY MemoryHeld DEF ForeignStores

LEMMA ExecuteForeignCallExecutes ==
  ASSUME Generated, EInv, NEW A, ExecuteForeignCall(A)
  PROVE  Executes
<1>1. Foreign \in Held /\ \A a \in DOMAIN memory' : memory'[a] \in Held
  BY MemoryHeld, ForeignHeld DEF ExecuteForeignCall
<1> QED
  BY <1>1, SettingExecutes DEF ExecuteForeignCall, Fetched, SettingOps, CallOps

(* A line that sets no register, and writes at most to the memory.            *)
LEMMA MemoryExecutes ==
  ASSUME Generated, EInv, Running, NEW a, NEW v \in Held,
         memory' = With(memory, a, v) \/ UNCHANGED memory, NextLine,
         Ln.op \in {"alloca", "store", "label"},
         UNCHANGED <<vars, activation, registers, blocks, strays, fault>>
  PROVE  Executes
<1>1. Ln.op \in BodyOps \ (RetOps \union {"free"}) /\ Ln.op \notin SettingOps
  BY DEF SettingOps, BodyOps, RetOps, Operation, StringOps
<1>2. MakesAt(pc, registers', current, blocks, blocks') /\ IsTuple(blocks') /\ Held' = Held
  BY HeapKept
<1>3. registers' = registers
  OBVIOUS
<1>4. SetsAt(pc, registers, registers')
  BY <1>1, <1>3 DEF SetsAt, Ln
<1>5. /\ \A r \in DOMAIN registers : registers[r] \in Held
      /\ \A b \in DOMAIN memory : memory[b] \in Held
  BY DEF EInv, MachineTyped
<1>6. \A r \in DOMAIN registers' : registers'[r] \in Held'
  BY <1>2, <1>3, <1>5
<1>7. \A b \in DOMAIN memory' : memory'[b] \in Held'
  BY <1>2, <1>5 DEF With
<1> QED
  BY <1>1, <1>2, <1>4, <1>6, <1>7 DEF Executes, NextLine

LEMMA ExecuteAllocaExecutes ==
  ASSUME Generated, EInv, ExecuteAlloca
  PROVE  Executes
<1>1. Garbage \in Held
  BY DEF Held
<1> QED
  BY <1>1, MemoryExecutes DEF ExecuteAlloca, Fetched

LEMMA ExecuteStoreExecutes ==
  ASSUME Generated, EInv, ExecuteStore
  PROVE  Executes
<1>1. Operand \in Held
  BY OneOperand DEF ExecuteStore, Fetched
<1> QED
  BY <1>1, MemoryExecutes DEF ExecuteStore, Fetched

LEMMA ExecuteLabelExecutes ==
  ASSUME Generated, EInv, ExecuteLabel
  PROVE  Executes
<1>1. Garbage \in Held /\ UNCHANGED memory
  BY DEF Held, ExecuteLabel
<1> QED
  BY <1>1, MemoryExecutes DEF ExecuteLabel, Fetched

(* An entry put on top of a stack whose top is its end, and taken from it.     *)
LEMMA Pushed ==
  ASSUME NEW s, IsTuple(s), NEW b
  PROVE  /\ IsTuple(Append(s, b)) /\ Len(Append(s, b)) = Len(s) + 1
         /\ DOMAIN s = 1..Len(s) /\ DOMAIN Append(s, b) = 1..Len(s) + 1 /\ Len(s) \in Nat
         /\ Append(s, b)[Len(s) + 1] = b
         /\ \A n \in DOMAIN s : Append(s, b)[n] = s[n]
<1> DEFINE S == {s[n] : n \in DOMAIN s} \union {b}
<1>1. s \in Seq(S) /\ b \in S
  <2>1. s \in Seq({s[n] : n \in DOMAIN s})
    BY DEF IsTuple
  <2> QED
    BY <2>1, SeqDef, LenProperties
<1>2. /\ Len(s) \in Nat /\ DOMAIN s = 1..Len(s)
      /\ Len(Append(s, b)) = Len(s) + 1 /\ DOMAIN Append(s, b) = 1..Len(s) + 1
      /\ Append(s, b) \in Seq(S)
      /\ \A n \in 1..Len(s) : Append(s, b)[n] = s[n]
      /\ Append(s, b)[Len(s) + 1] = b
  BY <1>1, LenProperties, AppendProperties
<1>3. IsTuple(Append(s, b))
  BY <1>2, Tuples
<1> QED
  BY <1>2, <1>3

LEMMA Popped ==
  ASSUME NEW s, IsTuple(s), s # <<>>
  PROVE  /\ IsTuple(SubSeq(s, 1, Len(s) - 1)) /\ Len(s) \in Nat /\ Len(s) \in DOMAIN s
         /\ \A n \in DOMAIN SubSeq(s, 1, Len(s) - 1) :
              n \in DOMAIN s /\ n # Len(s) /\ SubSeq(s, 1, Len(s) - 1)[n] = s[n]
<1> DEFINE S == {s[n] : n \in DOMAIN s}
           t == SubSeq(s, 1, Len(s) - 1)
<1>1. s \in Seq(S)
  BY DEF IsTuple
<1>2. Len(s) \in Nat /\ DOMAIN s = 1..Len(s) /\ Len(s) # 0
  BY <1>1, LenProperties, EmptySeq
<1>3. \A n \in 1..Len(s) - 1 : s[n] \in S
  BY <1>2
<1> HIDE DEF S
<1>4. /\ t \in Seq(S) /\ Len(t) = IF 1 <= Len(s) - 1 THEN (Len(s) - 1) - 1 + 1 ELSE 0
      /\ \A n \in 1..(Len(s) - 1) - 1 + 1 : t[n] = s[1 + n - 1]
  BY <1>2, <1>3, SubSeqProperties
<1>5. DOMAIN t = 1..Len(s) - 1
  <2>1. Len(t) = Len(s) - 1
    BY <1>2, <1>4
  <2> QED
    BY <1>4, <2>1, LenProperties
<1>6. IsTuple(t)
  BY <1>4, Tuples
<1>7. ASSUME NEW n \in DOMAIN t
      PROVE  n \in DOMAIN s /\ n # Len(s) /\ t[n] = s[n]
  <2>1. /\ n \in 1..Len(s) /\ n # Len(s) /\ n \in 1..(Len(s) - 1) - 1 + 1
        /\ 1 + n - 1 = n
    BY <1>2, <1>5
  <2>2. t[n] = s[1 + n - 1]
    BY <1>4, <2>1
  <2> QED
    BY <1>2, <2>1, <2>2
<1>8. Len(s) \in DOMAIN s
  BY <1>2
<1> QED
  BY <1>2, <1>6, <1>7, <1>8

(* A block is new: its number is one more than those of the others.           *)
LEMMA BlockAdded ==
  ASSUME EInv, NEW b, blocks' = Append(blocks, b)
  PROVE  /\ IsTuple(blocks') /\ Len(blocks') \in DOMAIN blocks' /\ Len(blocks') \notin DOMAIN blocks
         /\ DOMAIN blocks' = DOMAIN blocks \union {Len(blocks')} /\ blocks'[Len(blocks')] = b
         /\ \A n \in DOMAIN blocks : blocks'[n] = blocks[n]
<1>1. IsTuple(blocks)
  BY DEF EInv, MachineTyped
<1> QED
  BY <1>1, Pushed

LEMMA ExecuteAllocationExecutes ==
  ASSUME Generated, EInv, ExecuteAllocation
  PROVE  Executes
<1> DEFINE b == [by |-> current, freedBy |-> 0, frees |-> 0]
<1>1. /\ Running /\ Ln.op \in {"concat", "copy"} /\ pc' = pc + 1
      /\ blocks' = Append(blocks, b) /\ Sets(Ln.def, Block(Len(blocks')))
      /\ UNCHANGED <<vars, activation, memory, strays, fault>>
  BY DEF ExecuteAllocation, Fetched, NextLine
<1> HIDE DEF b
<1>2. /\ IsTuple(blocks') /\ Len(blocks') \in DOMAIN blocks' /\ Len(blocks') \notin DOMAIN blocks
      /\ DOMAIN blocks' = DOMAIN blocks \union {Len(blocks')} /\ blocks'[Len(blocks')] = b
      /\ \A n \in DOMAIN blocks : blocks'[n] = blocks[n]
  BY <1>1, BlockAdded
<1>3. Ln.op \in BodyOps \ (RetOps \union {"free"}) /\ Ln.op \in SettingOps
  BY <1>1 DEF SettingOps, BodyOps, RetOps, Operation, StringOps
<1>4. PICK n : n = Len(blocks')
  OBVIOUS
<1>5. /\ SetsAt(pc, registers, registers') /\ registers'[Ln.def] = Block(n)
      /\ \A r \in DOMAIN registers' :
           registers'[r] = Block(n) \/ (r \in DOMAIN registers /\ registers'[r] = registers[r])
  BY <1>1, <1>3, <1>4, RegisterSet
<1>6. MakesAt(pc, registers', current, blocks, blocks')
  BY <1>1, <1>2, <1>4, <1>5 DEF MakesAt, b, Ln
<1>7. Held \subseteq Held' /\ Block(n) \in Held'
  BY <1>2, <1>4 DEF Held, Block, Value, Foreign, Garbage
<1>8. /\ \A r \in DOMAIN registers : registers[r] \in Held
      /\ \A a \in DOMAIN memory : memory[a] \in Held
  BY DEF EInv, MachineTyped
<1>9. \A r \in DOMAIN registers' : registers'[r] \in Held'
  BY <1>5, <1>7, <1>8
<1>10. \A a \in DOMAIN memory' : memory'[a] \in Held'
  BY <1>1, <1>7, <1>8
<1> QED
  BY <1>1, <1>2, <1>3, <1>5, <1>6, <1>9, <1>10 DEF Executes

-----------------------------------------------------------------------------
(* Branches and frees.                                                       *)

LEMMA JumpKeeps ==
  ASSUME Generated, EInv, NEW l, JumpTo(l)
  PROVE  EInv'
<1>1. /\ Running /\ Ln.op \in BranchOps /\ l \in Ln.to /\ pc' = LineOf(l)
      /\ UNCHANGED <<vars, activation, registers, memory, blocks, strays, fault>>
  BY DEF JumpTo, Fetched, BranchOps
<1>2. /\ pc \in Lines /\ todo = <<>> /\ Ln = out[pc] /\ status = "finished" /\ fault = NoFault
      /\ Lines = 1..Len(out) /\ Len(out) \in Nat /\ pc # 0
      /\ out' = out /\ Lines' = Lines /\ status' = status
      /\ activations' = activations /\ current' = current
  BY <1>1, RunningLine, ProgramKept DEF activation
<1>3. pc' \in Lines /\ out[pc'].op = "label"
  BY <1>1, <1>2, BranchLands
<1>4. pc' \in Nat /\ pc' > 0 /\ pc' # 0 /\ Ln'.op = "label"
  BY <1>2, <1>3 DEF Ln
<1>5. MachineTyped'
  <2>1. "label" \in BodyOps
    BY DEF BodyOps, Operation, StringOps
  <2> QED
    BY <1>1, <1>2, <1>3, <1>4, <2>1 DEF EInv, MachineTyped, Held, Block, Value, Foreign, Garbage
<1>6. FramesTyped' /\ Suspended'
  <2>1. Works(blocks')
    BY <1>1 DEF Works
  <2> QED
    BY <1>1, <1>4, <2>1, FramesStay
<1>7. Current'
  <2>1. Holds(pc', registers, current, blocks)
    <3>1. Ln.op \notin RetOps
      BY <1>1 DEF BranchOps, RetOps
    <3> QED
      BY <1>2, <3>1 DEF EInv, Current, Sound, Holds
  <2>2. Present(pc', registers)
    <3>1. PICK p \in Nat : p = pc'
      BY <1>4
    <3>2. ASSUME NEW i \in 1..p - 1 PROVE ~SameBlock(i, p)
      <4>1. i \in Nat /\ p \in i + 1..p
        BY SMT
      <4> QED
        BY <1>3, <3>1, <4>1 DEF SameBlock
    <3>3. Present(p, registers)
      BY <3>2 DEF Present
    <3> QED
      BY <3>1, <3>3
  <2>3. RunsStraight(pc', registers, current, blocks)
    BY <1>3 DEF RunsStraight, Straight
  <2>4. Sound(pc', registers', current', blocks')
    BY <1>1, <1>2, <2>1, <2>2, <2>3 DEF Sound
  <2> QED
    BY <1>1, <2>4, CurrentLater
<1>8. JustFreed'
  BY <1>4 DEF JustFreed, RetOps
<1>9. FreedByMaker' /\ Faults'
  <2>1. fault'.kind = "none"
    BY <1>1, <1>2 DEF NoFault
  <2> QED
    BY <1>1, <2>1 DEF EInv, FreedByMaker, Faults
<1> QED
  BY <1>5, <1>6, <1>7, <1>8, <1>9 DEF EInv

(* What a line frees is there: blocks of the activation, different ones, that  *)
(* were not freed.                                                           *)
LEMMA FreedBlocks ==
  ASSUME Generated, EInv, ExecuteFree
  PROVE  /\ Ln.use \subseteq Dead /\ Ln.use \subseteq DOMAIN registers
         /\ \A r \in Ln.use : ValueOf(r) = registers[r]
         /\ \A r \in Ln.use : \E n \in DOMAIN blocks : registers[r] = Block(n)
         /\ \A n \in DOMAIN blocks : Holding(n) # {} =>
              blocks[n].frees = 0 /\ blocks[n].by = current
         /\ DOMAIN blocks' = DOMAIN blocks
         /\ \A n \in DOMAIN blocks :
              blocks'[n] = IF Holding(n) = {} THEN blocks[n]
                           ELSE [by |-> current, freedBy |-> current, frees |-> 1]
         /\ strays' = 0
<1>1. /\ Running /\ pc \in Lines /\ Ln = out[pc] /\ Ln.op = "free" /\ \A r \in Ln.use : ~Bad(r)
      /\ pc # 0
  BY RunningLine DEF ExecuteFree, Fetched, Running
<1>2. Ln.use \subseteq Dead
  BY <1>1 DEF Dead
<1>3. \A r \in Ln.use : r # Literal /\ Defined(r)
  BY <1>1, <1>2, DeadBuilt DEF Bad
<1>4. Ln.use \subseteq DOMAIN registers /\ \A r \in Ln.use : ValueOf(r) = registers[r]
  BY <1>3 DEF Defined, ValueOf
<1>5. /\ \A r \in Dead \intersect DOMAIN registers :
           \E n \in DOMAIN blocks :
             registers[r] = Block(n) /\ blocks[n].frees = 0 /\ blocks[n].by = current
      /\ \A q, r \in Dead \intersect DOMAIN registers : registers[q] = registers[r] => q = r
  <2>1. "free" \notin RetOps
    BY DEF RetOps
  <2> QED
    BY <1>1, <2>1 DEF EInv, Current, Sound, Holds
<1>6. ASSUME NEW n \in DOMAIN blocks, Holding(n) # {}
      PROVE  blocks[n].frees = 0 /\ blocks[n].by = current /\ Cardinality(Holding(n)) = 1
  <2>1. PICK r \in Ln.use : ValueOf(r) = Block(n)
    BY <1>6 DEF Holding
  <2>2. \A q \in Ln.use : ValueOf(q) = Block(n) => q = r
    BY <1>2, <1>4, <1>5, <2>1
  <2>3. Holding(n) = {r}
    BY <2>1, <2>2 DEF Holding
  <2>4. PICK m \in DOMAIN blocks :
           registers[r] = Block(m) /\ blocks[m].frees = 0 /\ blocks[m].by = current
    BY <1>2, <1>4, <1>5
  <2>5. m = n
    BY <1>4, <2>1, <2>4, Blocks
  <2> QED
    BY <2>3, <2>4, <2>5, FS_Singleton
<1>7. DOMAIN blocks' = DOMAIN blocks
  BY DEF ExecuteFree
<1>8. ASSUME NEW n \in DOMAIN blocks
      PROVE  blocks'[n] = IF Holding(n) = {} THEN blocks[n]
                          ELSE [by |-> current, freedBy |-> current, frees |-> 1]
  <2>1. blocks'[n] = IF Holding(n) = {} THEN blocks[n]
                     ELSE [blocks[n] EXCEPT !.frees = @ + Cardinality(Holding(n)),
                                            !.freedBy = current]
    BY DEF ExecuteFree
  <2>2. blocks[n] = [by |-> blocks[n].by, freedBy |-> blocks[n].freedBy, frees |-> blocks[n].frees]
    BY DEF EInv, MachineTyped
  <2>3. CASE Holding(n) # {}
    <3>1. blocks[n].frees = 0 /\ Cardinality(Holding(n)) = 1 /\ 0 + 1 = 1
          /\ blocks[n].by = current
      BY <1>6, <2>3
    <3>2. blocks'[n] = [blocks[n] EXCEPT !.frees = @ + Cardinality(Holding(n)),
                                         !.freedBy = current]
      BY <2>1, <2>3
    <3>3. blocks'[n] = [by |-> blocks[n].by, freedBy |-> current,
                        frees |-> blocks[n].frees + Cardinality(Holding(n))]
      BY <2>2, <3>2
    <3> QED
      BY <2>3, <3>1, <3>3
  <2> QED
    BY <2>1, <2>3
<1>9. \A r \in Ln.use : \E n \in DOMAIN blocks : registers[r] = Block(n)
  BY <1>2, <1>4, <1>5
<1>10. strays' = 0
  <2>1. \A r \in Ln.use : ValueOf(r).kind = "block"
    BY <1>4, <1>9, Blocks
  <2>2. {r \in Ln.use : ValueOf(r).kind # "block"} = {}
    BY <2>1
  <2>3. strays' = strays + Cardinality({r \in Ln.use : ValueOf(r).kind # "block"})
    BY DEF ExecuteFree
  <2>4. strays = 0
    BY DEF EInv, MachineTyped
  <2>5. strays' = 0 + Cardinality({})
    BY <2>2, <2>3, <2>4
  <2>6. Cardinality({}) = 0
    BY FS_EmptySet
  <2> QED
    BY <2>5, <2>6
<1> QED
  BY <1>2, <1>4, <1>6, <1>7, <1>8, <1>9, <1>10

LEMMA FreeKeeps ==
  ASSUME Generated, EInv, ExecuteFree
  PROVE  EInv'
<1>1. /\ Running /\ pc \in Lines /\ pc \in Nat /\ pc > 0 /\ todo = <<>> /\ Ln = out[pc]
      /\ Ln.op = "free" /\ status = "finished" /\ fault = NoFault /\ Lines = 1..Len(out)
      /\ pc' = pc + 1 /\ UNCHANGED <<vars, activation, registers, memory, fault>>
      /\ out' = out /\ Lines' = Lines /\ status' = status
      /\ activations' = activations /\ current' = current /\ registers' = registers
  BY RunningLine, ProgramKept DEF ExecuteFree, Fetched, NextLine, activation
<1>2. /\ pc + 1 \in Lines /\ out[pc + 1].op \in RetOps
  BY <1>1 DEF Generated, OInv, LInv, ReturnsWhole
<1>3. "free" \in BodyOps /\ RetOps \subseteq BodyOps /\ "free" \notin RetOps
      /\ "free" \notin SettingOps
  BY DEF BodyOps, RetOps, Operation, StringOps, SettingOps
<1>4. out[pc + 1].fn = out[pc].fn /\ Ln' = out[pc + 1] /\ pc' - 1 = pc /\ pc' # 0
      /\ (pc + 1) - 1 = pc
  BY <1>1, <1>3, LineAfter DEF Ln
<1>5. /\ Ln.use \subseteq DOMAIN registers
      /\ \A r \in Ln.use : ValueOf(r) = registers[r]
      /\ \A r \in Ln.use : \E n \in DOMAIN blocks : registers[r] = Block(n)
      /\ \A n \in DOMAIN blocks : Holding(n) # {} => blocks[n].by = current
      /\ DOMAIN blocks' = DOMAIN blocks
      /\ \A n \in DOMAIN blocks :
           blocks'[n] = IF Holding(n) = {} THEN blocks[n]
                        ELSE [by |-> current, freedBy |-> current, frees |-> 1]
      /\ strays' = 0
  BY FreedBlocks
<1>6. MachineTyped' /\ FreedByMaker'
  <2>1. Held' = Held
    BY <1>5 DEF Held, Block, Value, Foreign, Garbage
  <2>2. \A n \in DOMAIN blocks' :
          /\ blocks'[n] = [by |-> blocks'[n].by, freedBy |-> blocks'[n].freedBy, frees |-> blocks'[n].frees]
          /\ blocks'[n].by \in 0..activations /\ blocks'[n].freedBy \in 0..activations
          /\ blocks'[n].frees \in Nat
          /\ blocks'[n].frees > 0 => blocks'[n].freedBy = blocks'[n].by
    <3> SUFFICES ASSUME NEW n \in DOMAIN blocks
                 PROVE  /\ blocks'[n] = [by |-> blocks'[n].by, freedBy |-> blocks'[n].freedBy, frees |-> blocks'[n].frees]
                        /\ blocks'[n].by \in 0..activations /\ blocks'[n].freedBy \in 0..activations
                        /\ blocks'[n].frees \in Nat
                        /\ blocks'[n].frees > 0 => blocks'[n].freedBy = blocks'[n].by
      BY <1>5
    <3>1. /\ blocks[n] = [by |-> blocks[n].by, freedBy |-> blocks[n].freedBy, frees |-> blocks[n].frees]
          /\ blocks[n].by \in 0..activations /\ blocks[n].freedBy \in 0..activations
          /\ blocks[n].frees \in Nat /\ activations \in Nat /\ current \in 0..activations
          /\ blocks[n].frees > 0 => blocks[n].freedBy = blocks[n].by
      BY DEF EInv, MachineTyped, FreedByMaker
    <3>2. CASE Holding(n) = {}
      <4>1. blocks'[n] = blocks[n]
        BY <1>5, <3>2
      <4> QED
        BY <3>1, <4>1
    <3>3. CASE Holding(n) # {}
      <4>1. blocks'[n] = [by |-> current, freedBy |-> current, frees |-> 1]
        BY <1>5, <3>3
      <4> QED
        BY <3>1, <4>1
    <3> QED
      BY <3>2, <3>3
  <2>3. IsTuple(blocks')
    <3>1. DOMAIN blocks = 1..Len(blocks) /\ Len(blocks) \in Nat
      BY LenProperties DEF EInv, MachineTyped, IsTuple
    <3>2. PICK k \in Nat : k = Len(blocks)
      BY <3>1
    <3>3. PICK g : g = blocks'
      OBVIOUS
    <3>4. g = [n \in 1..k |-> g[n]]
      BY <1>5, <3>1, <3>2, <3>3 DEF ExecuteFree
    <3>5. DOMAIN g = 1..k
      BY <3>4
    <3>6. g \in [1..k -> {g[n] : n \in DOMAIN g}]
      BY <3>4, <3>5
    <3>7. g \in Seq({g[n] : n \in DOMAIN g})
      BY <3>6, SeqDef
    <3> QED
      BY <3>3, <3>7 DEF IsTuple
  <2>4. pc' \in Nat /\ pc' # 0
    BY <1>1
  <2>5. pc' \in Lines' /\ out'[pc'].op \in BodyOps \union {"end"}
    BY <1>1, <1>2, <1>3
  <2>6. /\ activations' \in Nat /\ current' \in 0..activations'
        /\ \A r \in DOMAIN registers' : registers'[r] \in Held'
        /\ \A a \in DOMAIN memory' : memory'[a] \in Held'
    BY <1>1, <2>1 DEF EInv, MachineTyped
  <2>7. activations' = activations /\ status' = "finished" /\ strays' = 0
    BY <1>1, <1>5
  <2> QED
    BY <2>2, <2>3, <2>4, <2>5, <2>6, <2>7 DEF MachineTyped, FreedByMaker
<1>7. FramesTyped' /\ Suspended'
  <2>1. Works(blocks')
    <3> SUFFICES ASSUME NEW k \in DOMAIN blocks
                 PROVE  \/ blocks'[k] = blocks[k]
                        \/ /\ blocks[k].by = current /\ blocks'[k].by = current
                           /\ blocks'[k].freedBy = current
      BY <1>5 DEF Works
    <3>1. CASE Holding(k) # {}
      <4>1. blocks'[k] = [by |-> current, freedBy |-> current, frees |-> 1]
        BY <1>5, <3>1
      <4> QED
        BY <1>5, <3>1, <4>1
    <3> QED
      BY <1>5, <3>1
  <2> QED
    BY <1>1, <1>4, <2>1, FramesStay
<1>8. JustFreed'
  <2>1. ASSUME NEW r \in out[pc].use
        PROVE  /\ r \in DOMAIN registers
               /\ \E n \in DOMAIN blocks' : registers[r] = Block(n) /\ blocks'[n].frees = 1
    <3>1. PICK n \in DOMAIN blocks : registers[r] = Block(n)
      BY <1>1, <1>5
    <3>2. r \in Holding(n)
      BY <1>1, <1>5, <3>1 DEF Holding
    <3>3. blocks'[n] = [by |-> current, freedBy |-> current, frees |-> 1]
      BY <1>5, <3>2
    <3> QED
      BY <1>1, <1>5, <3>1, <3>3
  <2> QED
    BY <1>1, <1>4, <2>1 DEF JustFreed, Block, Value
<1>9. Current'
  <2>1. Sound(pc, registers, current, blocks)
    BY <1>1 DEF EInv, Current
  <2>2. Holds(pc + 1, registers, current, blocks')
    BY <1>2 DEF Holds
  <2>3. Present(pc + 1, registers)
    BY <1>1, <1>3, <2>1, PresentNext DEF Sound
  <2>4. RunsStraight(pc + 1, registers, current, blocks')
    <3> SUFFICES ASSUME Straight(out[pc].fn)
                 PROVE  /\ \A k \in 1..pc : out[k].fn = out[pc].fn => out[k].op \notin RetOps
                        /\ \A k \in DOMAIN blocks' : blocks'[k].by = current =>
                             BuiltBefore(pc + 1, registers, k)
      BY <1>4 DEF RunsStraight
    <3>1. /\ \A k \in 1..pc - 1 : out[k].fn = out[pc].fn => out[k].op \notin RetOps
          /\ \A k \in DOMAIN blocks : blocks[k].by = current => BuiltBefore(pc, registers, k)
      BY <2>1 DEF Sound, RunsStraight
    <3>2. \A k \in 1..pc : k = pc \/ k \in 1..pc - 1
      BY <1>1
    <3>3. \A k \in 1..pc - 1 : k \in 1..pc
      BY <1>1
    <3>4. \A k \in DOMAIN blocks : blocks'[k].by = blocks[k].by
      <4> SUFFICES ASSUME NEW k \in DOMAIN blocks
                   PROVE  blocks'[k].by = blocks[k].by
        OBVIOUS
      <4>1. CASE Holding(k) # {}
        <5>1. blocks'[k] = [by |-> current, freedBy |-> current, frees |-> 1]
          BY <1>5, <4>1
        <5> QED
          BY <1>5, <4>1, <5>1
      <4> QED
        BY <1>5, <4>1
    <3>5. \A k : BuiltBefore(pc, registers, k) => BuiltBefore(pc + 1, registers, k)
      BY <1>4, <3>3 DEF BuiltBefore
    <3>6. \A k \in 1..pc : out[k].fn = out[pc].fn => out[k].op \notin RetOps
      BY <1>1, <1>3, <3>1, <3>2
    <3> QED
      BY <1>5, <3>1, <3>4, <3>5, <3>6
  <2>5. Sound(pc', registers', current', blocks')
    BY <1>1, <2>2, <2>3, <2>4 DEF Sound
  <2> QED
    BY <1>1, <2>5, CurrentLater
<1>10. Faults'
  <2>1. fault'.kind = "none"
    BY <1>1 DEF NoFault
  <2> QED
    BY <2>1 DEF Faults
<1> QED
  BY <1>6, <1>7, <1>8, <1>9, <1>10 DEF EInv

-----------------------------------------------------------------------------
(* Activations begin and end.                                                *)

LEMMA EntryLine ==
  ASSUME Generated, todo = <<>>, NEW i \in Lines, out[i].op = "define"
  PROVE  /\ i \in Nat /\ i > 0 /\ i + 1 \in Lines /\ (i + 1) - 1 = i
         /\ out[i + 1].fn = out[i].fn /\ out[i + 1].op \in BodyOps \union {"end"}
         /\ \A k \in 1..i : out[k].fn = out[i].fn => k = i
<1>1. /\ i \in Nat /\ i > 0 /\ i + 1 \in Lines
      /\ out[i + 1].fn = out[i].fn /\ out[i + 1].op \in BodyOps \union {"end"}
  BY LineAfter
<1>2. ASSUME NEW k \in 1..i, out[k].fn = out[i].fn
      PROVE  k = i
  <2>1. /\ InOrder /\ Lines = 1..Len(out) /\ Len(out) \in Nat /\ \A j \in Lines : out[j].fn \in Nat
    BY LenProperties, WrittenTyped DEF Generated, IInv, TypeOK, OInv, LInv, Lines
  <2>2. k \in Lines /\ (k = i \/ k < i)
    BY <1>1, <2>1
  <2>3. k < i => out[k].fn < out[i].fn
    BY <2>1, <2>2 DEF InOrder
  <2> QED
    BY <1>2, <2>1, <2>2, <2>3
<1>3. (i + 1) - 1 = i
  BY <1>1
<1> QED
  BY <1>1, <1>2, <1>3

LEMMA SoundEntered ==
  ASSUME Generated, todo = <<>>, NEW i \in Lines, out[i].op = "define",
         NEW R, DOMAIN R = out[i].use, NEW n, NEW B,
         \A k \in DOMAIN B : B[k].by # n /\ B[k].freedBy # n
  PROVE  Sound(i + 1, R, n, B)
<1>1. /\ i \in Nat /\ i > 0 /\ (i + 1) - 1 = i /\ out[i + 1].fn = out[i].fn
      /\ \A k \in 1..i : out[k].fn = out[i].fn => k = i
  BY EntryLine
<1>2. Holds(i + 1, R, n, B)
  <2>1. Dead \intersect DOMAIN R = {}
    <3>1. ASSUME NEW r \in Dead, r \in out[i].use PROVE FALSE
      <4>1. r \in LineDefines(out[i])
        BY <3>1 DEF LineDefines
      <4> QED
        BY <4>1, DeadBuilt
    <3> QED
      BY <3>1
  <2> QED
    BY <2>1 DEF Holds
<1>3. Present(i + 1, R)
  <2> SUFFICES ASSUME NEW k \in 1..(i + 1) - 1, SameBlock(k, i + 1)
               PROVE  /\ out[k].op \in SettingOps => out[k].def \in DOMAIN R
                      /\ out[k].op = "define" => out[k].use \subseteq DOMAIN R
    BY DEF Present
  <2>1. out[k].fn = out[i + 1].fn
    BY DEF SameBlock
  <2>2. k = i
    BY <1>1, <2>1
  <2> QED
    BY <2>2 DEF SettingOps
<1>4. RunsStraight(i + 1, R, n, B)
  <2>1. \A k \in 1..i : out[k].fn = out[i].fn => out[k].op \notin RetOps
    BY <1>1 DEF RetOps
  <2> QED
    BY <1>1, <2>1 DEF RunsStraight
<1> QED
  BY <1>2, <1>3, <1>4 DEF Sound

(* All of the invariant but the activations that wait.                       *)
LEMMA Entered ==
  ASSUME Generated, EInv, status = "finished", fault = NoFault,
         NEW i \in Lines, out[i].op = "define", NEW values \in SUBSET Held, Enter(i, values)
  PROVE  /\ MachineTyped' /\ Current' /\ JustFreed' /\ FreedByMaker' /\ Faults' /\ pc' # 0
         /\ Held' = Held /\ current' \notin 0..activations /\ activations' = activations + 1
<1>1. /\ todo = <<>> /\ pc' = i + 1 /\ activations' = activations + 1 /\ current' = activations + 1
      /\ registers' \in [out[i].use -> values]
      /\ memory' = memory /\ blocks' = blocks /\ fault' = fault /\ strays' = strays
      /\ out' = out /\ Lines' = Lines /\ status' = status
  BY ProgramKept DEF Enter, Generated, Ended
<1>2. /\ i \in Nat /\ i > 0 /\ i + 1 \in Lines /\ out[i + 1].op \in BodyOps \union {"end"}
      /\ i + 1 # 0 /\ (i + 1) - 1 = i
  BY <1>1, EntryLine
<1>3. MachineTyped
  BY DEF EInv
<1>4. current' \notin 0..activations /\ activations + 1 \in Nat
  BY <1>1, <1>3 DEF MachineTyped
<1>5. Held' = Held
  BY <1>1 DEF Held, Block, Value, Foreign, Garbage
<1>6. MachineTyped'
  <2>1. \A r \in DOMAIN registers' : registers'[r] \in Held'
    BY <1>1, <1>5
  <2>2. \A a \in DOMAIN memory' : memory'[a] \in Held'
    BY <1>1, <1>3, <1>5 DEF MachineTyped
  <2>3. \A n \in DOMAIN blocks :
          /\ blocks[n] = [by |-> blocks[n].by, freedBy |-> blocks[n].freedBy, frees |-> blocks[n].frees]
          /\ blocks[n].by \in 0..activations + 1 /\ blocks[n].freedBy \in 0..activations + 1
          /\ blocks[n].frees \in Nat
    BY <1>3 DEF MachineTyped
  <2>4. /\ IsTuple(blocks) /\ activations + 1 \in Nat /\ activations + 1 \in 0..activations + 1
        /\ strays = 0
    BY <1>3 DEF MachineTyped
  <2>5. pc' \in Lines' /\ out'[pc'].op \in BodyOps \union {"end"} /\ pc' \in Nat /\ pc' # 0
    BY <1>1, <1>2
  <2> QED
    BY <1>1, <2>1, <2>2, <2>3, <2>4, <2>5 DEF MachineTyped
<1>7. Current'
  <2>1. \A k \in DOMAIN blocks' : blocks'[k].by # current' /\ blocks'[k].freedBy # current'
    BY <1>1, <1>3, <1>4 DEF MachineTyped
  <2>2. DOMAIN registers' = out[i].use
    BY <1>1
  <2>3. Sound(i + 1, registers', current', blocks')
    BY <1>1, <2>1, <2>2, SoundEntered
  <2>4. Sound(pc', registers', current', blocks')
    BY <1>1, <2>3
  <2> QED
    BY <2>4, CurrentLater DEF Enter
<1>8. JustFreed'
  <2>1. out'[pc' - 1].op = "define"
    BY <1>1, <1>2
  <2> QED
    BY <2>1 DEF JustFreed
<1>9. FreedByMaker' /\ Faults'
  <2>1. fault'.kind = "none"
    BY <1>1 DEF NoFault
  <2> QED
    BY <1>1, <2>1 DEF EInv, FreedByMaker, Faults
<1> QED
  BY <1>1, <1>2, <1>4, <1>5, <1>6, <1>7, <1>8, <1>9

LEMMA NoFrames ==
  ASSUME frames' = <<>>, UNCHANGED vars
  PROVE  FramesTyped' /\ Suspended'
<1>1. DOMAIN frames' = {} /\ IsTuple(frames')
  BY ShortTuples, EmptySeq
<1>2. FramesTyped'
  BY <1>1 DEF FramesTyped
<1>3. Suspended'
  BY <1>1 DEF Suspended
<1> QED
  BY <1>2, <1>3

LEMMA CallKeeps ==
  ASSUME Generated, EInv, Call
  PROVE  EInv'
<1>1. PICK i \in Lines : out[i].op = "define" /\ Enter(i, {Foreign})
  BY DEF Call
<1>2. status = "finished" /\ pc = 0 /\ fault = NoFault /\ frames = <<>> /\ frames' = frames
  BY DEF Call, EInv, MachineTyped, FramesTyped
<1>3. {Foreign} \in SUBSET Held
  BY DEF Held
<1>4. /\ MachineTyped' /\ Current' /\ JustFreed' /\ FreedByMaker' /\ Faults'
  BY <1>1, <1>2, <1>3, Entered
<1>5. FramesTyped' /\ Suspended'
  BY <1>1, <1>2, NoFrames DEF Enter
<1> QED
  BY <1>4, <1>5 DEF EInv

LEMMA ExecuteCallKeeps ==
  ASSUME Generated, EInv, ExecuteCall
  PROVE  EInv'
<1> DEFINE f == [pc |-> pc, number |-> current, registers |-> registers]
           values == {ValueOf(r) : r \in Ln.use}
           top == Len(frames) + 1
<1>1. PICK i \in Lines : out[i].op = "define" /\ Enter(i, values)
  BY DEF ExecuteCall, Callee
<1>2. /\ Running /\ pc \in Lines /\ Ln = out[pc] /\ status = "finished" /\ fault = NoFault /\ pc # 0
      /\ Ln.op \in CallOps /\ \A r \in Ln.use : Defined(r)
      /\ frames' = Append(frames, f)
  BY RunningLine DEF ExecuteCall, Fetched, Running, Bad
<1>3. values \in SUBSET Held
  BY <1>2, ValueHeld
<1> HIDE DEF values, f
<1>4. /\ MachineTyped' /\ Current' /\ JustFreed' /\ FreedByMaker' /\ Faults' /\ pc' # 0
      /\ Held' = Held /\ current' \notin 0..activations /\ activations' = activations + 1
  BY <1>1, <1>2, <1>3, Entered
<1>5. /\ IsTuple(frames') /\ DOMAIN frames = 1..Len(frames) /\ DOMAIN frames' = 1..top
      /\ Len(frames) \in Nat /\ frames'[top] = f
      /\ \A n \in DOMAIN frames : frames'[n] = frames[n]
  BY <1>2, Pushed DEF EInv, FramesTyped
<1>6. \A j \in DOMAIN frames' : j = top \/ j \in DOMAIN frames
  BY <1>5
<1>7. /\ f.pc = pc /\ f.number = current /\ f.registers = registers
  BY DEF f
<1>8. /\ blocks' = blocks /\ out' = out /\ Lines' = Lines
  BY <1>1, ProgramKept DEF Enter
<1>9. FramesTyped /\ MachineTyped /\ activations \in Nat /\ current \in 0..activations
  BY DEF EInv, MachineTyped
<1>10. FramesTyped'
  <2>1. ASSUME NEW j \in DOMAIN frames'
        PROVE  /\ frames'[j].pc \in Lines /\ out[frames'[j].pc].op \in CallOps
               /\ frames'[j].number \in 0..activations
               /\ \A r \in DOMAIN frames'[j].registers : frames'[j].registers[r] \in Held
    <3>1. CASE j = top
      BY <1>2, <1>5, <1>7, <1>9, <3>1 DEF MachineTyped
    <3>2. CASE j \in DOMAIN frames
      BY <1>5, <1>9, <3>2 DEF FramesTyped
    <3> QED
      BY <1>6, <3>1, <3>2
  <2>2. ASSUME NEW j \in DOMAIN frames', NEW k \in DOMAIN frames',
               frames'[k].number = frames'[j].number
        PROVE  k = j
    <3>1. CASE j = top /\ k = top
      BY <3>1
    <3>2. CASE j \in DOMAIN frames /\ k \in DOMAIN frames
      BY <1>5, <1>9, <2>2, <3>2 DEF FramesTyped
    <3>3. CASE j = top /\ k \in DOMAIN frames
      BY <1>5, <1>7, <1>9, <2>2, <3>3 DEF FramesTyped
    <3>4. CASE j \in DOMAIN frames /\ k = top
      BY <1>5, <1>7, <1>9, <2>2, <3>4 DEF FramesTyped
    <3> QED
      BY <1>6, <3>1, <3>2, <3>3, <3>4
  <2>3. \A j \in DOMAIN frames' :
          frames'[j].number \in 0..activations + 1 /\ frames'[j].number # current'
    BY <1>4, <1>9, <2>1
  <2> QED
    BY <1>4, <1>5, <1>8, <2>1, <2>2, <2>3 DEF FramesTyped
<1>11. Suspended'
  <2>1. ASSUME NEW j \in DOMAIN frames'
        PROVE  Sound(frames'[j].pc, frames'[j].registers, frames'[j].number, blocks')
    <3>1. CASE j = top
      <4>1. Sound(pc, registers, current, blocks)
        BY <1>2 DEF EInv, Current
      <4> QED
        BY <1>5, <1>7, <1>8, <3>1, <4>1
    <3>2. CASE j \in DOMAIN frames
      <4>1. Sound(frames[j].pc, frames[j].registers, frames[j].number, blocks)
        BY <3>2 DEF EInv, Suspended
      <4> QED
        BY <1>5, <1>8, <3>2, <4>1
    <3> QED
      BY <1>6, <3>1, <3>2
  <2> QED
    BY <1>1, <2>1, WaitingLater DEF Enter
<1> QED
  BY <1>4, <1>10, <1>11 DEF EInv

LEMMA ReturnOutsideKeeps ==
  ASSUME Generated, EInv, ReturnOutside
  PROVE  EInv'
<1>1. /\ Running /\ pc' = 0 /\ current' = 0 /\ fault = NoFault /\ frames' = <<>>
      /\ registers' = [r \in {} |-> Foreign]
      /\ memory' = [a \in {x \in DOMAIN memory : x[1] # current} |-> memory[a]]
      /\ activations' = activations /\ blocks' = blocks /\ strays' = strays
      /\ fault' = fault /\ UNCHANGED vars
  BY RunningLine DEF ReturnOutside, Leave, Fetched
<1>2. MachineTyped'
  <2>1. Held' = Held
    BY <1>1 DEF Held, Block, Value, Foreign, Garbage
  <2>2. DOMAIN registers' = {}
    BY <1>1
  <2>3. \A r \in DOMAIN registers' : registers'[r] \in Held'
    BY <2>2
  <2>4. \A a \in DOMAIN memory' : memory'[a] \in Held'
    BY <1>1, <2>1 DEF EInv, MachineTyped
  <2>5. pc' \in Nat /\ pc' = 0 /\ fault' = NoFault
    BY <1>1
  <2>6. activations' \in Nat /\ current' \in 0..activations'
    BY <1>1 DEF EInv, MachineTyped
  <2> QED
    BY <1>1, <2>3, <2>4, <2>5, <2>6 DEF EInv, MachineTyped
<1>3. Current' /\ JustFreed'
  BY <1>1 DEF Current, JustFreed
<1>4. FreedByMaker' /\ Faults'
  <2>1. fault'.kind = "none"
    BY <1>1 DEF NoFault
  <2> QED
    BY <1>1, <2>1 DEF EInv, FreedByMaker, Faults
<1> QED
  BY <1>1, <1>2, <1>3, <1>4, NoFrames DEF EInv

(* The caller finds itself as it left, and sets the register of the call.      *)
LEMMA ReturnToCallerKeeps ==
  ASSUME Generated, EInv, ReturnToCaller
  PROVE  EInv'
<1> DEFINE top == Len(frames)
           c == frames[top]
<1>1. /\ Running /\ Ln.op \in RetOps /\ Fetched(RetOps) /\ fault = NoFault /\ frames # <<>>
      /\ pc' = c.pc + 1 /\ current' = c.number
      /\ registers' = With(c.registers, out[c.pc].def, Operand)
      /\ frames' = SubSeq(frames, 1, top - 1)
      /\ memory' = [a \in {x \in DOMAIN memory : x[1] # current} |-> memory[a]]
      /\ activations' = activations /\ blocks' = blocks /\ strays' = strays
      /\ fault' = fault /\ UNCHANGED vars /\ status = "finished" /\ todo = <<>>
      /\ out' = out /\ Lines' = Lines /\ status' = status
  BY RunningLine, ProgramKept DEF ReturnToCaller, Leave, Fetched
<1>2. FramesTyped /\ MachineTyped
  BY DEF EInv
<1>3. /\ IsTuple(frames') /\ top \in DOMAIN frames
      /\ \A n \in DOMAIN frames' : n \in DOMAIN frames /\ n # top /\ frames'[n] = frames[n]
  BY <1>1, <1>2, Popped DEF FramesTyped
<1>4. /\ c.pc \in Lines /\ out[c.pc].op \in CallOps /\ c.number \in 0..activations
      /\ \A j \in DOMAIN frames : frames[j].number = c.number => j = top
      /\ \A r \in DOMAIN c.registers : c.registers[r] \in Held
  BY <1>2, <1>3 DEF FramesTyped
<1>5. /\ out[c.pc].op \in BodyOps \ (RetOps \union {"free"}) /\ out[c.pc].op \in SettingOps
      /\ out[c.pc].op \notin {"concat", "copy"} /\ out[c.pc].op \in BodyOps /\ out[c.pc].op # "free"
  BY <1>4 DEF CallOps, BodyOps, RetOps, SettingOps, Operation, StringOps
<1>6. /\ c.pc \in Nat /\ c.pc + 1 \in Lines /\ out[c.pc + 1].op \in BodyOps \union {"end"}
      /\ c.pc + 1 \in Nat /\ c.pc + 1 # 0 /\ (c.pc + 1) - 1 = c.pc
  <2>1. c.pc \in Nat /\ c.pc > 0 /\ c.pc + 1 \in Lines /\ out[c.pc + 1].op \in BodyOps \union {"end"}
    BY <1>1, <1>4, <1>5, LineAfter
  <2> QED
    BY <2>1
<1>7. Operand \in Held
  BY <1>1, OneOperand
<1>8. Held' = Held
  BY <1>1 DEF Held, Block, Value, Foreign, Garbage
<1> HIDE DEF c, top
<1>9. /\ DOMAIN registers' = DOMAIN c.registers \union {out[c.pc].def}
      /\ registers'[out[c.pc].def] = Operand
      /\ \A x \in DOMAIN registers' :
           x # out[c.pc].def => x \in DOMAIN c.registers /\ registers'[x] = c.registers[x]
  <2>1. registers' = [x \in DOMAIN c.registers \union {out[c.pc].def} |->
                        IF x = out[c.pc].def THEN Operand ELSE c.registers[x]]
    BY <1>1 DEF With
  <2> QED
    BY <2>1
<1>10. MachineTyped'
  <2>1. \A r \in DOMAIN registers' : registers'[r] \in Held'
    BY <1>4, <1>7, <1>8, <1>9
  <2>2. \A a \in DOMAIN memory' : memory'[a] \in Held'
    BY <1>1, <1>2, <1>8 DEF MachineTyped
  <2>3. pc' \in Lines' /\ out'[pc'].op \in BodyOps \union {"end"} /\ pc' \in Nat /\ pc' # 0
    BY <1>1, <1>6
  <2>4. activations' \in Nat /\ current' \in 0..activations' /\ strays' = 0
    BY <1>1, <1>2, <1>4 DEF MachineTyped
  <2> QED
    BY <1>1, <1>2, <2>1, <2>2, <2>3, <2>4 DEF MachineTyped
<1>11. FramesTyped'
  <2>1. ASSUME NEW j \in DOMAIN frames'
        PROVE  /\ frames'[j].pc \in Lines /\ out[frames'[j].pc].op \in CallOps
               /\ frames'[j].number \in 0..activations /\ frames'[j].number # c.number
               /\ \A k \in DOMAIN frames' : frames'[k].number = frames'[j].number => k = j
               /\ \A r \in DOMAIN frames'[j].registers : frames'[j].registers[r] \in Held
    BY <1>2, <1>3, <1>4, <2>1 DEF FramesTyped
  <2>2. pc' # 0
    BY <1>1, <1>6
  <2> QED
    BY <1>1, <1>3, <1>8, <2>1, <2>2 DEF FramesTyped
<1>12. Suspended'
  <2>1. ASSUME NEW j \in DOMAIN frames'
        PROVE  Sound(frames'[j].pc, frames'[j].registers, frames'[j].number, blocks')
    <3>1. Sound(frames[j].pc, frames[j].registers, frames[j].number, blocks)
      BY <1>3 DEF EInv, Suspended
    <3> QED
      BY <1>1, <1>3, <3>1
  <2> QED
    BY <1>1, <2>1, WaitingLater
<1>13. Current'
  <2>1. Sound(c.pc, c.registers, c.number, blocks)
    BY <1>3 DEF EInv, Suspended, c
  <2>2. SetsAt(c.pc, c.registers, registers')
    BY <1>5, <1>9 DEF SetsAt
  <2>3. MakesAt(c.pc, registers', c.number, blocks, blocks)
    BY <1>5 DEF MakesAt
  <2>4. Sound(c.pc + 1, registers', c.number, blocks)
    BY <1>1, <1>4, <1>5, <2>1, <2>2, <2>3, SoundNext
  <2>5. Sound(pc', registers', current', blocks')
    BY <1>1, <2>4
  <2> QED
    BY <1>1, <2>5, CurrentLater
<1>14. JustFreed'
  <2>1. pc' - 1 = c.pc /\ out'[c.pc].op # "free"
    BY <1>1, <1>5, <1>6
  <2> QED
    BY <2>1 DEF JustFreed
<1>15. FreedByMaker' /\ Faults'
  <2>1. fault'.kind = "none"
    BY <1>1 DEF NoFault
  <2> QED
    BY <1>1, <2>1 DEF EInv, FreedByMaker, Faults
<1> QED
  BY <1>10, <1>11, <1>12, <1>13, <1>14, <1>15 DEF EInv

-----------------------------------------------------------------------------
(* The end of the program, and its surroundings.                             *)

(* Outside returns, no activation that is active has freed a block.           *)
LEMMA FreedByInactive ==
  ASSUME EInv, pc # 0, Ln.op \notin RetOps, NEW n \in DOMAIN blocks, blocks[n].frees > 0
  PROVE  blocks[n].freedBy \notin Active
<1>1. blocks[n].freedBy # current
  BY DEF EInv, Current, Sound, Holds, Ln
<1>2. ASSUME NEW i \in DOMAIN frames
      PROVE  blocks[n].freedBy # frames[i].number
  <2>1. out[frames[i].pc].op \notin RetOps
    BY DEF EInv, FramesTyped, CallOps, RetOps
  <2> QED
    BY <2>1 DEF EInv, Suspended, Sound, Holds
<1> QED
  BY <1>1, <1>2 DEF Active

LEMMA TrapFaults ==
  ASSUME Generated, EInv, Trap
  PROVE  Faults'
<1>1. /\ Running /\ pc \in Lines /\ Ln = out[pc] /\ Ln.op \in BodyOps \union {"end"}
      /\ pc \in Nat /\ pc > 0
      /\ blocks' = blocks /\ out' = out /\ activations' = activations
      /\ current' = current /\ frames' = frames /\ pc # 0
  BY RunningLine, ProgramKept DEF Trap, activation, Running
<1>2. CASE \E r \in Ln.use :
             /\ Bad(r)
             /\ fault' = [kind |-> IF Defined(r) THEN "dangling" ELSE "undefined",
                          line |-> pc,
                          block |-> IF Defined(r) THEN ValueOf(r).block ELSE 0]
  <2>1. PICK r \in Ln.use :
             /\ Bad(r)
             /\ fault' = [kind |-> IF Defined(r) THEN "dangling" ELSE "undefined",
                          line |-> pc,
                          block |-> IF Defined(r) THEN ValueOf(r).block ELSE 0]
    BY <1>2
  <2>2. CASE Defined(r)
    <3>1. fault'.kind = "dangling" /\ fault'.block = ValueOf(r).block
      BY <2>1, <2>2
    <3>2. Ln.op \in PointerOps /\ Dangling(ValueOf(r))
      BY <2>1, <2>2 DEF Bad
    <3>3. ASSUME ValueOf(r).block # 0
          PROVE  ValueOf(r).block \in DOMAIN blocks /\ blocks[ValueOf(r).block].freedBy \notin Active
      <4>1. IsFreed(ValueOf(r))
        BY <3>2, <3>3, Blocks DEF Dangling
      <4>2. ValueOf(r) \in Held
        BY <2>2, ValueHeld
      <4>3. ValueOf(r).block \in DOMAIN blocks
        BY <4>1, <4>2, Blocks DEF IsFreed, Held
      <4>4. Ln.op \notin RetOps
        BY <3>2 DEF PointerOps, RetOps
      <4> QED
        BY <1>1, <4>1, <4>3, <4>4, FreedByInactive DEF IsFreed
    <3>4. Active' = Active
      BY <1>1 DEF Active
    <3>5. fault'.block # 0 =>
            fault'.block \in DOMAIN blocks /\ blocks[fault'.block].freedBy \notin Active
      BY <3>1, <3>3
    <3> QED
      BY <1>1, <3>1, <3>4, <3>5 DEF Faults
  <2>3. CASE ~Defined(r)
    <3>1. fault'.kind = "undefined" /\ fault'.line = pc
      BY <2>1, <2>3
    <3>2. ASSUME Ln.op # "free" PROVE FALSE
      <4>1. r \in LineOperands(out[pc])
        <5>1. r # Literal /\ r \notin DOMAIN registers
          BY <2>3 DEF Defined
        <5>2. Ln.op \notin {"define", "constants"}
          BY <1>1 DEF BodyOps
        <5> QED
          BY <1>1, <5>1, <5>2 DEF LineOperands
      <4>2. PICK i \in 1..pc - 1 :
               /\ SameBlock(i, pc)
               /\ \/ out[i].op = "define" /\ r \in out[i].use
                  \/ out[i].op \in SettingOps /\ out[i].def = r
        BY <1>1, <3>2, <4>1, OperandSet
      <4>3. r \in DOMAIN registers
        BY <1>1, <4>2 DEF EInv, Current, Sound, Present
      <4> QED
        BY <2>3, <4>3 DEF Defined
    <3> QED
      BY <1>1, <3>1, <3>2 DEF Faults
  <2> QED
    BY <2>2, <2>3
<1>3. CASE Ln.op = "end" /\ fault' = [NoFault EXCEPT !.kind = "no return", !.line = pc]
  <2>1. fault'.kind = "no return"
    BY <1>3 DEF NoFault
  <2> QED
    BY <2>1 DEF Faults
<1> QED
  BY <1>2, <1>3 DEF Trap

(* What holds of the machine but of its faults.                              *)
LEMMA MachineUntouched ==
  ASSUME EInv, UNCHANGED <<vars, pc, activation, registers, memory, blocks, strays>>,
         pc # 0 \/ fault' = fault
  PROVE  /\ MachineTyped' /\ FramesTyped' /\ Current' /\ Suspended' /\ JustFreed' /\ FreedByMaker'
<1>1. /\ pc' = pc /\ activations' = activations /\ registers' = registers /\ memory' = memory
      /\ blocks' = blocks /\ out' = out /\ Lines' = Lines /\ status' = status /\ strays' = strays
      /\ current' = current /\ frames' = frames
  BY ProgramKept DEF activation
<1>2. Ln' = Ln /\ Held' = Held
  BY <1>1 DEF Ln, Held, Block, Value, Foreign, Garbage
<1>3. MachineTyped'
  BY <1>1, <1>2 DEF EInv, MachineTyped
<1>4. FramesTyped'
  BY <1>1, <1>2 DEF EInv, FramesTyped
<1>5. Current'
  <2>1. pc' # 0 => Sound(pc', registers', current', blocks')
    BY <1>1 DEF EInv, Current
  <2> QED
    BY <2>1, CurrentLater
<1>6. Suspended'
  <2>1. \A i \in DOMAIN frames' :
          Sound(frames'[i].pc, frames'[i].registers, frames'[i].number, blocks')
    BY <1>1 DEF EInv, Suspended
  <2> QED
    BY <2>1, WaitingLater
<1>7. JustFreed' /\ FreedByMaker'
  BY <1>1, <1>2 DEF EInv, JustFreed, FreedByMaker, Block, Value
<1> QED
  BY <1>3, <1>4, <1>5, <1>6, <1>7

LEMMA TrapKeeps ==
  ASSUME Generated, EInv, Trap
  PROVE  EInv'
<1>1. pc # 0 /\ UNCHANGED <<vars, pc, activation, registers, memory, blocks, strays>>
  BY DEF Trap, Running
<1> QED
  BY <1>1, MachineUntouched, TrapFaults DEF EInv

LEMMA EnvironmentKeeps ==
  ASSUME Generated, EInv, NEW A, EnvironmentStores(A)
  PROVE  EInv'
<1>1. /\ pc = 0 /\ pc' = pc /\ activations' = activations /\ current' = current /\ frames' = frames
      /\ registers' = registers /\ strays' = strays
      /\ blocks' = blocks /\ fault' = fault /\ status' = "finished" /\ UNCHANGED vars
      /\ ForeignStores(A)
  BY ProgramKept DEF EnvironmentStores, activation
<1>2. Held' = Held
  BY <1>1 DEF Held, Block, Value, Foreign, Garbage
<1>3. \A a \in DOMAIN memory' : memory'[a] \in Held'
  BY <1>1, <1>2, ForeignHeld
<1>4. MachineTyped'
  BY <1>1, <1>2, <1>3 DEF EInv, MachineTyped
<1>5. Current' /\ JustFreed'
  BY <1>1 DEF Current, JustFreed
<1>6. frames' = <<>>
  BY <1>1 DEF EInv, FramesTyped
<1>7. FreedByMaker' /\ Faults'
  <2>1. fault'.kind = "none"
    BY <1>1 DEF EInv, MachineTyped, NoFault
  <2> QED
    BY <1>1, <2>1 DEF EInv, FreedByMaker, Faults
<1> QED
  BY <1>1, <1>4, <1>5, <1>6, <1>7, NoFrames DEF EInv

-----------------------------------------------------------------------------
(* All steps.                                                                *)

LEMMA GeneratorKeeps ==
  ASSUME Generated, EInv, [Next]_vars, UNCHANGED machine
  PROVE  EInv'
<1>1. /\ pc' = pc /\ activations' = activations /\ registers' = registers /\ memory' = memory
      /\ blocks' = blocks /\ fault' = fault /\ strays' = strays /\ frames' = frames
      /\ current' = current /\ UNCHANGED activation
  BY DEF machine, activation
<1>2. CASE status = "finished"
  <2>1. UNCHANGED vars
    BY <1>2, FinishedStops
  <2>2. Active' = Active
    BY <1>1 DEF Active
  <2>3. Faults'
    BY <1>1, <2>1, <2>2, ProgramKept DEF EInv, Faults
  <2> QED
    BY <1>1, <2>1, <2>3, MachineUntouched DEF EInv
<1>3. CASE status # "finished"
  <2>1. pc = 0 /\ fault = NoFault /\ frames = <<>>
    BY <1>3 DEF EInv, MachineTyped, FramesTyped
  <2>2. Held' = Held
    BY <1>1 DEF Held, Block, Value, Foreign, Garbage
  <2>3. MachineTyped'
    BY <1>1, <2>1, <2>2 DEF EInv, MachineTyped
  <2>4. DOMAIN frames' = {} /\ IsTuple(frames')
    BY <1>1, <2>1, ShortTuples, EmptySeq
  <2>5. FramesTyped' /\ Suspended' /\ Current' /\ JustFreed'
    BY <1>1, <2>1, <2>4 DEF FramesTyped, Suspended, Current, JustFreed
  <2>6. fault'.kind = "none"
    BY <1>1, <2>1 DEF NoFault
  <2>7. FreedByMaker' /\ Faults'
    BY <1>1, <2>6 DEF EInv, FreedByMaker, Faults
  <2> QED
    BY <2>3, <2>5, <2>7 DEF EInv
<1> QED
  BY <1>2, <1>3

LEMMA InitEInv == ExecutionInit => EInv
<1> SUFFICES ASSUME ExecutionInit PROVE EInv
  OBVIOUS
<1>1. /\ pc = 0 /\ activations = 0 /\ current = 0 /\ blocks = <<>> /\ fault = NoFault
      /\ frames = <<>> /\ strays = 0
      /\ DOMAIN registers = {} /\ DOMAIN memory = {}
  BY DEF ExecutionInit
<1>2. DOMAIN blocks = {} /\ IsTuple(blocks) /\ DOMAIN frames = {} /\ IsTuple(frames)
  BY <1>1, ShortTuples, EmptySeq
<1>3. MachineTyped
  BY <1>1, <1>2 DEF MachineTyped
<1>4. FramesTyped /\ Current /\ Suspended /\ JustFreed /\ FreedByMaker
  BY <1>1, <1>2 DEF FramesTyped, Current, Suspended, JustFreed, FreedByMaker
<1>5. fault.kind = "none"
  BY <1>1 DEF NoFault
<1> QED
  BY <1>3, <1>4, <1>5 DEF EInv, Faults

LEMMA LineKeeps ==
  ASSUME Generated, EInv, ExecuteLine
  PROVE  EInv'
<1>1. CASE \/ ExecuteAlloca \/ ExecuteStore \/ ExecuteLoad \/ ExecuteValue
           \/ ExecuteAllocation \/ ExecuteLabel
  BY <1>1, ExecutesKeeps, ExecuteAllocaExecutes, ExecuteStoreExecutes, ExecuteLoadExecutes,
     ExecuteValueExecutes, ExecuteAllocationExecutes, ExecuteLabelExecutes
<1>2. CASE \E A \in SUBSET GlobalAddresses : ExecuteForeignCall(A)
  BY <1>2, ExecutesKeeps, ExecuteForeignCallExecutes
<1>3. CASE ExecuteFree \/ \E l \in 0..next_label : JumpTo(l)
  BY <1>3, FreeKeeps, JumpKeeps
<1>4. CASE ExecuteCall \/ ReturnToCaller \/ ReturnOutside
  BY <1>4, ExecuteCallKeeps, ReturnToCallerKeeps, ReturnOutsideKeeps
<1> QED
  BY <1>1, <1>2, <1>3, <1>4 DEF ExecuteLine

(* A step of the machine leaves the program alone.                           *)
LEMMA MachineSteps ==
  ASSUME [ExecutionNext]_all
  PROVE  /\ [Next]_vars
         /\ \/ [Next]_vars /\ UNCHANGED machine
            \/ ExecuteLine \/ Trap \/ Call
            \/ \E A \in SUBSET GlobalAddresses : EnvironmentStores(A)
<1>1. CASE ExecuteLine
  BY <1>1 DEF ExecuteLine, ExecuteAlloca, ExecuteStore, ExecuteLoad, ExecuteValue,
     ExecuteAllocation, ExecuteLabel, ExecuteFree, ExecuteCall, Enter, ExecuteForeignCall,
     ReturnToCaller, ReturnOutside, Leave, JumpTo
<1>2. CASE Trap \/ Call \/ \E A \in SUBSET GlobalAddresses : EnvironmentStores(A)
  BY <1>2 DEF Trap, Call, Enter, EnvironmentStores
<1>3. CASE Next /\ UNCHANGED machine
  BY <1>3
<1>4. CASE UNCHANGED all
  BY <1>4 DEF all
<1> QED
  BY <1>1, <1>2, <1>3, <1>4 DEF ExecutionNext

LEMMA NextEInv ==
  ASSUME Generated, EInv, [ExecutionNext]_all
  PROVE  EInv'
BY MachineSteps, GeneratorKeeps, LineKeeps, TrapKeeps, CallKeeps, EnvironmentKeeps

(* The inductive invariant of the machine.                                   *)
LEMMA MachineRuns ==
  ASSUME NoTmpSymbol
  PROVE  ExecutionSpec => [](Generated /\ EInv)
<1>1. ExecutionInit => Init
  BY DEF ExecutionInit
<1>2. [ExecutionNext]_all => [Next]_vars
  BY MachineSteps
<1>3. Spec => []Generated
  BY Output
<1>4. Generated /\ EInv /\ [ExecutionNext]_all => EInv'
  BY NextEInv
<1> QED
  BY <1>1, <1>2, <1>3, <1>4, InitEInv, PTL DEF ExecutionSpec, Spec

-----------------------------------------------------------------------------
(* Theorems.  Each assumes that no variable of the program is called tmp, which *)
(* the compiler does not check: such a variable shares the names of the        *)
(* temporaries.                                                              *)

(* At a return of a function without branches, its strings are freed or       *)
(* returned.                                                                 *)
LEMMA ReturnSettles ==
  ASSUME Generated, EInv, Running, Straight(Ln.fn), Ln.op \in RetOps,
         NEW n \in DOMAIN blocks, blocks[n].by = current
  PROVE  blocks[n].frees = 1 \/ Operand = Block(n)
<1>1. /\ pc \in Lines /\ pc \in Nat /\ pc > 0 /\ pc # 0 /\ todo = <<>> /\ Ln = out[pc]
      /\ Lines = 1..Len(out) /\ Len(out) \in Nat
  BY RunningLine
<1>2. /\ \A k \in 1..pc - 1 : out[k].fn = out[pc].fn => out[k].op \notin RetOps
      /\ BuiltBefore(pc, registers, n)
  BY <1>1 DEF EInv, Current, Sound, RunsStraight
<1>3. PICK i \in 1..pc - 1 :
         /\ out[i].fn = out[pc].fn /\ out[i].op \in {"concat", "copy"}
         /\ out[i].def \in DOMAIN registers /\ registers[out[i].def] = Block(n)
  BY <1>2 DEF BuiltBefore
<1>4. i \in Lines /\ i \in Nat /\ i < pc
  BY <1>1
<1>5. CASE out[i].op = "concat"
  <2>1. ASSUME NEW k \in i + 1..pc - 1 PROVE out[k].op \notin RetOps
    <3>1. k \in i..pc /\ k \in 1..pc - 1
      BY <1>1, <1>4
    <3>2. out[k].fn = out[i].fn
      BY <1>1, <1>3, <1>4, <3>1, LinesBetween
    <3> QED
      BY <1>2, <1>3, <3>1, <3>2
  <2>2. FreedByReturn
    BY DEF Generated, OInv, NInv
  <2>3. pc - 1 \in Lines /\ out[pc - 1].op = "free" /\ out[i].def \in out[pc - 1].use
    BY <1>1, <1>4, <1>5, <2>1, <2>2 DEF FreedByReturn
  <2>4. PICK m \in DOMAIN blocks : registers[out[i].def] = Block(m) /\ blocks[m].frees = 1
    BY <1>1, <2>3 DEF EInv, JustFreed
  <2>5. Block(m) = Block(n)
    BY <1>3, <2>4
  <2>6. m = n
    BY <2>5, Blocks
  <2> QED
    BY <2>4, <2>6
<1>6. CASE out[i].op = "copy"
  <2>1. out[i].def = ReturnCopy
    BY <1>4, <1>6 DEF Generated, OInv, LInv, LinesWellFormed, WellFormed
  <2>2. Ln.use = {ReturnCopy}
    <3>1. Ln.op # "free"
      BY DEF RetOps
    <3> QED
      BY <1>1, <1>2, <1>3, <1>4, <1>6, <3>1, AfterCopy
  <2>3. (CHOOSE r \in Ln.use : TRUE) = ReturnCopy
    BY <2>2
  <2>4. ReturnCopy # Literal
    BY DEF ReturnCopy, Literal, Reg
  <2> QED
    BY <1>3, <2>1, <2>3, <2>4 DEF Operand, ValueOf
<1> QED
  BY <1>3, <1>5, <1>6

(* The returns of a function without branches (llvm.cpp, ReturnInstruction)    *)
(* leave no string behind, whatever it calls: each one that the activation     *)
(* built was freed, once, by the line before, or is the copy that is returned. *)
THEOREM NothingEverLeaks ==
  ASSUME NoTmpSymbol
  PROVE  ExecutionSpec => []NothingLeaks
<1>1. Generated /\ EInv => NothingLeaks
  BY ReturnSettles DEF NothingLeaks, RetOps
<1> QED
  BY <1>1, MachineRuns, PTL

(* A string that is used after its end, by a string function of string_lib.ll,  *)
(* was freed by an activation that has ended: never by the one that uses it,    *)
(* nor by one that waits for a function it called.                           *)
THEOREM DanglingAlwaysInherited ==
  ASSUME NoTmpSymbol
  PROVE  ExecutionSpec => []DanglingIsInherited
<1>1. Generated /\ EInv => DanglingIsInherited
  BY DEF EInv, Faults, DanglingIsInherited
<1> QED
  BY <1>1, MachineRuns, PTL

(* The returns of llvm.cpp free a string in the activation that has built it:  *)
(* no function frees a string of its caller, of one it has called, or of one   *)
(* that ran before.                                                          *)
THEOREM MakerAlwaysFrees ==
  ASSUME NoTmpSymbol
  PROVE  ExecutionSpec => []FreedByMaker
<1>1. Generated /\ EInv => FreedByMaker
  BY DEF EInv
<1> QED
  BY <1>1, MachineRuns, PTL

(* A line that finds a register without a value is one that frees strings: of   *)
(* all other lines the code of llvm.cpp has set the operands before, on every  *)
(* way that leads there.                                                     *)
THEOREM OnlyFreesEverMissValues ==
  ASSUME NoTmpSymbol
  PROVE  ExecutionSpec => []OnlyFreesMissValues
<1>1. Generated /\ EInv => OnlyFreesMissValues
  BY DEF EInv, Faults, OnlyFreesMissValues
<1> QED
  BY <1>1, MachineRuns, PTL

(* The heap as malloc and free see it.                                       *)
FreeCounts == [n \in DOMAIN blocks |-> blocks[n].frees]

LEMMA AllocationAllocates ==
  ASSUME EInv, ExecuteAllocation
  PROVE  StringHeap!Allocate
<1>1. /\ Len(blocks') \in DOMAIN blocks' /\ Len(blocks') \notin DOMAIN blocks
      /\ DOMAIN blocks' = DOMAIN blocks \union {Len(blocks')}
      /\ blocks'[Len(blocks')] = [by |-> current, freedBy |-> 0, frees |-> 0]
      /\ \A n \in DOMAIN blocks : blocks'[n] = blocks[n]
  BY BlockAdded DEF ExecuteAllocation
<1>2. PICK g : g = blocks'
  OBVIOUS
<1>3. PICK b : b = Len(blocks')
  OBVIOUS
<1>4. /\ b \in DOMAIN g /\ b \notin DOMAIN blocks /\ DOMAIN g = DOMAIN blocks \union {b}
      /\ g[b].frees = 0 /\ \A n \in DOMAIN blocks : g[n].frees = blocks[n].frees
  BY <1>1, <1>2, <1>3
<1>5. [n \in DOMAIN g |-> g[n].frees]
       = [x \in DOMAIN blocks \union {b} |-> IF x = b THEN 0 ELSE FreeCounts[x]]
  BY <1>4 DEF FreeCounts
<1>6. DOMAIN FreeCounts = DOMAIN blocks /\ DOMAIN FreeCounts' = DOMAIN g
  BY <1>2 DEF FreeCounts
<1>7. FreeCounts' = [n \in DOMAIN g |-> g[n].frees]
  BY <1>2 DEF FreeCounts
<1>8. /\ b \in DOMAIN FreeCounts' /\ b \notin DOMAIN FreeCounts
      /\ FreeCounts' = [x \in DOMAIN FreeCounts \union {b} |-> IF x = b THEN 0 ELSE FreeCounts[x]]
  BY <1>4, <1>5, <1>6, <1>7
<1>9. strays' = strays
  BY DEF ExecuteAllocation
<1> QED
  BY <1>8, <1>9 DEF StringHeap!Allocate, FreeCounts

LEMMA FreeFrees ==
  ASSUME Generated, EInv, ExecuteFree
  PROVE  \E B \in SUBSET DOMAIN FreeCounts : StringHeap!Free(B)
<1> DEFINE B == {n \in DOMAIN blocks : Holding(n) # {}}
<1>1. PICK g : g = blocks'
  OBVIOUS
<1>2. /\ \A n \in B : blocks[n].frees = 0
      /\ DOMAIN g = DOMAIN blocks
      /\ \A n \in DOMAIN blocks : g[n].frees = IF n \in B THEN 1 ELSE blocks[n].frees
  <2>1. /\ \A n \in DOMAIN blocks : Holding(n) # {} => blocks[n].frees = 0
        /\ DOMAIN blocks' = DOMAIN blocks
        /\ \A n \in DOMAIN blocks :
             blocks'[n] = IF Holding(n) = {} THEN blocks[n]
                          ELSE [by |-> current, freedBy |-> current, frees |-> 1]
    BY FreedBlocks
  <2> QED
    BY <1>1, <2>1
<1>3. B \in SUBSET DOMAIN blocks
  OBVIOUS
<1> HIDE DEF B
<1>4. [n \in DOMAIN g |-> g[n].frees]
       = [x \in DOMAIN blocks |-> IF x \in B THEN 1 ELSE FreeCounts[x]]
  BY <1>2 DEF FreeCounts
<1>5. DOMAIN FreeCounts = DOMAIN blocks
  BY DEF FreeCounts
<1>6. FreeCounts' = [n \in DOMAIN g |-> g[n].frees]
  BY <1>1 DEF FreeCounts
<1>7. \A b \in B : FreeCounts[b] = 0
  BY <1>2, <1>3 DEF FreeCounts
<1>8. FreeCounts' = [x \in DOMAIN FreeCounts |-> IF x \in B THEN 1 ELSE FreeCounts[x]]
  BY <1>4, <1>5, <1>6
<1>9. B \in SUBSET DOMAIN FreeCounts
  BY <1>3, <1>5
<1>10. \E C \in SUBSET DOMAIN FreeCounts :
         /\ \A b \in C : FreeCounts[b] = 0
         /\ FreeCounts' = [x \in DOMAIN FreeCounts |-> IF x \in C THEN 1 ELSE FreeCounts[x]]
  BY <1>7, <1>8, <1>9
<1>11. strays' = strays
  BY FreedBlocks DEF EInv, MachineTyped
<1> QED
  BY <1>10, <1>11 DEF StringHeap!Free, FreeCounts

(* The string functions of string_lib.ll are used as malloc and free demand:    *)
(* whatever a return frees is a block of the heap, and was not freed before.   *)
THEOREM HeapAlwaysUsedLegally ==
  ASSUME NoTmpSymbol
  PROVE  ExecutionSpec => HeapUsedLegally
<1>1. ExecutionInit => StringHeap!Init
  BY EmptySeq DEF ExecutionInit, StringHeap!Init
<1>2. ASSUME Generated, EInv, [ExecutionNext]_all
      PROVE  [StringHeap!Next]_<<FreeCounts, strays>>
  <2>1. CASE ExecuteAllocation
    BY <1>2, <2>1, AllocationAllocates DEF StringHeap!Next
  <2>2. CASE ExecuteFree
    <3>1. PICK B \in SUBSET DOMAIN FreeCounts : StringHeap!Free(B)
      BY <1>2, <2>2, FreeFrees
    <3> QED
      BY <3>1 DEF StringHeap!Next, FreeCounts
  <2>3. CASE blocks' = blocks /\ strays' = strays
    BY <2>3 DEF FreeCounts
  <2>4. ExecuteAllocation \/ ExecuteFree \/ (blocks' = blocks /\ strays' = strays)
    <3>1. CASE ExecuteLine
      BY <3>1 DEF ExecuteLine, ExecuteAlloca, ExecuteStore, ExecuteLoad, ExecuteValue,
         ExecuteLabel, JumpTo, ExecuteCall, Enter, ExecuteForeignCall, ReturnToCaller,
         ReturnOutside, Leave
    <3>2. CASE Trap \/ Call \/ \E A \in SUBSET GlobalAddresses : EnvironmentStores(A)
      BY <3>2 DEF Trap, Call, Enter, EnvironmentStores
    <3>3. CASE UNCHANGED machine
      BY <3>3 DEF machine
    <3> QED
      BY <1>2, <3>1, <3>2, <3>3, MachineSteps
  <2> QED
    BY <2>1, <2>2, <2>3, <2>4
<1> QED
  BY <1>1, <1>2, MachineRuns, PTL DEF ExecutionSpec, HeapUsedLegally, StringHeap!Spec, FreeCounts
=============================================================================
