-------------------------------- MODULE Parser --------------------------------
(***************************************************************************)
(* The parser of the compiler (src/parser.yy), its symbol tables            *)
(* (src/symbol_table.cpp, src/symbol.hpp) and what main does with it.        *)
(*                                                                          *)
(* The input is any token sequence the grammar accepts, up to the bounds, or *)
(* a prefix of one followed by an error.  It is chosen while it is parsed:    *)
(* expected holds what remains of the sentence, as grammar symbols not yet   *)
(* expanded and rules not yet reduced; a rule reduces, and its semantic       *)
(* action runs, when it comes first.  The actions so run in the order bison   *)
(* runs them for that input.  values is bison's value stack, without the      *)
(* entries no action tells apart.                                            *)
(*                                                                          *)
(* The AST is abstracted to types for expressions and to outcomes for         *)
(* instructions: what the code generator will do with one ("ok", or the way   *)
(* it fails), or "null" when the rule leaves the pointer null.                *)
(***************************************************************************)
EXTENDS Integers, Sequences, FiniteSets

CONSTANTS
  Names,        (* identifiers                                               *)
  Rules,        (* bound: the alternatives of the grammar that occur         *)
  MaxSize,      (* bound: once so many were expanded, only the shortest follow*)
  MaxSymbols,   (* bound: Symbol objects                                     *)
  MaxArgs       (* bound: arguments of a call                                *)

Type == {"int", "string"}
Outcome == {"ok", "null", "segv", "throw"}

ASSUME NamesAssumption == Names \subseteq STRING /\ Rules \subseteq STRING
ASSUME BoundsAssumption ==
  MaxSize \in Nat /\ MaxSymbols \in Nat /\ MaxArgs \in Nat

VARIABLES
  expected,                  (* the rest of the sentence, next symbol first  *)
  size,                      (* expansions made, for the bound               *)
  values,                    (* semantic values: types and outcomes          *)
  declarators, parameters,   (* values of declarator_list, parameter_list    *)
  definition,                (* $2 of function_definition                    *)
  unclaimed_types_, last_function_, new_function_definition_,
  heap,                      (* the Symbol and Function objects made so far  *)
  symbol_table,              (* the chain of open tables, innermost last     *)
  calls,                     (* calls in the function being parsed           *)
  emitted,                   (* external lines written by the code generator *)
  headings,                  (* comment lines written before definitions,    *)
                             (* and behind how many lines of emitted         *)
  result,                    (* of Parser::parse                             *)
  exit                       (* of the compiler process                      *)

globals == <<unclaimed_types_, last_function_, new_function_definition_>>
lists == <<declarators, parameters, definition>>
scopes == <<heap, symbol_table>>
outcome == <<result, exit>>
vars == <<expected, size, values, lists, globals, scopes, calls, emitted,
          headings, outcome>>

-----------------------------------------------------------------------------
(* Symbols of the grammar and rules to reduce.                               *)

Item(k) == [k |-> k, name |-> "", n |-> 0]
Named(k, x, n) == [k |-> k, name |-> x, n |-> n]

Running == exit = "running"
At(k) == Running /\ expected # <<>> /\ Head(expected).k = k
Top == Head(expected)
Become(items) == expected' = items \o Tail(expected)

(* The rest of the sentence is shorter, or the bound allows it to grow.       *)
Has(rule) == rule \in Rules
Grow(rule) == Has(rule) /\ size < MaxSize /\ size' = size + 1

Last(s) == s[Len(s)]
Front(s) == SubSeq(s, 1, Len(s) - 1)
Pop(s, n) == SubSeq(s, 1, Len(s) - n)
FromTop(n) == values[Len(values) - n]

(* A syntax_error, thrown by an action or found by the parser: no rule has an *)
(* error token, so parse returns 1; error() prints nothing; main returns 0.   *)
Refuse ==
  /\ result' = "rejected" /\ exit' = "zero"
  /\ UNCHANGED <<expected, size, values, lists, globals, scopes, calls, emitted>>

Reject == Refuse /\ UNCHANGED headings

-----------------------------------------------------------------------------
(* Symbol tables.                                                            *)

NewSymbol(x, t) ==
  [name |-> x, type |-> t, function |-> FALSE, args |-> <<>>, attributes |-> {}]
NewFunction(x, t, params) ==
  [NewSymbol(x, t) EXCEPT !.function = TRUE, !.args = params]

EmptyTable == [x \in {} |-> 0]
Elements(s) == {s[i] : i \in DOMAIN s}

(* add: emplace keeps what is there.                                         *)
Added(table, syms) ==
  [x \in DOMAIN table \union {heap[i].name : i \in Elements(syms)} |->
     IF x \in DOMAIN table THEN table[x]
     ELSE syms[CHOOSE k \in DOMAIN syms :
                 /\ heap[syms[k]].name = x
                 /\ \A j \in 1..k - 1 : heap[syms[j]].name # x]]

is_in_this_scope(x) == x \in DOMAIN Last(symbol_table)
is_visible(x) == \E i \in DOMAIN symbol_table : x \in DOMAIN symbol_table[i]

(* The table of the chain 1..n in which the search from n outwards ends.      *)
(* Mutant: the search begins at the outermost table.                         *)
OutermostWith(x, n) ==
  CHOOSE k \in 1..n : /\ x \in DOMAIN symbol_table[k]
                      /\ \A j \in 1..k - 1 : x \notin DOMAIN symbol_table[j]
InnermostWith(x, n) ==
  CHOOSE k \in 1..n : /\ x \in DOMAIN symbol_table[k]
                      /\ \A j \in k + 1..n : x \notin DOMAIN symbol_table[j]

lookup_from(n, x) == symbol_table[InnermostWith(x, n)][x]
lookup(x) == lookup_from(Len(symbol_table), x)

ArgTypes(f) == [i \in DOMAIN heap[f].args |-> heap[heap[f].args[i]].type]
Signature(f) == [type |-> heap[f].type, args |-> ArgTypes(f)]

-----------------------------------------------------------------------------
Init ==
  /\ expected = <<Item("program")>>
  /\ size = 0
  /\ values = <<>>
  /\ declarators = <<>> /\ parameters = <<>> /\ definition = 0
  /\ unclaimed_types_ = <<>> /\ last_function_ = 0
  /\ new_function_definition_ = FALSE
  /\ heap = <<>> /\ symbol_table = <<EmptyTable>>
  /\ calls = {}
  /\ emitted = <<>> /\ headings = <<>>
  /\ result = "pending" /\ exit = "running"

-----------------------------------------------------------------------------
(* External declarations.                                                    *)

Declaration(where) ==
  <<Item("type"), Item("declarator"), Item("declarator_list"),
    Named("declaration", where, 0)>>

ExpandDeclaration(extern) ==
  /\ At("program") /\ Grow("declaration")
  /\ expected' = Declaration("global")
                 \o <<Named("external_declaration", "", extern)>> \o expected
  /\ UNCHANGED <<values, lists, globals, scopes, calls, emitted, headings,
                 outcome>>

ExpandFunctionDefinition(x) ==
  /\ At("program") /\ Grow("function_definition")
  /\ expected' = <<Item("type"), Item("parameter_list"),
                   Named("function_declarator", x, 0), Item("decl_glb_fct"),
                   Item("compound"), Item("function_definition")>> \o expected
  /\ UNCHANGED <<values, lists, globals, scopes, calls, emitted, headings,
                 outcome>>

(* parse returns 0; a program has at least one external declaration.          *)
EndOfInput ==
  /\ At("program") /\ size > 0
  /\ result' = "accepted" /\ exit' = "zero"
  /\ UNCHANGED <<expected, size, values, lists, globals, scopes, calls,
                 emitted, headings>>

SyntaxError == Running /\ Reject

TypeSpecifier(t) ==
  /\ At("type")
  /\ Become(<<>>)
  /\ unclaimed_types_' = Append(unclaimed_types_, t)
  /\ values' = Append(values, t)
  /\ UNCHANGED <<size, lists, last_function_, new_function_definition_, scopes,
                 calls, emitted, headings, outcome>>

-----------------------------------------------------------------------------
(* Declarators.                                                              *)

Room == Len(heap) < MaxSymbols

Declarator(x) ==
  /\ At("declarator") /\ Room
  /\ Become(<<>>)
  /\ heap' = Append(heap, NewSymbol(x, "none"))
  /\ declarators' = Append(declarators, Len(heap'))
  /\ UNCHANGED <<size, values, parameters, definition, globals, symbol_table,
                 calls, emitted, headings, outcome>>

ExpandFunctionDeclarator(x) ==
  /\ At("declarator") /\ Has("function_declarator")
  /\ Become(<<Item("parameter_list"), Named("function_declarator", x, 1)>>)
  /\ UNCHANGED <<size, values, lists, globals, scopes, calls, emitted,
                 headings, outcome>>

DeclaratorList(more) ==
  /\ At("declarator_list")
  /\ IF more THEN Grow("declarator_list") ELSE UNCHANGED size
  /\ Become(IF more THEN <<Item("declarator"), Item("declarator_list")>>
                    ELSE <<>>)
  /\ UNCHANGED <<values, lists, globals, scopes, calls, emitted, headings,
                 outcome>>

ParameterList(more) ==
  /\ At("parameter_list")
  /\ IF more THEN Grow("parameter_list") ELSE UNCHANGED size
  /\ Become(IF more THEN <<Item("type"), Item("parameter_declaration"),
                           Item("parameter_list")>>
                    ELSE <<>>)
  /\ UNCHANGED <<values, lists, globals, scopes, calls, emitted, headings,
                 outcome>>

(* Mutant: the parameter's type stays on the stack of unclaimed ones.         *)
ParameterDeclarationUnclaimed(x) ==
  /\ At("parameter_declaration") /\ Room
  /\ Become(<<>>)
  /\ heap' = Append(heap, NewSymbol(x, Last(values)))
  /\ parameters' = Append(parameters, Len(heap'))
  /\ values' = Front(values)
  /\ UNCHANGED <<size, declarators, definition, globals, symbol_table, calls,
                 emitted, headings, outcome>>

ParameterDeclaration(x) ==
  /\ At("parameter_declaration") /\ Room
  /\ Become(<<>>)
  /\ heap' = Append(heap, NewSymbol(x, Last(values)))
  /\ parameters' = Append(parameters, Len(heap'))
  /\ unclaimed_types_' = Front(unclaimed_types_)
  /\ values' = Front(values)
  /\ UNCHANGED <<size, declarators, definition, last_function_,
                 new_function_definition_, symbol_table, calls, emitted,
                 headings, outcome>>

(* The return type is the type on top of the stack of unclaimed ones.         *)
(* Mutant: left to the declaration, as a variable's type is.                  *)
ReturnTypeLater == "none"
ReturnType == Last(unclaimed_types_)

FunctionDeclarator ==
  /\ At("function_declarator") /\ Room
  /\ Become(<<>>)
  /\ heap' = Append([i \in DOMAIN heap |->
                       IF i \in Elements(parameters)
                       THEN [heap[i] EXCEPT !.attributes = @ \union {"FUNCTION_PARAM"}]
                       ELSE heap[i]],
                    NewFunction(Top.name, ReturnType, parameters))
  /\ last_function_' = Len(heap')
  /\ parameters' = <<>>
  /\ IF Top.n = 1 THEN /\ declarators' = Append(declarators, Len(heap'))
                       /\ UNCHANGED definition
                  ELSE /\ definition' = Len(heap')
                       /\ UNCHANGED declarators
  /\ UNCHANGED <<size, values, unclaimed_types_, new_function_definition_,
                 symbol_table, calls, emitted, headings, outcome>>

-----------------------------------------------------------------------------
(* declaration: every symbol takes the type and joins the innermost table; a  *)
(* name that is there already is an error (the symbols before it stay added,  *)
(* to a table nobody reads again).                                           *)

Duplicate(syms) ==
  \E i \in DOMAIN syms :
    LET x == heap[syms[i]].name
    IN  is_in_this_scope(x) \/ \E j \in 1..i - 1 : heap[syms[j]].name = x

ReduceDeclaration ==
  /\ At("declaration") /\ ~Duplicate(declarators)
  /\ Become(<<>>)
  /\ unclaimed_types_' = Front(unclaimed_types_)
  /\ values' = Front(values)
  /\ heap' = [i \in DOMAIN heap |->
                IF i \in Elements(declarators)
                THEN [heap[i] EXCEPT !.type = Last(values)] ELSE heap[i]]
  /\ symbol_table' = [symbol_table EXCEPT ![Len(symbol_table)] =
                        Added(@, declarators)]
  /\ declarators' = IF Top.name = "global" THEN declarators ELSE <<>>
  /\ UNCHANGED <<size, parameters, definition, last_function_,
                 new_function_definition_, calls, emitted, headings, outcome>>

RejectDeclaration ==
  At("declaration") /\ Duplicate(declarators) /\ Reject

(* Function declarations are written first, then the variables, extern or not.*)
Line(op, f, callees) ==
  [op |-> op, name |-> heap[f].name, signature |-> Signature(f),
   calls |-> callees]

(* Mutant: function declarations are not written.                            *)
DeclarationLinesOfVariables ==
  LET variables == SelectSeq(declarators, LAMBDA i : ~heap[i].function)
  IN  [i \in DOMAIN variables |-> Line("global", variables[i], {})]

(* The place of the k-th declarator's line.                                   *)
Place(k) ==
  LET is(i) == heap[declarators[i]].function
      before(j) == (is(j) /\ ~is(k)) \/ (is(j) = is(k) /\ j <= k)
  IN  Cardinality({j \in DOMAIN declarators : before(j)})

DeclarationLines ==
  [n \in DOMAIN declarators |->
     LET k == CHOOSE k \in DOMAIN declarators : Place(k) = n
     IN  Line(IF heap[declarators[k]].function THEN "declare" ELSE "global",
              declarators[k], {})]

(* Mutant: an extern symbol is not global.                                   *)
AttributesOfEither(extern) == IF extern = 1 THEN {"EXTERN"} ELSE {"GLOBAL"}
AttributesOf(extern) ==
  {"GLOBAL"} \union (IF extern = 1 THEN {"EXTERN"} ELSE {})

ReduceExternalDeclaration ==
  /\ At("external_declaration")
  /\ Become(<<>>)
  /\ heap' = [i \in DOMAIN heap |->
                IF i \in Elements(declarators)
                THEN [heap[i] EXCEPT !.attributes = @ \union AttributesOf(Top.n)]
                ELSE heap[i]]
  /\ emitted' = emitted \o DeclarationLines
  /\ declarators' = <<>>
  /\ UNCHANGED <<size, values, parameters, definition, globals, symbol_table,
                 calls, headings, outcome>>

-----------------------------------------------------------------------------
(* Function definitions.                                                     *)

(* A definition agrees with what its name means: nothing yet, or a function   *)
(* of the same type with parameters of the same types.  Mutant: parameters    *)
(* are not compared.                                                         *)
AgreesByType(f, g) == heap[g].function /\ heap[f].type = heap[g].type

Agrees(f, g) ==
  /\ heap[g].function
  /\ heap[f].type = heap[g].type
  /\ ArgTypes(f) = ArgTypes(g)

(* The first thing decl_glb_fct does: a comment line, in the output before the *)
(* comparison that may end it.                                               *)
WriteHeading ==
  headings' = Append(headings, [name |-> heap[last_function_].name,
                                at |-> Len(emitted)])

(* The function's own table holds the parameters; the flag tells block_start  *)
(* that it is there.                                                         *)
ReduceDeclGlbFct ==
  /\ At("decl_glb_fct")
  /\ LET f == last_function_
         x == heap[f].name
         outer == IF is_visible(x) THEN symbol_table
                  ELSE [symbol_table EXCEPT ![Len(symbol_table)] = Added(@, <<f>>)]
     IN  /\ is_visible(x) => Agrees(f, lookup(x))
         /\ symbol_table' = Append(outer, Added(EmptyTable, heap[f].args))
  /\ new_function_definition_' = TRUE
  /\ Become(<<>>)
  /\ WriteHeading
  /\ UNCHANGED <<size, values, lists, unclaimed_types_, last_function_, heap,
                 calls, emitted, outcome>>

RejectDeclGlbFct ==
  /\ At("decl_glb_fct")
  /\ LET x == heap[last_function_].name
     IN  is_visible(x) /\ ~Agrees(last_function_, lookup(x))
  /\ WriteHeading /\ Refuse

(* The function of a definition is $2 of its rule, not the last one declared:  *)
(* that may by now be one of its body.  Mutant: it is the last one.           *)
DefinitionLineOfLast == Line("define", last_function_, calls)
DefinitionLine == Line("define", definition, calls)

(* The definition's type is claimed and compared with its function's; then    *)
(* the code generator walks the body.                                        *)
ReduceFunctionDefinition ==
  /\ At("function_definition")
  /\ unclaimed_types_' = Front(unclaimed_types_)
  /\ values' = Pop(values, 2)
  /\ IF heap[definition].type # FromTop(1)
     THEN /\ exit' = "internal_error"
          /\ UNCHANGED <<expected, definition, calls, emitted>>
     ELSE IF Last(values) # "ok"
     THEN /\ exit' = IF Last(values) = "throw" THEN "terminated" ELSE "crashed"
          /\ UNCHANGED <<expected, definition, calls, emitted>>
     ELSE /\ Become(<<>>)
          /\ emitted' = Append(emitted, DefinitionLine)
          /\ calls' = {}
          /\ definition' = 0
          /\ UNCHANGED exit
  /\ UNCHANGED <<size, declarators, parameters, last_function_,
                 new_function_definition_, scopes, headings, result>>

-----------------------------------------------------------------------------
(* Blocks.                                                                   *)

(* Mutant: the flag stays raised, so the next block believes it has a table.  *)
BlockStartFlagRaised ==
  /\ At("compound")
  /\ Become(<<Item("declaration_list"), Item("instruction_list"),
              Item("block_end")>>)
  /\ values' = Append(values, "null")
  /\ symbol_table' = IF new_function_definition_ THEN symbol_table
                     ELSE Append(symbol_table, EmptyTable)
  /\ UNCHANGED <<size, lists, globals, heap, calls, emitted, headings,
                 outcome>>

BlockStart ==
  /\ At("compound")
  /\ Become(<<Item("declaration_list"), Item("instruction_list"),
              Item("block_end")>>)
  /\ values' = Append(values, "null")
  /\ symbol_table' = IF new_function_definition_ THEN symbol_table
                     ELSE Append(symbol_table, EmptyTable)
  /\ new_function_definition_' = FALSE
  /\ UNCHANGED <<size, lists, unclaimed_types_, last_function_, heap, calls,
                 emitted, headings, outcome>>

DeclarationList(more) ==
  /\ At("declaration_list")
  /\ IF more THEN Grow("local_declaration") ELSE UNCHANGED size
  /\ Become(IF more THEN Append(Declaration("local"), Item("declaration_list"))
                    ELSE <<>>)
  /\ UNCHANGED <<values, lists, globals, scopes, calls, emitted, headings,
                 outcome>>

InstructionList(more) ==
  /\ At("instruction_list")
  /\ IF more THEN Grow("instruction") ELSE UNCHANGED size
  /\ Become(IF more THEN <<Item("instruction"), Item("append"),
                           Item("instruction_list")>>
                    ELSE <<>>)
  /\ UNCHANGED <<values, lists, globals, scopes, calls, emitted, headings,
                 outcome>>

(* What running a then b comes to: the first failure counts.  A null pointer  *)
(* is dereferenced.                                                          *)
Emitting(a) == IF a = "null" THEN "segv" ELSE a
Then(a, b) == IF a = "ok" THEN Emitting(b) ELSE a

AppendInstruction ==
  /\ At("append")
  /\ Become(<<>>)
  /\ values' = Append(Pop(values, 2),
                      IF FromTop(1) = "null" THEN Emitting(FromTop(0))
                                             ELSE Then(FromTop(1), FromTop(0)))
  /\ UNCHANGED <<size, lists, globals, scopes, calls, emitted, headings,
                 outcome>>

(* The value of the block is that of its instruction list: null without one.  *)
BlockEnd ==
  /\ At("block_end")
  /\ Become(<<>>)
  /\ symbol_table' = Front(symbol_table)
  /\ UNCHANGED <<size, values, lists, globals, heap, calls, emitted, headings,
                 outcome>>

-----------------------------------------------------------------------------
(* Instructions.                                                             *)

Expand(k, items) ==
  /\ At(k) /\ Become(items)
  /\ UNCHANGED <<values, lists, globals, scopes, calls, emitted, headings,
                 outcome>>

EmptyInstruction ==
  /\ At("instruction") /\ Has("empty")
  /\ Become(<<>>)
  /\ values' = Append(values, "null")
  /\ UNCHANGED <<size, lists, globals, scopes, calls, emitted, headings,
                 outcome>>

Assignment(x) == <<Item("expression"), Named("assignment", x, 0)>>

ExpandInstruction ==
  \/ /\ Grow("compound") /\ Expand("instruction", <<Item("compound")>>)
  \/ /\ UNCHANGED size
     /\ Expand("instruction", <<Item("expression"), Item("expression_instruction")>>)
  \/ \E x \in Names :
       /\ Has("assignment") /\ UNCHANGED size
       /\ Expand("instruction", Assignment(x) \o <<Item("expression_instruction")>>)
  \/ \E k \in {"if", "while"} :
       /\ Grow(k)
       /\ Expand("instruction", <<Item("condition"), Item("instruction"), Item(k)>>)
  \/ /\ Grow("if_else")
     /\ Expand("instruction", <<Item("condition"), Item("instruction"),
                                Item("instruction"), Item("if_else")>>)
  \/ /\ Grow("do")
     /\ Expand("instruction", <<Item("instruction"), Item("condition"), Item("do")>>)
  \/ \E x, y \in Names :
       /\ Grow("for")
       /\ Expand("instruction", Assignment(x) \o <<Item("condition")>>
                   \o Assignment(y) \o <<Item("instruction"), Item("for")>>)

(* Reduce a rule whose action only makes a node of the last n values.         *)
Make(k, n, value) ==
  /\ At(k)
  /\ Become(<<>>)
  /\ values' = Append(Pop(values, n), value)
  /\ UNCHANGED <<size, lists, globals, scopes, calls, emitted, headings,
                 outcome>>

(* The outcomes follow the order in which the code generator visits the parts;*)
(* it checks the else branch, and nothing else, for null.                     *)
ReduceInstruction ==
  \/ Make("expression_instruction", 1, "ok")
  \/ Make("if", 2, Then(FromTop(1), FromTop(0)))
  \/ Make("if_else", 3, LET yes == Then(FromTop(2), FromTop(1))
                        IN  IF FromTop(0) = "null" THEN yes ELSE Then(yes, FromTop(0)))
  \/ Make("while", 2, Then(FromTop(1), FromTop(0)))
  \/ Make("do", 2, Then(Emitting(FromTop(1)), FromTop(0)))
  \/ Make("for", 4, Then(FromTop(2), FromTop(0)))

(* The operands of a comparison are not compared with each other; ordering    *)
(* strings makes the code generator throw.                                   *)
ExpandCondition(ordering) ==
  /\ UNCHANGED size
  /\ Expand("condition", <<Item("expression"), Item("expression"),
                           Named("comparison", "", ordering)>>)

ReduceCondition ==
  Make("comparison", 2,
       IF Top.n = 1 /\ FromTop(1) = "string" THEN "throw" ELSE "ok")

ReduceAssignment ==
  /\ At("assignment")
  /\ is_visible(Top.name) /\ heap[lookup(Top.name)].type = Last(values)
  /\ Become(<<>>)
  /\ UNCHANGED <<size, values, lists, globals, scopes, calls, emitted,
                 headings, outcome>>

RejectAssignment ==
  /\ At("assignment")
  /\ is_visible(Top.name) => heap[lookup(Top.name)].type # Last(values)
  /\ Reject

-----------------------------------------------------------------------------
(* Expressions.                                                              *)

Push(t) ==
  /\ Become(<<>>)
  /\ values' = Append(values, t)
  /\ UNCHANGED <<size, lists, globals, scopes, emitted, headings, outcome>>

Constant(t) == At("expression") /\ Push(t) /\ UNCHANGED calls

(* An identifier may be any visible symbol, a function too.                   *)
Identifier(x) ==
  /\ At("expression") /\ is_visible(x)
  /\ Push(heap[lookup(x)].type)
  /\ UNCHANGED calls

RejectIdentifier(x) == At("expression") /\ ~is_visible(x) /\ Reject

ExpandExpression ==
  \/ /\ Grow("unary") /\ Expand("expression", <<Item("expression"), Item("unary")>>)
  \/ \E op \in {"plus", "other"} :
       /\ Grow("binary")
       /\ Expand("expression", <<Item("expression"), Item("expression"), Item(op)>>)
  \/ \E x \in Names, n \in 0..MaxArgs :
       /\ Grow("call")
       /\ Expand("expression", [i \in 1..n |-> Item("expression")]
                               \o <<Named("call", x, n)>>)

(* '+' joins two ints or two strings; every other operator wants ints.        *)
WellTyped ==
  \/ At("unary") /\ Last(values) = "int"
  \/ At("plus")  /\ FromTop(0) = FromTop(1)
  \/ At("other") /\ FromTop(0) = "int" /\ FromTop(1) = "int"

ReduceOperator ==
  /\ WellTyped
  /\ Make(Top.k, IF Top.k = "unary" THEN 1 ELSE 2, Last(values))

RejectOperator ==
  (At("unary") \/ At("plus") \/ At("other")) /\ ~WellTyped /\ Reject

Arguments(n) == SubSeq(values, Len(values) - n + 1, Len(values))

(* The callee is a visible function with parameters of the arguments' types.  *)
(* Mutant: only their number is compared.                                    *)
CallableByCount(x, n) ==
  /\ is_visible(x)
  /\ heap[lookup(x)].function
  /\ Len(ArgTypes(lookup(x))) = n

Callable(x, n) ==
  /\ is_visible(x)
  /\ heap[lookup(x)].function
  /\ ArgTypes(lookup(x)) = Arguments(n)

(* The call the code generator will write: the function's type, and the types *)
(* of the argument expressions.                                              *)
CallLine(x, n) ==
  [name |-> x,
   signature |-> [type |-> heap[lookup(x)].type, args |-> Arguments(n)]]

ReduceCall ==
  /\ At("call") /\ Callable(Top.name, Top.n)
  /\ Become(<<>>)
  /\ values' = Append(Pop(values, Top.n), heap[lookup(Top.name)].type)
  /\ calls' = calls \union {CallLine(Top.name, Top.n)}
  /\ UNCHANGED <<size, lists, globals, scopes, emitted, headings, outcome>>

RejectCall == At("call") /\ ~Callable(Top.name, Top.n) /\ Reject

Stopped == ~Running /\ UNCHANGED vars

-----------------------------------------------------------------------------
DeclarationStep ==
  \/ \E extern \in 0..1 : ExpandDeclaration(extern)
  \/ \E x \in Names : ExpandFunctionDefinition(x)
  \/ \E t \in Type : TypeSpecifier(t)
  \/ \E x \in Names : Declarator(x) \/ ExpandFunctionDeclarator(x)
  \/ \E more \in BOOLEAN : DeclaratorList(more) \/ ParameterList(more)
  \/ \E x \in Names : ParameterDeclaration(x)
  \/ FunctionDeclarator
  \/ ReduceDeclaration \/ RejectDeclaration \/ ReduceExternalDeclaration
  \/ ReduceDeclGlbFct \/ RejectDeclGlbFct \/ ReduceFunctionDefinition

InstructionStep ==
  \/ BlockStart \/ BlockEnd \/ AppendInstruction
  \/ \E more \in BOOLEAN : DeclarationList(more) \/ InstructionList(more)
  \/ EmptyInstruction \/ ExpandInstruction \/ ReduceInstruction
  \/ \E ordering \in 0..1 : ExpandCondition(ordering)
  \/ ReduceCondition \/ ReduceAssignment \/ RejectAssignment

ExpressionStep ==
  \/ \E t \in Type : Constant(t)
  \/ \E x \in Names : Identifier(x) \/ RejectIdentifier(x)
  \/ ExpandExpression \/ ReduceOperator \/ RejectOperator
  \/ ReduceCall \/ RejectCall

Next == DeclarationStep \/ InstructionStep \/ ExpressionStep
        \/ EndOfInput \/ SyntaxError \/ Stopped

Spec == Init /\ [][Next]_vars

-----------------------------------------------------------------------------
(* Properties.                                                               *)

Pending(kinds) == Cardinality({i \in DOMAIN expected : expected[i].k \in kinds})

TypeOK ==
  /\ \A i \in DOMAIN expected : DOMAIN expected[i] = {"k", "name", "n"}
  /\ size \in 0..MaxSize
  /\ values \in Seq(Type \union Outcome)
  /\ unclaimed_types_ \in Seq(Type)
  /\ heap \in Seq([name : Names, type : Type \union {"none"}, function : BOOLEAN,
                   args : Seq(1..Len(heap)),
                   attributes : SUBSET {"GLOBAL", "EXTERN", "FUNCTION_PARAM"}])
  /\ {last_function_, definition} \subseteq 0..Len(heap)
  /\ Elements(declarators) \union Elements(parameters) \subseteq DOMAIN heap
  /\ new_function_definition_ \in BOOLEAN
  /\ symbol_table # <<>>
  /\ \A i \in DOMAIN symbol_table :
       /\ DOMAIN symbol_table[i] \subseteq Names
       /\ Elements(symbol_table[i]) \subseteq DOMAIN heap
  /\ result \in {"pending", "accepted", "rejected"}
  /\ exit \in {"running", "zero", "crashed", "terminated", "internal_error"}

(* The global stack of unclaimed types holds one type for each declaration,   *)
(* parameter and function definition that is open, whatever they contain.     *)
TypesClaimed ==
  Running => Len(unclaimed_types_)
               = Pending({"declaration", "parameter_declaration",
                          "function_definition"}) - Pending({"type"})

(* function_definition always finds the type it pushed in its function: the   *)
(* parser's "INTERNAL ERROR" (parser.yy:205) is unreachable.                  *)
NoInternalError == exit # "internal_error"

(* One table is open for the program, one for each block and one for a        *)
(* function whose block has not begun: the flag new_function_definition_      *)
(* never makes a block share, or lose, a table.                              *)
ScopesMatchBlocks ==
  Running => Len(symbol_table)
               = 1 + Pending({"block_end"})
                   + (IF new_function_definition_ THEN 1 ELSE 0)

(* No name in a table means a symbol whose type was never assigned, nor a     *)
(* function with such a parameter: Symbol's constructor leaves type_ unset.   *)
SymbolsTyped ==
  \A i \in DOMAIN symbol_table : \A s \in Elements(symbol_table[i]) :
    heap[s].type \in Type /\ Elements(ArgTypes(s)) \subseteq Type

(* Attribute GLOBAL, from which the code generator takes "@" or "%", is set   *)
(* on the variables of the outermost table and on no other.                   *)
GlobalsAddressed ==
  \A i \in DOMAIN symbol_table : \A s \in Elements(symbol_table[i]) :
    (~heap[s].function /\ Pending({"external_declaration"}) = 0) =>
      (i = 1 <=> "GLOBAL" \in heap[s].attributes)

(* All the lines written for a name agree: a variable has one line, a         *)
(* function has one signature.                                               *)
LinesAgree ==
  \A i, j \in DOMAIN emitted :
    (i # j /\ emitted[i].name = emitted[j].name) =>
      /\ "global" \notin {emitted[i].op, emitted[j].op}
      /\ emitted[i].signature = emitted[j].signature

(* Between external declarations the outermost table and the output say the   *)
(* same: a line with its signature for every name, and no line for another.   *)
TableMatchesOutput ==
  At("program") =>
    /\ \A x \in DOMAIN symbol_table[1] : \E i \in DOMAIN emitted :
         /\ emitted[i].name = x
         /\ emitted[i].signature = Signature(symbol_table[1][x])
    /\ \A i \in DOMAIN emitted : emitted[i].name \in DOMAIN symbol_table[1]

(* A call is written with the signature of a line written for its callee, if  *)
(* functions are declared at the outermost level only: a declaration inside a *)
(* block writes no line, and a call of it has no callee in the output.        *)
CallsMatchLines ==
  \A i \in DOMAIN emitted : \A c \in emitted[i].calls :
    \E j \in DOMAIN emitted :
      emitted[j].name = c.name /\ emitted[j].signature = c.signature

(* Every definition stands directly behind its own heading, though that is     *)
(* written before the body is parsed, from a variable that the declarations    *)
(* of the body overwrite, and the definition after it.  And every heading has  *)
(* its definition, but the last one of a program that is not accepted: a       *)
(* definition that disagrees, or in whose body parsing or generating ends,     *)
(* leaves a heading and nothing more.                                        *)
Heads(h, i) ==
  /\ i = h.at + 1 /\ i \in DOMAIN emitted
  /\ emitted[i].op = "define" /\ emitted[i].name = h.name

HeadingsMeetDefinitions ==
  /\ \A i \in DOMAIN emitted :
       emitted[i].op = "define" => \E k \in DOMAIN headings : Heads(headings[k], i)
  /\ \A k \in DOMAIN headings :
       (k < Len(headings) \/ result = "accepted") =>
          \E i \in DOMAIN emitted : Heads(headings[k], i)

(* The chain of tables implements lexical scoping: looking a name up from the *)
(* n-th table outwards finds what the n-th open block's environment says.     *)
Scoping ==
  INSTANCE LexicalScope WITH
    Unbound <- 0,
    env <- [n \in DOMAIN symbol_table |->
              [x \in Names |->
                 IF \E k \in 1..n : x \in DOMAIN symbol_table[k]
                 THEN lookup_from(n, x) ELSE 0]],
    own <- [n \in DOMAIN symbol_table |-> DOMAIN symbol_table[n]]

TablesScopeLexically == Scoping!Spec

-----------------------------------------------------------------------------
(* What a comment says and the code does not do, refuted by a run of its own. *)

(* "A function can be declared before it is defined." (parser.yy:219): the     *)
(* output then still has one line for it (LLVM rejects a second one as an      *)
(* invalid redefinition).                                                    *)
DeclaredBeforeDefined ==
  \A i, j \in DOMAIN emitted :
    (emitted[i].op = "declare" /\ emitted[j].op = "define") =>
      emitted[i].name # emitted[j].name
=============================================================================
