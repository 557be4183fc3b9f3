# Verification of the CSTR compiler

CSTR is a small C with strings. `bin/preprocessor < foo.c | bin/compiler > foo.ll`
expands macros and translates one file to LLVM assembly, which is linked with a
library of string functions. These modules model the whole path: preprocessor,
scanner, parser with its symbol tables, code generator, and the execution of what
the generator wrote. TLC checks them on small instances and TLAPS proves part of
what TLC checks for every instance.

## Inventory

| component | source | state | operations | models |
|---|---|---|---|---|
| preprocessor | `preprocessor.lex`, `macro.*` | macros, start condition, text put back | rules of the lexer, `Macro_Function::resolve` | `Preprocessor` |
| scanner | `scanner.lex`, `scanner.hpp` | position, line, location | `lex`, one rule per kind of token | `Scanner` |
| parser | `parser.yy` | bison's stacks, three globals (`unclaimed_types_`, `last_function_`, `new_function_definition_`) | one semantic action per rule | `Parser` |
| symbol tables | `symbol_table.*`, `symbol.hpp` | chain of tables, Symbol and Function objects | `add`, `lookup`, `is_visible`, `is_in_this_scope` | operators of `Parser`; `LexicalScope` |
| process | `compiler_main.cpp` | exit status | `main` | `Parser` |
| AST | `ast.hpp` | immutable trees | `emit_code` (double dispatch) | stack entries of `LLVMGenerator` |
| code generator | `llvm.cpp`, `llvm.hpp` | register of each AST node, load counters, label and constant counters, strings to free, two flags | one `visit` per AST class | `LLVMGenerator` |
| string constants | `llvm.cpp` | two lengths, text | the loops of `visit(Const_String)` and `visit(Function_Definition)` | `ConstString` |
| string library | `string_lib.ll` | C heap | equal, copy, concat, free | `Execution`, `Heap` |

How they interact. The preprocessor is a process of its own whose output the compiler
reads. The parser pulls tokens from the scanner and reduces rules. Each external
declaration, once reduced, is handed to the code generator, which writes it to
standard output before the parser goes on; so a later error leaves the earlier output
in place. The two share the Symbol objects: the parser types them and puts them in
tables, the generator reads their names and attributes and renames parameters. The
output, linked with the library, is run later, by somebody else; what the generator
decided then decides who frees which string. Everything is one thread; nothing waits,
retries or restarts.

What is hard is *order and left-over state*: globals pushed by one rule and popped by
another, a flag raised for the next brace, maps whose size names the next register,
sets filled by one function and emptied by another, code written before, between and
after nested visits, text that is read again after it was replaced, and ownership
fixed in the order of writing when it matters in the order of running. `PROJECT.json`
lists these hazards, each at its line with the properties that would catch it.

What makes each component correct:

* preprocessor: expansion ends, replaces what was there, and comments go and nothing else;
* scanner: longest match, right positions;
* parser and tables: a name means its innermost symbol, tables follow blocks, types are
  claimed by those that pushed them, declarations and output agree;
* generator: the lines it writes form valid IR (single assignment, values computed
  before use, labels that exist, terminated blocks, constants and functions declared
  once, lengths that are those of the text);
* what it wrote: loops end when their conditions let them, every block of the heap is
  freed once at most, none is used after it was freed, none is left behind.

## Modules

**`LLVMGenerator`** is class `LLVM_Generator`. Its C++ members keep their names as
variables; `register_reference_` maps node numbers to registers, and a register is
a record of the parts its text is made of (`%name`, `%name.sub`, `%name.id`), so
that two registers are equal exactly when the texts are, whoever made them.
The one exception is the text boundary itself: a name cannot contain a dot in the
language, so the split is unique.
The recursion is an explicit stack, `todo`: an action runs one `visit` up to its
first nested `emit_code` (`Visit...`), or the part that runs when the nested calls
have returned (`...Resumed`). `BranchResumed` and `JumpResumed` are the parts that
`if`, `while`, `do` and `for` have in common: write a branch, then a label.
`out` is the output as abstract instructions with what each defines, uses,
reads or writes in memory, and jumps to.
The AST is the input and is chosen while it is walked: a visit picks the class of
the node among those the parser can put there. `tables` and `declared` keep the
scopes of the parser to the extent that says which symbol an AST may refer to.
`status` becomes "crashed" on a null pointer and "terminated" on the exception.

**`Execution`** EXTENDS `LLVMGenerator` with a machine for `out`: when the generator has
finished, functions are called, one after another, and an action executes one line.
Functions call each other and themselves (`ExecuteCall`): `registers`
are those of the activation that runs, `frames` keeps those of the activations that
wait for it, and each has its own `alloca`s in `memory`; globals and heap are shared. A
call names a function by what it returns and whether it has arguments, and enters any
such function of `out`, or one of another file (`ExecuteForeignCall`), which may store to
globals. A value is a block of the heap, garbage (null, or memory never stored to), or
foreign (an integer, a constant, what other files keep and return).
Conditions have no value: a conditional branch goes either way. `Trap` records why an
activation cannot go on: a register never set, a string function led to a freed block or
to garbage, the end of the body. The environment may store to the globals between
its calls. `ExecuteFree` takes one line for all the `free` lines a return writes, and
counts in `strays` what it was given that is no block.

**`Heap`** is the contract of malloc and free: a block is new when allocated, nothing but a
block is freed, and that once at most. `HeapUsedLegally` says that `Execution`
implements it, through `INSTANCE Heap WITH frees <- ...`: what a block's record says of its frees.

**`Parser`** is the grammar with its semantic actions. `expected` is the rest of
the sentence: grammar symbols still to expand and rules still to reduce; expanding
chooses the input, reducing runs the semantic action, and the actions so run in the
order an LR parser runs them. `values` is the value stack, reduced to types of
expressions and, for instructions, to what generating them will come to ("ok",
"null", "segv", "throw"). `heap` holds the Symbol and Function objects, tables and
lists refer to them by index. `emitted` has one line per global, declared and
defined function, with the calls its body makes. An external declaration writes its functions
first, then its variables: `Place(k)` is where the line of the *k*-th declarator comes. `SyntaxError` may end the input
anywhere: it stands for every token sequence with an error after a good prefix.
`Reject` is also the end of a `syntax_error` thrown by an action. `headings` are the
comment lines that `decl_glb_fct` writes before anything of a function is known to be right:
`RejectDeclGlbFct` writes one and then refuses.

**`LexicalScope`** is what the tables are for, without tables: every open block sees a
complete environment; entering starts from the one around, leaving restores it, and a
block gives a name a meaning of its own once at most. `TablesScopeLexically` says that
`Parser` implements it: `env[n]` is what `lookup` finds from the n-th table outwards,
`own[n]` the names of the n-th table. One step of the parser may be an `Enter` with
declarations on both sides, since `decl_glb_fct` declares the function outside its own
table and its parameters inside.

**`Preprocessor`** has one action per rule and start condition of `preprocessor.lex`; a
text is a sequence of characters and of the signs flex meets as a whole. The rule for a
whole line (`^.*$`) is the longest match at the beginning of a line: it expands the first
macro of the map that the line contains (`ExpandMacro`, `ExpandMacroFunction`, or
`AbortExpansion` where an assertion fails) or REJECTs, and then the other rules match.
`at_bol` is flex's flag; an expansion that was put back is not at the beginning of a
line. `resolving` is the loop of `resolve`, a replacement per step.

**`Scanner`** has one action per rule of `scanner.lex`; `Chosen` is flex's choice, made
from how many characters every rule matches. `begin` and `end` are the location handed to
the parser, `yylineno` flex's own count, which messages use.

**`ConstString`** runs the two loops over the characters of a constant, the one that
measures it for its address and the one that writes it, and reads the text as LLVM does.

**`MC...`** modules give constants their values: `MCLLVMGenerator` names, types and
parameter lists for four symbols (a global, a parameter and two locals, with names all
different or with one shared by the locals), `MCExecution` the same with strings,
`MCPreprocessor`, `MCScanner` and `MCConstString` the texts tried.

**`StackTheorems`** has the lemmas about the stacks that generator and parser are made of.
The theorems below are in **`LLVMGenerator_proofs`**, **`Values_proofs`**,
**`Registers_proofs`** and **`Execution_proofs`**, each of which extends the one before,
**`Parser_proofs`** and **`Scoping_proofs`**, which extends it, and **`ConstString_proofs`**.

The models meet where the code does: `Execution` is generator and run-time composed.
Parser and generator are modelled apart, each with an abstraction of the other (the
parser sees outcomes of generation, the generator sees scopes); so are parser and
scanner (the parser takes any sequence of tokens, a superset of the scanner's).

## Runs

| run | properties | shows |
|---|---|---|
| `strings` | `TypeOK` `ConstStringsDefined` `StringFunctionsDeclared` `FreedOnceAndLast` | state left from one function to the next is what the next needs |
| | `HeapUsedLegally` | what two functions that run after and within each other, with loops, do to the heap is what malloc and free allow (a refinement of `Heap`) |
| | `FreedByMaker` `NothingLeaks` `DanglingIsInherited` `OnlyFreesMissValues` | who owns a string when functions call one another and themselves, see below |
| `control` | `BranchesResolved` `ValuesComputed` `NoFallThrough` | nested statements keep labels and blocks straight |
| | `CallsEnd` | every call of what was written ends, under fairness |
| `expressions` | `OperandsVisited` `RegistersNamedOnce` `ValuesComputed` `MemoryAllocated` | registers named by the size of a growing map, and loads counted per symbol, are fresh; values precede uses; renamed parameters are used under the new name |
| `declarations` | `TypesClaimed` `SymbolsTyped` `LinesAgree` `TableMatchesOutput` `CallsMatchLines` | globals of the parser stay balanced; table and output agree; type checks of calls suffice for the calls written |
| `bodies` | `TypeOK` `NoInternalError` `ScopesMatchBlocks` `GlobalsAddressed` | tables follow blocks in every instruction; the internal error is unreachable |
| | `HeadingsMeetDefinitions` | the heading written before a body is followed by that function's definition, whatever the body declares |
| | `TablesScopeLexically` | the chain of tables implements `LexicalScope` |
| `preprocessor` | `TypeOK` `EndsUnlessCaught` `ResolvesAllAtOnce` `CommentsRemoved` | expansion ends but for three named causes; parameters of one letter replaced in turn are replaced at once unless an argument names its own or a later one; comments and nothing else are removed |
| `scanner` | `LexemesAreMaximal` `LocationsRight` `ComplaintsNameLines` `IntegersReadBack` | the order of the rules never shortens a lexeme; what the locations mean; where they and the messages part |
| `const_strings` | `LengthsDifferByLoneBackslashes` `TextHasItsLength` | when the two lengths of a constant agree, and that LLVM reads that many bytes then |

Four statements of comments are refuted, each by a run that ends in a
counterexample; `PROJECT.json` quotes the line each comes from:

| run | what the program does |
|---|---|
| `own_frees` | `string s() { a = a + a; }` leaves `%tmp.n` slated; the next function's return frees it |
| `return_copy` | `return a;` is not copied, `return a + a;` is copied although it is fresh (the test at `llvm.cpp:490` is inverted) |
| `shadowing` | `{ int a; { int a; } }` allocates `%a` twice |
| `redefinition` | `int f(); int f() {...}` writes `declare` and `define` |

Several properties say exactly where a promise ends, because it is wider than what holds:

* `RegistersNamedOnce` leaves out `%tmp.return`, which two returns of concatenated
  strings in one function define twice, and needs symbols with different names, as
  `shadowing` shows.
* `CallsMatchLines` is checked, and proved, without function declarations inside blocks: for
  `{ int f(); f(); }` the call is written and no declaration is.
* `NothingLeaks` is about functions without branches. A return frees, in the order of
  *writing*, all that was slated, and forgets it: with branches a string made before an
  `if` whose branch returns leaks on the other path (8 nodes, beyond the run's bound).
  `OnlyFreesMissValues` is the other half: where execution meets a register that was
  never set, the line is a `free`, of a register of a branch not taken (9 nodes) or of
  another function (`own_frees`, within the bound).
* `HeapUsedLegally` and `FreedByMaker`: freeing what other functions returned or a global
  holds would break the one or the other. The price is that a string a call returns is
  never freed, for only additions are slated; no property denies that leak, since
  `NothingLeaks` is about what an activation built itself.
* `DanglingIsInherited`: a string built by `g = a + b` is freed by the return of the same
  function, and the global still leads to it. The function itself never touches it
  again; others do, and not only later ones: when `h` calls `f` and `f` frees what it left in
  `g`, then `h`, begun before `f`, goes on with `g + "y"`. What holds is that the
  activation that freed it has ended: neither the running one nor one that waits for it
  has freed anything that is still used.
* `EndsUnlessCaught` names its three exceptions. `resolve` never ends when an argument
  contains the name of its own parameter (`macro.cpp:34`); nor, perhaps, when the name comes
  about anew at the seams of what was inserted, at both ends: `#define F(ab) aab` with
  `F(bbaa)` goes on as `abbaa`, `bbaabaa` for ever; and a call without `)` at the
  beginning of its line stays behind its expansion (`npos + 1` is 0 at
  `preprocessor.lex:154`), so that a body that brings a newline has it found again for
  ever. Whatever else the run tries ends, recursive macros and names that come about
  at one end included. A line that was put back is not at
  the beginning of a line: only the first macro of a line is expanded at all, against
  the comment at `preprocessor.lex:165`.
* `ResolvesAllAtOnce` is about parameters of one letter and arguments that name neither their
  own parameter nor one behind it. One that names an earlier parameter is left as it is:
  `B(A,x` with parameters `x` and `y` is in the run.
* `CommentsRemoved` leaves out lines that close two comments, between which code is
  dropped, and `IntegersReadBack` constants that no int can hold: they mark these edges and
  say nothing of what lies beyond.
* `LocationsRight` and `ComplaintsNameLines`: a newline inside a string is a column to the
  location and a line to flex, and an unrecognised character, or a `#` and what is
  behind it, belongs to the next token's location.
* `HeadingsMeetDefinitions` lets the last heading of a rejected or failed program stand
  alone. Of a function on which the generator fails (`;` and `{}` are null pointers in the
  AST, ordering strings throws) `emitted` has nothing, and the output has its heading and a first part.

### Bounds

Generator. `MaxNodes` (4 to 6) limits the nodes of the ASTs: once reached, only leaves
and ends are chosen, so a tree may exceed it by its leaves. It is enough for an
operator under an operator under an instruction, a control statement inside a `do` (in
`control`, with its 5 nodes, no other can contain one; the theorems about labels and values
have no such bound), or a concatenation of concatenations and a return in each of two
functions. `NodeClasses` splits the classes among runs; every class occurs in one, and
the hazards tie together classes of one run (strings with returns, loops with conditions,
blocks with assignments). `MaxFunctions` is 2 where state survives a function and 1
elsewhere; a global and a
symbol that is a local in one program and a parameter in another give every kind of
address.

Execution. `MaxActivations` = 2: what one leaves in a global the other finds, in either order of
the functions, and whether the second is called after the first has returned or by it.
The theorems have no such bound. `MaxBlocks` = 4 blocks let a
loop allocate in the same register again; at the bound an allocation does not happen and the
behaviour stays where it is (`CallsEnd` is checked without strings). `LoopExits` are the labels
fairness speaks of: all that leave a loop or enter a branch in programs of this size.

Parser. `MaxSize` limits the expansions that make a sentence longer, `Rules` splits the
alternatives, `MaxSymbols` the objects, `MaxArgs` = 1 the arguments of a call; one or
two names make clashes and redeclarations the normal case.

Texts. `Preprocessor` reads all texts of three lines from 24, each at an edge of a rule
(definition, use and a line between or behind are three; one macro has a parameter of two
letters, one has two parameters); `MaxText` = 12 bounds what
`resolve` builds, beyond which memory is exhausted, and `MaxWritten` the output.
`Scanner` reads all texts of five characters (a string with a newline, a complaint and a
token are five), with integers of 8 bits and a long of 16: two digits fit, three or
four are cut, and 99999 overflows the long.
`ConstString` reads all strings of five characters.

Every violation above appears well inside these bounds. `CHECK_DEADLOCK` stays on: a
stopped process stutters by `Stopped`.

### Fairness

The compiler's modules assume none: it is one thread that reads its input to the end, and
that it ends follows from the input's being finite.

* `Preprocessor`: `WF_vars(Step)`. One process that nothing suspends. Its end does not
  follow from its input, for it puts text back.
* `Execution`: weak fairness of executing a line (the processor goes on), and strong
  fairness of `JumpTo(l)` for the `LoopExits`. The conditions of a program are its
  author's; no compiler can make a loop end whose condition stays true. What the compiler
  owes is that a loop ends if its condition lets it: if the branch that tests is reached
  again and again, and its way out is taken when the condition says so. `SF` says the
  condition does so eventually. A loop written so that it does not come back to its
  test is refuted under the same assumption.

## Proofs

All of them are for every value of the constants, from the assumptions that the models
name and TLC evaluates. For the generator and what runs its output these are `SymbolsAssumption` and
`BoundsAssumption`: symbols have a string for a name, a type of the two, some are global,
parameter lists are made of local ones, and the bounds are natural numbers.

| theorem | in | states |
|---|---|---|
| `TypeCorrect` | `LLVMGenerator_proofs` | `[]TypeOK` |
| `OperandsAlwaysVisited` | | `[]OperandsVisited`: a visit method finds a register for its own node and for every operand |
| `StringFunctionsAlwaysDeclared` | | `[]StringFunctionsDeclared` |
| `BranchesAlwaysResolved` | | `[]BranchesResolved` |
| `NeverFallsThrough` | | `[]NoFallThrough` |
| `ValuesAlwaysComputed` | `Values_proofs` | `[]ValuesComputed` |
| `MemoryAlwaysAllocated` | | `[]MemoryAllocated` |
| `ConstStringsAlwaysDefined` | | `[]ConstStringsDefined` |
| `StringsFreedOnceAndLast` | `Registers_proofs` | `[]FreedOnceAndLast`, if `NoTmpSymbol` |
| `RegistersAlwaysNamedOnce` | | `[]RegistersNamedOnce`, if `NamesApart` |
| `HeapAlwaysUsedLegally` | `Execution_proofs` | the executions implement `Heap`, if `NoTmpSymbol` |
| `MakerAlwaysFrees` | | `[]FreedByMaker`, if `NoTmpSymbol` |
| `NothingEverLeaks` | | `[]NothingLeaks`, if `NoTmpSymbol` |
| `DanglingAlwaysInherited` | | `[]DanglingIsInherited`, if `NoTmpSymbol` |
| `OnlyFreesEverMissValues` | | `[]OnlyFreesMissValues`, if `NoTmpSymbol` |
| `ParserTypeCorrect` | `Parser_proofs` | `[]TypeOK`: the values that an action takes off the stack are there |
| `TypesAlwaysClaimed` | | `[]TypesClaimed` |
| `ScopesAlwaysMatchBlocks` | | `[]ScopesMatchBlocks` |
| `SymbolsAlwaysTyped` | | `[]SymbolsTyped` |
| `InternalErrorUnreachable` | | `[]NoInternalError` |
| `TablesAlwaysScopeLexically` | `Scoping_proofs` | the parser's tables implement `LexicalScope` |
| `GlobalsAlwaysAddressed` | | `[]GlobalsAddressed`, from `[](PInv /\ Fresh /\ Nested(expected) /\ Addressed)` |
| `LinesAlwaysAgree` | | `[]LinesAgree`, from the same invariant and `Lined` |
| `TableAlwaysMatchesOutput` | | `[]TableMatchesOutput` |
| `HeadingsAlwaysMeetDefinitions` | | `[]HeadingsMeetDefinitions` |
| `CallsAlwaysMatchLines` | | `[]CallsMatchLines`, if `[]FunctionsOutermost` |
| `CallsMatchWithoutLocals` | | `[]CallsMatchLines`, if the grammar has no declarations in blocks |
| `LengthsAlwaysDifferSo` | `ConstString_proofs` | `[]LengthsDifferByLoneBackslashes`, for strings of any length |

Seven theorems about the generator and what it wrote have a hypothesis about the program that is compiled. `NamesApart`: no two variables have one name, no parameter is listed twice,
and none is called `tmp` or `str`. Two declarations of one name, which the parser
accepts in different blocks, are what the run `shadowing` refutes; the loads of a
variable `tmp` are `%tmp.1`, `%tmp.2` and so on, which are names of temporaries.
`NoTmpSymbol` is the part about `tmp` alone, so strings are freed once and last, and the heap
is used legally, in programs that shadow, too. Where a load of a variable `tmp` defines the
register of a concatenation again, the block is lost and another one freed.
(`OnlyFreesEverMissValues` has the hypothesis because it shares its invariant with the others;
we know of no program with a variable `tmp` that refutes it.) The names of the passing runs satisfy both.

Two theorems about the parser have one, because the code does not keep `CallsMatchLines`
for a function that is declared inside a block. `FunctionsOutermost` is exactly that: no
table but the outermost has a function; local variables and parameters are left in.
`CallsMatchWithoutLocals` replaces it by a condition on the grammar, which the
run `declarations` satisfies: `"local_declaration"` is no member of `Rules`. All other theorems
hold for whatever is parsed and whatever the names.

### The generator

An entry of the stack is a visit method that is to be called, or the rest of one that
has called others. The proofs have a lemma for each shape of step (a terminal, a
node with children, the rest of a visit, an instruction that only pushes, the ends),
and one step per action that puts the action in that shape.

* `TypeOK` is not inductive. When an operator resumes it writes
  `register_reference_[operand]`, which is a register only if the operand is in the
  map's domain, and that is `OperandsVisited`; and `OperandsVisited` is kept by a
  visit only if the node it removes from the stack enters the map *before* anyone waits
  for it, and if the numbers given to new nodes are not in use. The inductive
  invariant is `IInv == TypeOK /\ Nodes`, where `Nodes` adds: every node in the map or on
  the stack is below the counter `nodes`; a node is to be visited at most once, and
  not if it has a register; what an entry reads of its own is named.
* `SInv`: at most one declaration line is written, the flag
  `string_functions_declared_` is raised exactly when there is one, a line that calls a
  string function, or a slated register, raises `need_string_functions_`, and a walk in
  progress has the function's end at the bottom of its stack (so no function is
  abandoned between a call and the declarations due). A `free` line needs `SlatedNeeds`:
  a return may write it that has seen no concatenation of its own.
* `CInv`: labels on lines and on the stack are below `next_label` (`LabelTaken`) and
  placed at most once between them (`PlacedApart`); the labels that the current
  function's lines and its stack go to are those that they place (`Balanced`). A visit
  pushes both the branch and the placing, so the sets stay equal entry by entry; when the
  stack is empty what is left is the property, and `Closed` keeps it when the
  function is behind.
* `VInv`: an operand of an entry is computed, by a line with no label after it, or
  an entry above will compute it; and the entries between are `IsQuiet`, they write
  no label (`Pending`). This is where it matters that conditions are visited in the block
  that tests them and that no expression has a block of its own.
* `MInv`: the scopes that the generator assumes match the blocks on its stack, and
  every symbol in one has its `alloca` in this function, or its `global` line. A pending store
  keeps its symbol allocated though the block of its declaration may be closed by then.
* `KInv`: an address taken is that of an id issued; either it waits in `const_strings_`
  or exactly one `constants` line has it, and nothing waits when no function is open.
* `RInv`: the temporary of a node was numbered by the size of
  `register_reference_` when the visit began, so all numbers given are below the size now,
  and no two nodes share one (`Numbered`, `Apart`). A visit under way has named its node and
  is the only one that will define it (`OwnersTmp`, `OwnedOnce`). `DInv` then says what
  the registers defined so far are: copies of returns, temporaries of nodes
  whose visit has finished, constants issued, loads numbered up to the
  variable's counter, variables declared; what a step defines is none of those before it.
* `FInv`: slated or freed registers are temporaries of finished nodes, none is both, and
  what pending entries will read has not been freed (`OperandsAlive`). A return that
  frees before it writes `ret` needs that the value returned is not among what it
  frees: a string that is slated has been copied, and nodes of integers are no nodes of
  concatenations (`IntegersUnslated`).

### The compiled program

The theorems of `Execution_proofs` are about a machine whose program is not given: it is whatever
the generator wrote. So there are two invariants, one about a finished text and one about
the machine that walks through it.

* `OInv` says what the lines are like, in every state of the generator. `LInv` is their
  order: a line of a function is followed by one of the same function up to its `end`
  (`Continued`), functions follow one another (`InOrder`), a branch goes to a label of
  its function once the function is closed (`LabelsMeet`), and a return's copy, frees and
  `ret` stay together (`ReturnsWhole`); the operands of a line are numbered registers or the
  parameters of its function (`OperandsNumbered`). `NInv` is about strings: a temporary is defined
  by one line only, of a node that is finished; what is slated or freed was made by a `concat`; a
  `concat` is slated until a `ret` follows it (`UnfreedSlated`), and the first `ret` that
  follows has it in the `free` line before (`FreedByReturn`). It needs every invariant of the
  generator above. A step of the generator is put in one of few shapes (`Appends`): one line for
  a value, a branch with a label, the lines of a return, the head of a function, its end.
* `EInv` relates the machine to the lines around each activation's line, of the one that
  runs (`Current`) and of those that wait (`Suspended`) alike. `Holds`: until its return's
  `ret`, each register that some line frees holds, if it is set, a block that this
  activation built and that has not been freed, no two hold the same, and nothing has been
  freed by this activation. `Present`: what the lines of the
  block before its line define is set. `RunsStraight`: without labels, no `ret` lies behind, and
  each block it built is in the register of a `concat` or `copy` line behind.
  `JustFreed`: behind a `free` line, what it names is freed once. `FramesTyped`: those that wait
  are at a call, and all have different numbers.
* A callee leaves what its callers hold alone: it builds blocks of its own number and,
  by `Holds`, frees only such. So a step of the running activation keeps `Sound` of the
  others, and a return needs only that the register of the call, which it sets in the
  caller, is one that no line frees (a temporary is defined by one line only, and the registers
  freed are those of `concat`s). This is what slating the result of a call would break.
* Loops are why `Holds` cannot speak of lines passed: a `concat` is executed again, and
  its register then holds a new block (the old one is lost, which `NothingLeaks` does not deny:
  it speaks of functions without labels). Since only `concat` lines define what is freed, and each
  register is defined by one line, a new block never makes two of these registers equal.
* The steps of the machine that only execute the next line share one lemma; `free`,
  calls, returns, branches, faults and stores by other files have one each. The step of a
  `free` line maps to `Free` of `Heap`, since its registers hold different blocks
  that were not freed, and nothing else, so that `strays` stays 0; an allocation maps to
  `Allocate`; every other step leaves the blocks alone.
* A dangling pointer is found at a line of a string function, which is no `ret`, so that
  `Holds`, of the running activation and of all that wait, says who has not freed it. An
  undefined operand of a line other than `free` contradicts `Present`, by `ValuesComputed`.

### The parser

`PInv` reads what is expected as a program for two stacks. Every symbol takes kinds of
values off the value stack and puts others on it, and pushes or pops unclaimed types
(`Effect`); the invariant is that all of it leads from the situation at hand, the kinds on
the value stack and the stage of a function definition, to the end of the program with
nothing left (`Leads`, `Situated`). Expanding a symbol replaces its effect by one that
leads the same way, for every alternative of the grammar; reducing a rule runs it.
`Data` adds that symbols in tables and parameter lists have their types. From `PInv`
the five theorems are single steps: an action finds its values because its symbol's effect
takes them; `function_definition` finds the type it pushed because everything between
leads back to the same open types.

`Fresh` is a second invariant: what is about to be declared is in no table yet, and a
function's parameters are older than it. With it each step of the parser maps to a step
of `LexicalScope` or to a stutter: opening a table copies the environment, adding a
symbol changes the innermost one at a name that had no meaning there, and closing a
table leaves the others as they were. What `lookup` finds from the *n*-th table outwards
is compared with the *n*-th environment, with no recursion.

`GlobalsAddressed` needs two more. `Nested` says of what is expected that a declaration
in a block stands before the end of its block, and what belongs to no block before no such
end; with `PInv`, which counts the tables by the ends of blocks to come, a declaration
outside of functions then finds one table and one in a block more (`TablesMet`).
`Addressed` says that the outermost table shares no symbol with another, and that its
symbols are functions, are marked, or are the declarators that the external
declaration about to end will mark.

The output is compared with the outermost table, not its lines with one another. `Lined`
says that each line has the signature that its name has in that table, and is a `global` line if
and only if the name is a variable's (`LinesNamed`); that a variable has one line
(`GlobalsOnce`); and that each name of the table has a line, unless the external
declaration about to end will write it or a definition of it is under way
(`Announced`, `NamesWritten`, `DefinitionKnown`). What makes this inductive is
`Grows`: the outermost table only grows, and what it says of a name, kind and
signature, stays, although symbols are shared, mutable objects: a declaration assigns types only
to its own declarators, which are no parameters of anybody (`Apart`). Then `LinesAgree` and
`TableMatchesOutput` are read off. The lines of an external declaration, functions first and then
variables, are described by the place of each declarator's line
(`Place`, a permutation) and not by filtering, so that no induction is needed:
every declarator has one line and every line is one declarator's.

`HeadingsMeetDefinitions` rests on `Headed`: the earlier headings have met their definitions,
and the last one has, or its function is under way, no line has been written since, and
`definition` has the name it had (`Awaited`). Under way (`UnderWay`) means that `definition` is a
function and its `decl_glb_fct` has been reduced; by `PInv` no second one is parsed inside it,
and no external declaration ends before it does, so nothing is written; and no step
changes a name in `heap` (`Alike`).

For calls, `CallsKnown` says that a call in the body being parsed has the signature that
its name has in the outermost table. A call is checked against the innermost meaning
of its name, which is a function and so in the outermost table, by
`FunctionsOutermost`; by `Grows` it is still that when the function is written, and by `Lined`
there is a line. Without local declarations `FunctionsOutermost` is itself
an invariant: what is expected has no local declaration (`Undeclaring`), so that all declarations
find one table, and a block's table holds parameters, which are no functions
(`VariableParameters`).

### String constants

`ConstString_proofs` counts backslashes. While measuring, `size` is the length less the
backslashes before `i`; while writing, `str_size` is `i` less the escapes begun before
`i`. A step adds at most the place it stands on to the set counted; that the writing loop,
which may take two characters at a time, never jumps over the beginning of an escape follows
from the letters of escapes being no backslashes. At the end the difference of the two
counts is the count of the difference.

### Model-checked only

* Liveness: `CallsEnd`, `EndsUnlessCaught`.
* What a recursive or filtering operator comes to for all its arguments, which needs
  induction over data: `TextHasItsLength`, `ResolvesAllAtOnce`, `CommentsRemoved`,
  `LexemesAreMaximal`, `LocationsRight` and `IntegersReadBack`, which say what a whole text becomes.
* Not proved so far: the `TypeOK` of `Preprocessor` and `ComplaintsNameLines`.

## Not modelled

* Wording: indentation, comments, alignment, the names of operations. So
  `@x = global i32 null`, definitions for extern variables and `udiv` for signed
  division are no properties; integers and conditions have no values at run time.
* Types of IR operands: comparisons of an int with a string and returns of the wrong
  type are accepted by the parser and ill-typed in the output; also loads
  from a function's name.
* What goes to which parameter: a called function's parameters hold any of the values the call
  was given. Calls back from functions of other files; such a function may store to globals, and
  what it returns is no block of this heap.
* A body that does not end with a return is closed without a terminator; execution runs
  into its end and stops there. Which bodies end well is the program's business.
* The dangling else and operator precedence: the models enumerate trees, not the
  texts they come from.
* The bytes of strings at run time; flex's buffer, in which `unput` and `REJECT` work and
  which a long line overflows; carriage returns and tabs, which count as blanks.
* `print_tables`, access counts; build files, tests, flex's and Catch's headers.

## Plan

1. done: generator, parser, their runs; types and string functions proved.
2. done: `Execution`, `Heap`, `LexicalScope`, `Preprocessor`, `Scanner`, `ConstString`,
   their runs; the lengths of constants proved.
3. done: all safety properties of the generator's runs, the parser's invariants (but for
   those that filter the output), and that its tables implement `LexicalScope`.
4. done: the executions use the heap as `Heap` allows, and the other safety properties of
   `Execution`.
