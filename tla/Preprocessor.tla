----------------------------- MODULE Preprocessor -----------------------------
(***************************************************************************)
(* The preprocessor: the rules of src/preprocessor.lex and the classes of     *)
(* src/macro.cpp.                                                            *)
(*                                                                          *)
(* A text is a sequence of symbols: a character, or a directive or comment    *)
(* sign that flex meets as a whole ("#define " stands for the word with the   *)
(* blanks behind it).  One action runs the action of one rule, chosen as flex *)
(* chooses it: the longest match, the first rule among equals, the next one   *)
(* after a REJECT.  The loop of Macro_Function::resolve, which need not end,   *)
(* is run a replacement at a time.                                           *)
(***************************************************************************)
EXTENDS Integers, Sequences, FiniteSets

LOCAL INSTANCE SequencesExt

CONSTANTS
  Letters,  (* the letters of identifiers, in the order of their codes       *)
  Inputs,   (* the texts that may be read                                    *)
  MaxText,  (* bound: symbols of a resolved macro that memory can hold       *)
  MaxWritten  (* bound: symbols of the output that there is room for         *)

Letter == {Letters[i] : i \in DOMAIN Letters}

ASSUME PreprocessorAssumption ==
  /\ Letters \in Seq(STRING)
  /\ \A input \in Inputs : input \in Seq(STRING)
  /\ MaxText \in Nat /\ MaxWritten \in Nat

VARIABLES
  input,       (* the whole text (never changed)                             *)
  text,        (* what is still to be read, what was put back included       *)
  at_bol,      (* flex's yy_at_bol: the last symbol matched was a newline     *)
  start,       (* the start condition                                        *)
  macros,      (* name |-> macro                                             *)
  curr_macro,
  resolving,   (* the call of Macro_Function::resolve under way, if any       *)
  written,     (* the output                                                 *)
  status       (* of the process                                             *)

vars == <<input, text, at_bol, start, macros, curr_macro, resolving, written,
          status>>

definitions == <<macros, curr_macro>>

-----------------------------------------------------------------------------
(* Texts.                                                                    *)

Blank == {" "}
Newline == "\n"

Upto(s, k) == SubSeq(s, 1, k)
After(s, k) == SubSeq(s, k + 1, Len(s))

Least(S) == CHOOSE i \in S : \A j \in S : i <= j
Greatest(S) == CHOOSE i \in S : \A j \in S : j <= i

(* The first place from i on with a symbol of S, or not of S; the end if none. *)
Until(s, i, S) ==
  LET found == {k \in i..Len(s) : s[k] \in S}
  IN  IF found = {} THEN Len(s) + 1 ELSE Least(found)
While(s, i, S) ==
  LET found == {k \in i..Len(s) : s[k] \notin S}
  IN  IF found = {} THEN Len(s) + 1 ELSE Least(found)

(* The places where name is found in s, inside another identifier or not.     *)
Occurrences(name, s) ==
  {i \in 1..Len(s) + 1 - Len(name) : SubSeq(s, i, i + Len(name) - 1) = name}

strip(s) ==
  LET inner == {i \in DOMAIN s : s[i] \notin Blank}
  IN  IF inner = {} THEN <<>> ELSE SubSeq(s, Least(inner), Greatest(inner))

(* The text up to the next newline, exclusive.                               *)
Line == Upto(text, Until(text, 1, {Newline}) - 1)

(* The order of std::map: that of the names.                                 *)
Code(c) == CHOOSE i \in DOMAIN Letters : Letters[i] = c
Before(m, n) ==
  \E k \in 1..Len(n) :
    /\ k - 1 <= Len(m) /\ Upto(m, k - 1) = Upto(n, k - 1)
    /\ k - 1 = Len(m) \/ Code(m[k]) < Code(n[k])

-----------------------------------------------------------------------------
(* Macros.  A Macro has no parameter list.                                   *)

Macro(name, function, params) ==
  [name |-> name, function |-> function, params |-> params, body |-> <<>>]
NoMacro == Macro(<<>>, FALSE, <<>>)

NotResolving == [macro |-> NoMacro, args |-> <<>>, i |-> 0, result |-> <<>>,
                 prefix |-> <<>>, suffix |-> <<>>]

Reading == status = "running" /\ resolving = NotResolving /\ text # <<>>

(* At the beginning of a line `^.*$` is the longest match, `#define` and      *)
(* comments included.  It searches the line for the macros, and REJECTs when   *)
(* it finds none.                                                            *)
Searching == Reading /\ start = "INITIAL" /\ at_bol /\ Len(Line) < Len(text)
FoundNames(line) == {n \in DOMAIN macros : Occurrences(n, line) # {}}
Found == Searching /\ FoundNames(Line) # {}

(* The macro the line is expanded with, if any: the first one found in it.     *)
FoundName(line) ==
  {n \in FoundNames(line) : \A m \in FoundNames(line) \ {n} : Before(n, m)}
Position(line, name) == Least(Occurrences(name, line))

(* The rest of the input after k symbols are matched.                        *)
Match(k) ==
  /\ text' = After(text, k)
  /\ at_bol' = (text[k] = Newline)

Begin(condition) == start' = condition

-----------------------------------------------------------------------------
(* The result of an expansion is put back in front of the text.  The last      *)
(* symbol matched was not a newline: the line is not at its beginning.         *)
(* Mutant: it is (and the line is cut off at the bound).                      *)
UnputAtBeginning(line) ==
  /\ text' = Upto(line, IF Len(line) < MaxText THEN Len(line) ELSE MaxText)
             \o After(text, Len(Line))
  /\ at_bol' = TRUE

Unput(line) ==
  /\ text' = line \o After(text, Len(Line))
  /\ at_bol' = FALSE

ExpandMacro ==
  /\ Searching
  /\ \E line \in {Line} : \E name \in FoundName(line) :
       LET position == Position(line, name)
       IN  /\ ~macros[name].function
           /\ Unput(Upto(line, position - 1) \o macros[name].body
                    \o After(line, position - 1 + Len(name)))
  /\ UNCHANGED <<input, start, definitions, resolving, written, status>>

(* Where the parenthesis after the name must be: the next symbol that is no    *)
(* blank.  At the end of the line there is none, and line[npos] is the byte     *)
(* before the string's buffer, which is not '(' either: the assertion fails.   *)
Parenthesis(line, name) ==
  While(line, Position(line, name) + Len(name), Blank)
HasParenthesis(line, name) ==
  LET p == Parenthesis(line, name) IN p <= Len(line) /\ line[p] = "("

(* Where the arguments end: at the first ')' after the parenthesis at p, or    *)
(* with the line.                                                            *)
CallEnd(line, p) == Until(line, p, {")"})

ArgumentList(line, p) ==
  LET commas == {i \in p..CallEnd(line, p) - 1 : line[i] = ","}
      ends == SetToSortSeq(commas \union {p, CallEnd(line, p)}, <)
  IN  [k \in 1..Len(ends) - 1 |-> strip(SubSeq(line, ends[k] + 1, ends[k + 1] - 1))]

(* What line.replace leaves of the line behind the call.  Without a ')' the    *)
(* count is npos - position + 1, which for a call at the very beginning of the *)
(* line is zero.                                                             *)
BehindCall(line, p, position) ==
  IF CallEnd(line, p) <= Len(line) THEN After(line, CallEnd(line, p))
  ELSE IF position = 1 THEN line ELSE <<>>

(* The assertions of the rule and of resolve.  Mutant: without the second.    *)
CallableByName(line, name) == HasParenthesis(line, name)
Callable(line, name) ==
  /\ HasParenthesis(line, name)
  /\ Len(ArgumentList(line, Parenthesis(line, name))) = Len(macros[name].params)

ExpandMacroFunction ==
  /\ Searching
  /\ \E line \in {Line} : \E name \in FoundName(line) :
       /\ macros[name].function /\ Callable(line, name)
       /\ LET p == Parenthesis(line, name)
              position == Position(line, name)
          IN  resolving' =
                [macro |-> macros[name], args |-> ArgumentList(line, p), i |-> 1,
                 result |-> macros[name].body, prefix |-> Upto(line, position - 1),
                 suffix |-> BehindCall(line, p, position)]
  /\ UNCHANGED <<input, text, at_bol, start, definitions, written, status>>

AbortExpansion ==
  /\ Searching
  /\ \E line \in {Line} : \E name \in FoundName(line) :
       macros[name].function /\ ~Callable(line, name)
  /\ status' = "aborted"
  /\ UNCHANGED <<input, text, at_bol, start, definitions, resolving, written>>

(* Macro_Function::resolve: the i-th parameter is replaced as long as it is    *)
(* found, in what replaced it too.  Mutant: then from the first one on again.  *)
Param == resolving.macro.params[resolving.i]
Arg == resolving.args[resolving.i]
InLoop == resolving.i \in 1..Len(resolving.macro.params)
ParamFound == InLoop /\ Occurrences(Param, resolving.result) # {}

Replaced ==
  ReplaceSubSeqAt(Least(Occurrences(Param, resolving.result)), Arg, Param,
                  resolving.result)

ReplaceParameterAgain ==
  /\ status = "running" /\ ParamFound /\ Len(Replaced) <= MaxText
  /\ resolving' = [resolving EXCEPT !.result = Replaced, !.i = 1]
  /\ UNCHANGED <<input, text, at_bol, start, definitions, written, status>>

ReplaceParameter ==
  /\ status = "running" /\ ParamFound /\ Len(Replaced) <= MaxText
  /\ resolving' = [resolving EXCEPT !.result = Replaced]
  /\ UNCHANGED <<input, text, at_bol, start, definitions, written, status>>

ExhaustMemory ==
  /\ status = "running" /\ ParamFound /\ Len(Replaced) > MaxText
  /\ status' = "exhausted"
  /\ UNCHANGED <<input, text, at_bol, start, definitions, resolving, written>>

NextParameter ==
  /\ status = "running" /\ InLoop /\ ~ParamFound
  /\ resolving' = [resolving EXCEPT !.i = @ + 1]
  /\ UNCHANGED <<input, text, at_bol, start, definitions, written, status>>

Resolved == resolving # NotResolving /\ ~InLoop

Resolve ==
  /\ status = "running" /\ Resolved
  /\ Unput(resolving.prefix \o resolving.result \o resolving.suffix)
  /\ resolving' = NotResolving
  /\ UNCHANGED <<input, start, definitions, written, status>>

-----------------------------------------------------------------------------
(* Directives.                                                               *)

Rejected == Reading /\ start = "INITIAL" /\ ~Found

Include ==
  /\ Rejected /\ Head(text) = "#include<"
  /\ Match(1) /\ Begin("include_directive")
  /\ UNCHANGED <<input, definitions, resolving, written, status>>

FileEnd == Until(text, 1, {" ", Newline, ">"})
FileNamed == FileEnd \in 2..Len(text) /\ text[FileEnd] = ">"

IncludeFile ==
  /\ Reading /\ start = "include_directive" /\ FileNamed
  /\ Match(FileEnd) /\ Begin("INITIAL")
  /\ UNCHANGED <<input, definitions, resolving, written, status>>

(* "#define ", an identifier, and blanks or a parenthesis with blanks.        *)
Name == SubSeq(text, 2, While(text, 2, Letter) - 1)
NameEnd == 1 + Len(Name)
BlanksEnd(i) == While(text, i, Blank) - 1

DefinesMacro ==
  /\ Head(text) = "#define " /\ Name # <<>> /\ BlanksEnd(NameEnd + 1) > NameEnd
DefinesFunction ==
  /\ Head(text) = "#define " /\ Name # <<>>
  /\ NameEnd < Len(text) /\ text[NameEnd + 1] = "("

DefineMacro ==
  /\ Rejected /\ DefinesMacro
  /\ Match(BlanksEnd(NameEnd + 1)) /\ Begin("def_macro")
  /\ curr_macro' = Macro(Name, FALSE, <<>>)
  /\ UNCHANGED <<input, macros, resolving, written, status>>

DefineFunction ==
  /\ Rejected /\ DefinesFunction
  /\ Match(BlanksEnd(NameEnd + 2)) /\ Begin("def_macro_args")
  /\ curr_macro' = Macro(Name, TRUE, <<>>)
  /\ UNCHANGED <<input, macros, resolving, written, status>>

(* An identifier, blanks, ',' or ')', blanks.                                 *)
ParamEnd == While(text, 1, Letter) - 1
Terminator == BlanksEnd(ParamEnd + 1) + 1
ParamNamed ==
  ParamEnd > 0 /\ Terminator <= Len(text) /\ text[Terminator] \in {",", ")"}

DefineParameter ==
  /\ Reading /\ start = "def_macro_args" /\ ParamNamed
  /\ curr_macro' = [curr_macro EXCEPT !.params = Append(@, Upto(text, ParamEnd))]
  /\ Match(BlanksEnd(Terminator + 1))
  /\ Begin(IF text[Terminator] = ")" THEN "def_macro" ELSE start)
  /\ UNCHANGED <<input, macros, resolving, written, status>>

(* `.*[^\\]\n`: the line with its newline, unless it is empty or continued;     *)
(* or the line and the empty line behind it, for [^\\] may be a newline.        *)
BodyEnd ==
  LET n == Len(Line) + 1
  IN  IF n < Len(text) /\ text[n + 1] = Newline THEN n + 1
      ELSE IF n \in 2..Len(text) /\ text[n - 1] # "\\" THEN n ELSE 0

DefineBody ==
  /\ Reading /\ start = "def_macro" /\ BodyEnd > 0
  /\ curr_macro' = [curr_macro EXCEPT !.body = Upto(text, BodyEnd - 1)]
  /\ macros' = [n \in DOMAIN macros \union {curr_macro.name} |->
                  IF n = curr_macro.name THEN curr_macro' ELSE macros[n]]
  /\ Match(BodyEnd) /\ Begin("INITIAL")
  /\ UNCHANGED <<input, resolving, written, status>>

-----------------------------------------------------------------------------
(* Comments.                                                                 *)

BlockComment ==
  /\ Rejected /\ Head(text) = "/*"
  /\ Match(1) /\ Begin("block_comment")
  /\ UNCHANGED <<input, definitions, resolving, written, status>>

(* The longest match: up to the last end of a comment on the line.  Mutant:    *)
(* the rest of the line belongs to the comment.                              *)
CommentEnds == {i \in DOMAIN Line : Line[i] = "*/"}

EndBlockCommentWithLine ==
  /\ Reading /\ start = "block_comment" /\ CommentEnds # {}
  /\ Match(Len(Line)) /\ Begin("INITIAL")
  /\ UNCHANGED <<input, definitions, resolving, written, status>>

EndBlockComment ==
  /\ Reading /\ start = "block_comment" /\ CommentEnds # {}
  /\ Match(Greatest(CommentEnds))
  /\ Begin("INITIAL")
  /\ UNCHANGED <<input, definitions, resolving, written, status>>

SkipCommentedLine ==
  /\ Reading /\ start = "block_comment" /\ CommentEnds = {} /\ Line # <<>>
  /\ Match(Len(Line))
  /\ UNCHANGED <<input, start, definitions, resolving, written, status>>

LineComment ==
  /\ Rejected /\ Head(text) = "//"
  /\ Match(Len(Line))
  /\ UNCHANGED <<input, start, definitions, resolving, written, status>>

-----------------------------------------------------------------------------
(* flex's default rule writes the symbol that no rule matches.                *)

Matched ==
  CASE start = "INITIAL" ->
         \/ Found
         \/ Head(text) \in {"#include<", "/*", "//"} \/ DefinesMacro
         \/ DefinesFunction
    [] start = "include_directive" -> FileNamed
    [] start = "def_macro_args"    -> ParamNamed
    [] start = "def_macro"         -> BodyEnd > 0
    [] start = "block_comment"     -> Line # <<>>

Echo ==
  /\ Reading /\ ~Matched /\ Len(written) < MaxWritten
  /\ Match(1)
  /\ written' = Append(written, Head(text))
  /\ UNCHANGED <<input, start, definitions, resolving, status>>

ExhaustOutput ==
  /\ Reading /\ ~Matched /\ Len(written) = MaxWritten
  /\ status' = "exhausted"
  /\ UNCHANGED <<input, text, at_bol, start, definitions, resolving, written>>

EndOfFile ==
  /\ status = "running" /\ resolving = NotResolving /\ text = <<>>
  /\ status' = "ended"
  /\ UNCHANGED <<input, text, at_bol, start, definitions, resolving, written>>

Stopped == status # "running" /\ UNCHANGED vars

-----------------------------------------------------------------------------
Init ==
  /\ input \in Inputs /\ text = input
  /\ at_bol = TRUE /\ start = "INITIAL"
  /\ macros = [n \in {} |-> NoMacro] /\ curr_macro = NoMacro
  /\ resolving = NotResolving
  /\ written = <<>> /\ status = "running"

Expansion ==
  \/ ExpandMacro \/ ExpandMacroFunction \/ AbortExpansion
  \/ ReplaceParameter \/ ExhaustMemory \/ NextParameter \/ Resolve

Directive ==
  \/ Include \/ IncludeFile
  \/ DefineMacro \/ DefineFunction \/ DefineParameter \/ DefineBody

Comment ==
  BlockComment \/ EndBlockComment \/ SkipCommentedLine \/ LineComment

Step == Expansion \/ Directive \/ Comment \/ Echo \/ ExhaustOutput \/ EndOfFile

Next == Step \/ Stopped

(* The process is one thread that nothing suspends.                          *)
Spec == Init /\ [][Next]_vars /\ WF_vars(Step)

-----------------------------------------------------------------------------
(* Properties.                                                               *)

Conditions ==
  {"INITIAL", "include_directive", "def_macro", "def_macro_args", "block_comment"}

TypeOK ==
  /\ at_bol \in BOOLEAN /\ start \in Conditions
  /\ status \in {"running", "ended", "aborted", "exhausted"}
  /\ \A n \in DOMAIN macros : macros[n].name = n /\ n # <<>>
  /\ start \in {"def_macro", "def_macro_args"} => curr_macro # NoMacro
  /\ Len(resolving.args) = Len(resolving.macro.params)
  /\ resolving.i \in 0..Len(resolving.args) + 1

(* Three things can keep the preprocessor from its end.  An argument contains  *)
(* the name of the parameter it replaces.  Or that name comes about at both    *)
(* ends of the argument, where it meets what is around it: the argument is     *)
(* longer than the name, begins with an end of it and ends with a beginning of *)
(* it (as bbaa does for ab, in aab).  Or a call that begins its line and is    *)
(* not closed stays behind its expansion, and that brings a newline (from the  *)
(* empty line behind the definition), so that the call is at the beginning of  *)
(* a line again.  Without these it ends: macros may name themselves or one     *)
(* another, and a name may come about at one end of the argument.             *)
SelfNaming == ParamFound /\ Occurrences(Param, Arg) # {}

Reforming ==
  /\ ParamFound /\ Len(Arg) > Len(Param)
  /\ \E k \in 1..Len(Param) - 1 : Upto(Arg, k) = After(Param, Len(Param) - k)
  /\ \E k \in 1..Len(Param) - 1 : After(Arg, Len(Arg) - k) = Upto(Param, k)

CallStays ==
  /\ Resolved /\ resolving.suffix = Line
  /\ \E i \in DOMAIN resolving.result : resolving.result[i] = Newline

EndsUnlessCaught ==
  <>(status \in {"ended", "aborted"} \/ SelfNaming \/ Reforming \/ CallStays)

(* Replacing one parameter of one letter after another comes to replacing all  *)
(* at once, if no argument names its own parameter or one behind it: what it   *)
(* says of a parameter before it stays.                                      *)
AllAtOnce(macro, args) ==
  LET replaced(c) ==
        IF \E k \in DOMAIN args : macro.params[k] = <<c>>
        THEN args[Least({k \in DOMAIN args : macro.params[k] = <<c>>})]
        ELSE <<c>>
  IN  FlattenSeq([k \in DOMAIN macro.body |-> replaced(macro.body[k])])

OneLetterEach == \A k \in DOMAIN resolving.args : Len(resolving.macro.params[k]) = 1

NamesNoneBehind ==
  \A k \in DOMAIN resolving.args : \A j \in k..Len(resolving.args) :
    Occurrences(resolving.macro.params[j], resolving.args[k]) = {}

ResolvesAllAtOnce ==
  (Resolved /\ OneLetterEach /\ NamesNoneBehind)
    => resolving.result = AllAtOnce(resolving.macro, resolving.args)

(* The text without comments, read symbol by symbol.                          *)
Uncommented(s) ==
  LET read(sofar, c) ==
        CASE sofar.mode = "code" /\ c = "/*" -> [sofar EXCEPT !.mode = "block"]
          [] sofar.mode = "code" /\ c = "//" -> [sofar EXCEPT !.mode = "line"]
          [] sofar.mode = "block" /\ c = "*/" -> [sofar EXCEPT !.mode = "code"]
          [] sofar.mode = "line" /\ c = Newline ->
               [mode |-> "code", kept |-> Append(sofar.kept, c)]
          [] sofar.mode = "code" \/ c = Newline ->
               [sofar EXCEPT !.kept = Append(@, c)]
          [] OTHER -> sofar
  IN  FoldLeft(read, [mode |-> "code", kept |-> <<>>], s).kept

(* A text without directives comes out without its comments and with all its   *)
(* newlines, if no line closes two comments: then the longest match takes the  *)
(* code between them too.                                                    *)
NoDirectives == \A i \in DOMAIN input : input[i] \notin {"#define ", "#include<"}

OneCommentEnds ==
  \A i, j \in DOMAIN input :
    (i < j /\ input[i] = "*/" /\ input[j] = "*/") =>
      \E k \in i..j : input[k] = Newline

CommentsRemoved ==
  (status = "ended" /\ NoDirectives /\ OneCommentEnds) =>
    written = Uncommented(input)
=============================================================================
