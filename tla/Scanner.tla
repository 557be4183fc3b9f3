-------------------------------- MODULE Scanner --------------------------------
(***************************************************************************)
(* The scanner of the compiler: Scanner::lex, the rules of src/scanner.lex,   *)
(* with the locations it keeps for the parser.                               *)
(*                                                                          *)
(* The parser calls lex until it returns END.  One action runs the action of   *)
(* one rule, the one flex chooses: the longest match, the first among equals.  *)
(* A text is a sequence of characters; the few of Characters stand for their   *)
(* classes, and the keyword "if" for all of them.                            *)
(***************************************************************************)
EXTENDS Integers, Sequences, FiniteSets

LOCAL INSTANCE SequencesExt

CONSTANTS
  Texts,    (* the inputs that are scanned                                   *)
  IntBits   (* bits of an int; a long has twice as many                      *)

Letters == {"i", "f"}
Digits == <<"0", "9">>
DigitValue == <<0, 9>>
Operators == {<<"<">>, <<"=">>, <<"<", "<">>, <<"<", "=">>, <<"=", "=">>}
Keyword == <<"i", "f">>
Blanks == {" "}
Newline == "\n"
Quote == "\""

DigitSet == ToSet(Digits)
Characters ==
  Letters \union DigitSet \union Blanks \union {"<", "=", "#", "$", Newline, Quote}

ASSUME ScannerAssumption ==
  Texts \subseteq Seq(Characters) /\ IntBits \in Nat \ {0}

VARIABLES
  text,      (* the input (never changed)                                    *)
  pos,       (* characters matched so far                                    *)
  begin, end,(* yylloc                                                       *)
  yylineno,
  state,     (* of lex: called or returned, the latter for good after END     *)
  tokens,    (* returned so far, each with its lexeme's place and location    *)
  messages   (* the places and lines of the characters complained of          *)

vars == <<text, pos, begin, end, yylineno, state, tokens, messages>>

-----------------------------------------------------------------------------
(* How many characters each rule matches here, 0 if none.                    *)

Rest == SubSeq(text, pos + 1, Len(text))

Longest(S) == CHOOSE k \in S \union {0} : \A j \in S : j <= k
RunOf(S) ==
  Longest({k \in 1..Len(Rest) : \A j \in 1..k : Rest[j] \in S})
Among(lexemes) ==
  Longest({k \in 1..Len(Rest) : SubSeq(Rest, 1, k) \in lexemes})

StringLength ==
  LET quotes == {k \in 2..Len(Rest) : Rest[k] = Quote}
  IN  IF Rest[1] # Quote \/ quotes = {} THEN 0
      ELSE CHOOSE k \in quotes : \A j \in quotes : k <= j

(* In the order of the file.  Mutant: the keywords behind the identifiers.     *)
RulesKeywordsLate == <<"directive", "operator", "identifier", "keyword", "integer",
                       "string", "blanks", "newlines", "other">>
Rules == <<"directive", "operator", "keyword", "identifier", "integer",
           "string", "blanks", "newlines", "other">>

Matches(rule) ==
  CASE rule = "directive"  -> IF Rest[1] = "#" THEN RunOf(Characters \ {Newline})
                                               ELSE 0
    [] rule = "operator"   -> Among(Operators)
    [] rule = "keyword"    -> Among({Keyword})
    [] rule = "identifier" -> IF Rest[1] \in Letters
                              THEN RunOf(Letters \union DigitSet) ELSE 0
    [] rule = "integer"    -> RunOf(DigitSet)
    [] rule = "string"     -> StringLength
    [] rule = "blanks"     -> RunOf(Blanks)
    [] rule = "newlines"   -> RunOf({Newline})
    [] rule = "other"      -> IF Rest[1] # Newline THEN 1 ELSE 0

(* flex's choice, by what each rule matches.                                 *)
Chosen(r, lengths) ==
  \A q \in DOMAIN Rules :
    lengths[q] < lengths[r] \/ (lengths[q] = lengths[r] /\ q >= r)

(* The newlines of a lexeme.  Mutant: those of the rule for newlines only.    *)
LinesOfRule(rule, n) == IF rule = "newlines" THEN n ELSE 0
LinesIn(rule, n) == Cardinality({k \in 1..n : Rest[k] = Newline})

(* Every action begins with YY_USER_ACTION: the end moves n columns on.       *)
Columns(n) == [end EXCEPT !.column = @ + n]

(* The action of the rule begins, with n characters in yytext.                *)
Match(rule, n) ==
  /\ pos' = pos + n
  /\ yylineno' = yylineno + LinesIn(rule, n)
  /\ UNCHANGED text

Matched(rules) ==
  IF state # "called" \/ pos = Len(text) THEN {}
  ELSE LET lengths == [r \in DOMAIN Rules |-> Matches(Rules[r])]
       IN  {<<Rules[r], lengths[r]>> :
              r \in {q \in DOMAIN Rules : Rules[q] \in rules /\ Chosen(q, lengths)}}

-----------------------------------------------------------------------------
(* atoi: a conversion to long, which stops at the largest, cut to an int.     *)
Number(digits) ==
  FoldLeft(LAMBDA n, d : 10 * n + DigitValue[CHOOSE i \in DOMAIN Digits : Digits[i] = d],
           0, digits)

(* Mutant: strtol with base 0, for which a leading 0 begins an octal number.   *)
atoiAnyBase(digits) == IF digits[1] = "0" THEN 0 ELSE Number(digits)

atoi(digits) ==
  LET long == IF Number(digits) < 2 ^ (2 * IntBits - 1) THEN Number(digits)
              ELSE 2 ^ (2 * IntBits - 1) - 1
      bits == long % 2 ^ IntBits
  IN  IF bits < 2 ^ (IntBits - 1) THEN bits ELSE bits - 2 ^ IntBits

(* yylloc->step(), when lex is called.  Mutant: not done.                     *)
CallUnstepped ==
  /\ state = "returned"
  /\ state' = "called"
  /\ UNCHANGED <<text, pos, begin, end, yylineno, tokens, messages>>

Call ==
  /\ state = "returned"
  /\ state' = "called" /\ begin' = end
  /\ UNCHANGED <<text, pos, end, yylineno, tokens, messages>>

Token(rule, n, value) ==
  [kind |-> rule, from |-> pos, to |-> pos + n, value |-> value,
   begin |-> begin, end |-> end']

(* return token::...  A string keeps its quotes; the parser removes them.     *)
Lexemes == {"operator", "keyword", "identifier", "integer", "string"}

ReturnLexeme ==
  /\ \E m \in Matched(Lexemes) :
       /\ Match(m[1], m[2]) /\ end' = Columns(m[2])
       /\ tokens' = Append(tokens,
            Token(m[1], m[2],
                  IF m[1] = "integer" THEN atoi(SubSeq(Rest, 1, m[2])) ELSE 0))
  /\ state' = "returned"
  /\ UNCHANGED <<begin, messages>>

SkipDirective ==
  /\ \E m \in Matched({"directive"}) : Match(m[1], m[2]) /\ end' = Columns(m[2])
  /\ UNCHANGED <<begin, state, tokens, messages>>

SkipBlanks ==
  /\ \E m \in Matched({"blanks"}) : Match(m[1], m[2]) /\ end' = Columns(m[2])
  /\ begin' = end'
  /\ UNCHANGED <<state, tokens, messages>>

SkipNewlines ==
  /\ \E m \in Matched({"newlines"}) :
       Match(m[1], m[2]) /\ end' = [line |-> end.line + m[2], column |-> 1]
  /\ begin' = end'
  /\ UNCHANGED <<state, tokens, messages>>

Complain ==
  /\ \E m \in Matched({"other"}) : Match(m[1], m[2]) /\ end' = Columns(m[2])
  /\ messages' = Append(messages, [at |-> pos, line |-> yylineno'])
  /\ UNCHANGED <<begin, state, tokens>>

ReturnEnd ==
  /\ state = "called" /\ pos = Len(text)
  /\ tokens' = Append(tokens, [kind |-> "end", from |-> pos, to |-> pos, value |-> 0,
                               begin |-> begin, end |-> end])
  /\ state' = "finished"
  /\ UNCHANGED <<text, pos, begin, end, yylineno, messages>>

Stopped == state = "finished" /\ UNCHANGED vars

-----------------------------------------------------------------------------
Init ==
  /\ text \in Texts /\ pos = 0
  /\ begin = [line |-> 1, column |-> 1] /\ end = begin
  /\ yylineno = 1
  /\ state = "returned"
  /\ tokens = <<>> /\ messages = <<>>

Next ==
  \/ Call \/ ReturnLexeme \/ ReturnEnd
  \/ SkipDirective \/ SkipBlanks \/ SkipNewlines \/ Complain
  \/ Stopped

Spec == Init /\ [][Next]_vars

-----------------------------------------------------------------------------
(* Properties.                                                               *)

Finished == state = "finished"
Lexeme(t) == SubSeq(text, t.from + 1, t.to)

IsString(s) ==
  /\ Len(s) > 1 /\ s[1] = Quote /\ s[Len(s)] = Quote
  /\ \A i \in 2..Len(s) - 1 : s[i] # Quote
IsWord(s) ==
  s # <<>> /\ s[1] \in Letters /\ ToSet(s) \subseteq Letters \union DigitSet
IsLexeme(s) ==
  IsWord(s) \/ IsString(s) \/ s \in Operators \/ (s # <<>> /\ ToSet(s) \subseteq DigitSet)

(* A token is as long as it can be: no longer text that begins where it does  *)
(* is a lexeme, and a word is a keyword only if it is nothing more.            *)
LexemesAreMaximal ==
  Finished => \A k \in DOMAIN tokens :
    LET t == tokens[k]
    IN  t.kind # "end" =>
          /\ IsLexeme(Lexeme(t))
          /\ \A n \in t.to + 1..Len(text) : ~IsLexeme(SubSeq(text, t.from + 1, n))
          /\ t.kind = "keyword" <=> Lexeme(t) = Keyword

(* The location of a token is that of its lexeme if the newlines inside        *)
(* strings are taken for ordinary characters; but it begins with the           *)
(* characters in front of it that were complained of, or skipped after a '#'.  *)
InToken(k) == \E i \in DOMAIN tokens : tokens[i].from < k /\ k <= tokens[i].to
LineBreaks(n) == {k \in 1..n : text[k] = Newline /\ ~InToken(k)}
Place(n) == [line |-> 1 + Cardinality(LineBreaks(n)),
             column |-> 1 + n - Longest(LineBreaks(n))]

InDirective(k) ==
  \E h \in 1..k : /\ text[h] = "#" /\ ~InToken(h)
                  /\ \A j \in h..k : text[j] # Newline
Skipped(k) ==
  ~InToken(k) /\ (InDirective(k) \/ text[k] \notin Blanks \union {Newline})
SkippedBefore(n) == Longest({j \in 1..n : \A k \in n - j + 1..n : Skipped(k)})

LocationsRight ==
  Finished => \A i \in DOMAIN tokens :
    LET from == tokens[i].from
    IN  /\ tokens[i].begin = Place(from - SkippedBefore(from))
        /\ tokens[i].end = Place(tokens[i].to)

(* A complaint names the line of the input that the character is on, newlines  *)
(* inside strings counted (the locations of tokens do not count them).         *)
ComplaintsNameLines ==
  Finished => \A i \in DOMAIN messages :
    messages[i].line =
      1 + Cardinality({k \in 1..messages[i].at : text[k] = Newline})

(* An integer constant that an int can hold is read as what it says.          *)
IntegersReadBack ==
  Finished => \A i \in DOMAIN tokens :
    (tokens[i].kind = "integer" /\ Number(Lexeme(tokens[i])) < 2 ^ (IntBits - 1))
      => tokens[i].value = Number(Lexeme(tokens[i]))
=============================================================================
