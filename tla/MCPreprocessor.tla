---------------------------- MODULE MCPreprocessor ----------------------------
(***************************************************************************)
(* Instances of Preprocessor for TLC: texts of a few lines, each a            *)
(* definition, a use or a comment that meets a rule at one of its edges.      *)
(***************************************************************************)
EXTENDS Preprocessor

CONSTANT MaxLines  (* bound: lines of a text                                 *)

ABxy == <<"A", "B", "x", "y">>

Definitions ==
  {<<"#define ", "A", " ", "A", "x", Newline>>,
   <<"#define ", "A", " ", "B", "(", "A", ")", Newline>>,
   <<"#define ", "A", " ", "x", "\\", Newline>>,
   <<"#define ", "A", " ", Newline>>,
   <<"#define ", "A", Newline>>,
   <<"#define ", "B", "(", "x", ")", " ", "x", "A", "x", Newline>>,
   <<"#define ", "B", "(", "x", " ", ",", "y", ")", "x", "y", "x", Newline>>,
   <<"#define ", "B", "(", "x", "y", ")", "x", "x", "y", Newline>>,
   <<"#define ", "B", "(", ")", " ", "y", Newline>>}

Uses ==
  {<<"A", "A", Newline>>,
   <<"B", Newline>>,
   <<"B", " ", "(", " ", "y", ")", Newline>>,
   <<"B", "(", "A", "x", ")", "x", Newline>>,
   <<"x", "B", "(", "A", ",", "x", Newline>>,
   <<"B", "(", "y", "y", "x", "x", ")", Newline>>,
   <<"B", "(", "A", Newline>>}

Others ==
  {<<Newline>>,
   <<"x", "/*", "A", Newline>>,
   <<"//", "*/", "x", "/*", "//", Newline>>,
   <<"/*", "y", "*/", "x", "//", Newline>>,
   <<"x", "*/", "x", "*/", "/*", Newline>>,
   <<"#include<", "x", ">", "//", "B", Newline>>,
   <<"#include<", "x", " ", ">", Newline>>,
   <<"x">>}

Texts[n \in 0..MaxLines] ==
  IF n = 0 THEN {<<>>}
  ELSE Texts[n - 1] \union
       {line \o rest : line \in Definitions \union Uses \union Others,
                       rest \in Texts[n - 1]}

ShortTexts == Texts[MaxLines]
=============================================================================
