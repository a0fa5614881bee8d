------------------------------- MODULE MCTextOut ------------------------------
(***************************************************************************)
(* A small instance of TextOut for TLC: every set of flags with widths and *)
(* precisions around the lengths of the numbers and of the array.          *)
(***************************************************************************)
EXTENDS TextOut

Ordinary == {"a", "\n"}

AllBytes == OwnBytes \cup {"a", "\n", "80", "C0", "E0"}

Outside == {"a", "80", NUL}

Letters == {<<>>, <<"a">>, <<"C0", "80">>, <<"a", "E0", "80", "80">>}

Integer ==
  {Directive("d", flags, width, prec, n) :
     flags \in SUBSET Flag, width \in {0, 2, 3, 8, -3}, prec \in {NoPrec, 0, 2, -1}, n \in {0, 42, -5}}
  \cup {Directive(spec, flags, width, prec, n) :
     spec \in Unsigned, flags \in SUBSET {"zero", "left", "hash"}, width \in {0, 3},
     prec \in {NoPrec, 2}, n \in {0, 27}}

Float ==
  {Directive("f", flags, width, prec, [negative |-> neg, whole |-> w, eighths |-> e]) :
     flags \in SUBSET {"zero", "left", "plus"}, width \in {0, 4}, prec \in {NoPrec, 0, 1, 2},
     neg \in BOOLEAN, w \in {0, 9, 50}, e \in {0, 1, 4, 5, 7}}

Text ==
  {Directive("s", flags, width, prec, letters) :
     flags \in SUBSET {"left"}, width \in {0, 3, 8}, prec \in {NoPrec, 1, -1}, letters \in Letters}
  \cup {Directive("c", flags, width, NoPrec, byte) :
     flags \in SUBSET {"left"}, width \in {0, 3, 8}, byte \in {"a", NUL}}
  \cup {Directive("other", {}, 0, NoPrec, byte) : byte \in {"a", NUL}}
  \cup {Directive("%", {}, 0, NoPrec, <<>>)}

All == [integer |-> Integer, float |-> Float, text |-> Text]
=============================================================================
