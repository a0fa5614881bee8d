--------------------------- MODULE MCForwardMngr ---------------------------
(***************************************************************************)
(* Instances of the forward system: one adapter with two plugins, and two  *)
(* adapters with a plugin each.                                            *)
(***************************************************************************)
EXTENDS ForwardMngr, TLC

CONSTANTS p1, p2

OneAdapter == << <<p1, p2>> >>

TwoAdapters == << <<p1>>, <<p2>> >>

\* The exec types that fold: stop at the answer asked for, keep the highest one.
TwoTypes == {{"Stop"}, {"Highest"}}
AllTypes == SUBSET {"Stop", "Highest"}

\* A failed call, an answer that stops and a higher one.
SomeAnswers == {-1, 1, 2}
AllAnswers == -1..2

\* One of each, for the run that is not about results.
OneType == {{}}
SameAnswer == {0}

Symmetry == Permutations(Fwd) \cup Permutations(Value)
============================================================================
