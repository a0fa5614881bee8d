----------------------------- MODULE MCMenuMngr -----------------------------
(* MenuMngr with a menu that is destroyed when an item was selected and a   *)
(* global one that stays, either with items or a text.                      *)
EXTENDS MenuMngr

CONSTANTS m1, m2

TwoMenus ==
  [m \in {m1, m2} |-> {<<style, m = m2>> : style \in {"Item", "Text"}}]
=============================================================================
