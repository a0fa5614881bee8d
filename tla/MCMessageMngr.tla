--------------------------- MODULE MCMessageMngr ---------------------------
(***************************************************************************)
(* Instances of the message manager.  Types, hooks and values are          *)
(* interchangeable.                                                        *)
(***************************************************************************)
EXTENDS MessageMngr, TLC

Symmetry == Permutations(Type) \cup Permutations(Hook) \cup Permutations(Value)
============================================================================
