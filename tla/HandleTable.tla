---------------------------- MODULE HandleTable ----------------------------
(***************************************************************************)
(* What a plugin may rely on when it holds a handle (Timer, Forward, Menu, *)
(* ...): a partial map from integer ids to objects.  A new object gets an  *)
(* id that no live handle uses, a handle keeps its object until it is      *)
(* freed, and only a freed id may come to mean something else.             *)
(***************************************************************************)
CONSTANTS
  Object,        \* the objects handles stand for
  Id             \* the ids a handle may have

VARIABLE table           \* live handles: a function from some ids to Object

NoHandles == [id \in {} |-> {}]

Init == table = NoHandles

\* A handle is given out: any id that is not in use may be chosen.
Bind(id, data) ==
  /\ id \notin DOMAIN table
  /\ table' = [i \in DOMAIN table \cup {id} |-> IF i = id THEN data ELSE table[i]]

\* A handle is given back; the other handles are untouched.
Unbind(id) ==
  /\ id \in DOMAIN table
  /\ table' = [i \in DOMAIN table \ {id} |-> table[i]]

\* All handles are dropped at once.
Reset == table' = NoHandles

Next ==
  \/ \E id \in Id, data \in Object : Bind(id, data)
  \/ \E id \in DOMAIN table : Unbind(id)
  \/ Reset

Spec == Init /\ [][Next]_table
============================================================================
