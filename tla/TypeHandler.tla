---------------------------- MODULE TypeHandler ----------------------------
(***************************************************************************)
(* TypeHandler<T> of the SourcePawn adapter (TypeHandler.hpp): the id      *)
(* table behind every object handle a plugin holds.  m_handlers maps ids   *)
(* to object pointers; a freed id keeps its entry with a null pointer and  *)
(* waits in the queue m_freeIds until create() hands it out again.  Ids    *)
(* never leave m_handlers (only clear() empties it), so a new id is the    *)
(* size of the map.                                                        *)
(***************************************************************************)
EXTENDS Integers, Sequences, FiniteSets

CONSTANTS
  Object,        \* objects that can be registered
  NULL,          \* nullptr
  MaxIds,        \* bound on the number of ids ever created between clears
  CreatesNull    \* TRUE if a native may register a null pointer

ASSUME NullIsNoObject == NULL \notin Object
ASSUME MaxIdsIsNat    == MaxIds \in Nat
ASSUME CreatesNullIsBool == CreatesNull \in BOOLEAN

VARIABLES
  handlers,      \* m_handlers: function from ids to Object \cup {NULL}
  freeIds        \* m_freeIds: queue of ids whose object was freed

tableVars == <<handlers, freeIds>>

Data == IF CreatesNull THEN Object \cup {NULL} ELSE Object

Ids == DOMAIN handlers

Size == Cardinality(Ids)

Empty == [id \in {} |-> NULL]

TableInit ==
  /\ handlers = Empty
  /\ freeIds = <<>>

----------------------------------------------------------------------------
\* The id create() takes: the oldest freed one, else the size of the map.
NewId ==
  IF freeIds # <<>> THEN Head(freeIds) ELSE Size

\* m_handlers[id] = data
Store(id, data) ==
  [i \in Ids \cup {id} |-> IF i = id THEN data ELSE handlers[i]]

\* create(): data is NULL when the caller registers a pointer it did not test.
Create(data) ==
  /\ NewId < MaxIds
  /\ handlers' = Store(NewId, data)
  /\ freeIds' = IF freeIds # <<>> THEN Tail(freeIds) ELSE freeIds

\* get(): the object, or NULL for an unknown or a freed id.
Get(id) == IF id \in Ids THEN handlers[id] ELSE NULL

\* getKey(): any id whose entry is that pointer (hash order), -1 if none.
KeysOf(data) ==
  LET keys == {id \in Ids : handlers[id] = data}
  IN  IF keys = {} THEN {-1} ELSE keys

CanFreeTwice(id) == id \in Ids     \* mutant: a freed id is accepted again

\* The test at the top of free(): unknown ids and freed ids are ignored.
CanFree(id) == Get(id) # NULL

FreeForgets(id) ==        \* mutant: the id is not queued
  /\ CanFree(id)
  /\ handlers' = [handlers EXCEPT ![id] = NULL]
  /\ UNCHANGED freeIds

\* free()
Free(id) ==
  /\ CanFree(id)
  /\ handlers' = [handlers EXCEPT ![id] = NULL]
  /\ freeIds' = Append(freeIds, id)

\* clear()
Clear ==
  /\ handlers' = Empty
  /\ freeIds' = <<>>

TableNext ==
  \/ \E data \in Data : Create(data)
  \/ \E id \in Ids : Free(id)
  \/ Clear

TableSpec == TableInit /\ [][TableNext]_tableVars

----------------------------------------------------------------------------
TableTypeOK ==
  /\ handlers \in [0..Size-1 -> Object \cup {NULL}]
  /\ Size \in 0..MaxIds
  /\ freeIds \in Seq(0..MaxIds-1)

\* An id waits for reuse at most once, and only while its entry is null:
\* otherwise create() would give one id to two objects.
FreeIdsAreFree ==
  /\ \A k \in 1..Len(freeIds) : freeIds[k] \in Ids /\ handlers[freeIds[k]] = NULL
  /\ \A j, k \in 1..Len(freeIds) : freeIds[j] = freeIds[k] => j = k

\* The strengthening that the proofs use.
TableIInv == TableTypeOK /\ FreeIdsAreFree

\* No id is lost: one that stands for no object waits for reuse, so the table
\* grows only as far as the largest number of objects registered at a time.
NoLostId == \A id \in Ids : handlers[id] = NULL => \E k \in 1..Len(freeIds) : freeIds[k] = id

\* The table and its queue account for every id, whatever plugins register and
\* free in a map: none is handed out twice and none is wasted.
IdsAccountedFor == TableTypeOK /\ FreeIdsAreFree /\ NoLostId

\* Handles as plugins see them: the non-null entries.
Live == {id \in Ids : handlers[id] # NULL}

LiveTable == [id \in Live |-> handlers[id]]

Table == INSTANCE HandleTable WITH Id <- 0..MaxIds-1, table <- LiveTable

\* Every step of the table is one a plugin may rely on: create() never takes
\* over a live handle and free() drops exactly the handle it is given.
ImplementsHandleTable == Table!Spec
============================================================================
