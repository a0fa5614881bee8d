-------------------------- MODULE TimerMngr_proofs --------------------------
(***************************************************************************)
(* Proofs about handle tables, and about the timers one of them is for.    *)
(*                                                                         *)
(* The table comes first, by itself: whatever sequence of create(), free() *)
(* and clear() there is, for every set of objects, every bound on the ids, *)
(* and whether or not null pointers are registered.  Its inductive         *)
(* invariant is TableIInv: ids are dense (TableTypeOK), and the queue      *)
(* holds each of its ids once and only ids without an object               *)
(* (FreeIdsAreFree).                                                       *)
(*                                                                         *)
(* The timers use these steps among their own.  Their proofs are for any   *)
(* timers, intervals, periods and depth of nesting.  While callbacks erase *)
(* no timers, a walk stays where it was (WalkStays) and leaves nothing     *)
(* behind that is due, and handles stay with their timers (TriggersHold).  *)
(***************************************************************************)
EXTENDS TimerMngr, FiniteSetTheorems, SequenceTheorems, TLAPS

----------------------------------------------------------------------------
(* The table.                                                              *)

\* An interval of ids that starts at zero has as many elements as its bound.
LEMMA SizeOfIds ==
  ASSUME NEW n \in Nat
  PROVE  Cardinality(0..n-1) = n
<1>1. Cardinality(0..n-1) = IF 0 > n-1 THEN 0 ELSE (n-1) - 0 + 1
  BY FS_Interval
<1>2. QED
  BY <1>1

\* The id create() takes is a new one or stands for no object, so storing
\* there never overwrites a live entry, and the domain stays dense.
LEMMA NewIdIsFree ==
  ASSUME TableIInv, NewId < MaxIds
  PROVE  /\ NewId \in 0..MaxIds-1
         /\ NewId \notin Live
         /\ Ids = 0..Size-1
         /\ \/ freeIds # <<>> /\ NewId \in Ids
            \/ freeIds = <<>> /\ NewId = Size /\ Ids \cup {NewId} = 0..Size
<1> USE MaxIdsIsNat DEF TableIInv, TableTypeOK, FreeIdsAreFree
<1>1. Ids = 0..Size-1 /\ Size \in Nat
  BY DEF Ids
<1>2. CASE freeIds # <<>>
  <2>1. NewId = freeIds[1] /\ 1 \in 1..Len(freeIds)
    BY <1>2 DEF NewId
  <2>2. NewId \in Ids /\ handlers[NewId] = NULL
    BY <2>1
  <2>3. QED
    BY <1>1, <1>2, <2>2 DEF Live
<1>3. CASE freeIds = <<>>
  <2>1. NewId = Size
    BY <1>3 DEF NewId
  <2>2. QED
    BY <1>1, <1>3, <2>1 DEF Live
<1>4. QED
  BY <1>2, <1>3

\* The empty table satisfies the inductive invariant.
LEMMA TableInitIInv == TableInit => TableIInv
<1> SUFFICES ASSUME TableInit PROVE TableIInv
  OBVIOUS
<1>1. Ids = {} /\ {} = 0..0-1
  BY DEF TableInit, Ids, Empty
<1>2. Size = 0
  BY <1>1, SizeOfIds DEF Size
<1>3. QED
  BY <1>1, <1>2, MaxIdsIsNat DEF TableInit, TableIInv, TableTypeOK, FreeIdsAreFree, Empty, Ids

\* create() keeps ids dense; the id leaves the queue, which held it once.
LEMMA CreateKeepsIInv ==
  ASSUME TableIInv, NEW data \in Data, Create(data)
  PROVE  TableIInv'
<1> DEFINE id == NewId
<1> USE MaxIdsIsNat
<1>1. /\ id \in 0..MaxIds-1 /\ id < MaxIds
      /\ Ids = 0..Size-1
      /\ \/ freeIds # <<>> /\ id \in Ids
         \/ freeIds = <<>> /\ id = Size /\ Ids \cup {id} = 0..Size
  BY NewIdIsFree DEF Create
<1>2. /\ handlers' = Store(id, data)
      /\ Ids' = Ids \cup {id}
  BY DEF Create, Store, Ids
<1>3. data \in Object \cup {NULL}
  BY DEF Data
<1>4. handlers \in [0..Size-1 -> Object \cup {NULL}] /\ Size \in 0..MaxIds
  BY DEF TableIInv, TableTypeOK
<1>5. Ids' = 0..Size'-1 /\ Size' \in 0..MaxIds
  <2>1. CASE freeIds # <<>>
    BY <1>1, <1>2, <1>4, <2>1 DEF Size
  <2>2. CASE freeIds = <<>>
    <3>1. Ids' = 0..(Size+1)-1 /\ Size+1 \in Nat
      BY <1>1, <1>2, <1>4, <2>2
    <3>2. Size' = Size + 1
      BY <3>1, SizeOfIds DEF Size
    <3>3. QED
      BY <1>1, <1>4, <2>2, <3>1, <3>2
  <2>3. QED
    BY <2>1, <2>2
<1>6. handlers' \in [0..Size'-1 -> Object \cup {NULL}]
  BY <1>1, <1>2, <1>3, <1>4, <1>5 DEF Store
<1>7. freeIds' \in Seq(0..MaxIds-1) /\ FreeIdsAreFree'
  <2>1. CASE freeIds = <<>>
    BY <1>2, <2>1 DEF Create, FreeIdsAreFree
  <2>2. CASE freeIds # <<>>
    <3>1. freeIds' = Tail(freeIds) /\ id = freeIds[1]
      BY <2>2 DEF Create, NewId, TableIInv, TableTypeOK
    <3>2. freeIds \in Seq(0..MaxIds-1)
      BY DEF TableIInv, TableTypeOK
    <3>3. /\ freeIds' \in Seq(0..MaxIds-1)
          /\ Len(freeIds') = Len(freeIds) - 1
          /\ \A k \in 1..Len(freeIds') : freeIds'[k] = freeIds[k+1]
      BY <2>2, <3>1, <3>2, HeadTailProperties
    <3>4. Len(freeIds) \in Nat \ {0}
      BY <2>2, <3>2
    <3>5. \A k \in 1..Len(freeIds') : k+1 \in 1..Len(freeIds) /\ k+1 # 1
      BY <3>3, <3>4
    <3>6. \A k \in 1..Len(freeIds') : freeIds'[k] # id
      BY <3>1, <3>3, <3>4, <3>5 DEF TableIInv, FreeIdsAreFree
    <3>7. \A k \in 1..Len(freeIds') :
             freeIds'[k] \in Ids /\ handlers[freeIds'[k]] = NULL
      <4>1. \A k \in 1..Len(freeIds) : freeIds[k] \in Ids /\ handlers[freeIds[k]] = NULL
        BY DEF TableIInv, FreeIdsAreFree
      <4>2. QED
        BY <3>3, <3>5, <4>1
    <3>8. \A k \in 1..Len(freeIds') :
             freeIds'[k] \in Ids' /\ handlers'[freeIds'[k]] = NULL
      BY <1>2, <3>6, <3>7 DEF Store
    <3>9. \A j, k \in 1..Len(freeIds') : freeIds'[j] = freeIds'[k] => j = k
      <4> SUFFICES ASSUME NEW j \in 1..Len(freeIds'), NEW k \in 1..Len(freeIds'),
                          freeIds'[j] = freeIds'[k]
                   PROVE  j = k
        OBVIOUS
      <4>1. /\ j+1 \in 1..Len(freeIds) /\ k+1 \in 1..Len(freeIds)
            /\ freeIds[j+1] = freeIds[k+1]
        BY <3>3, <3>5
      <4>2. j+1 = k+1
        BY <4>1 DEF TableIInv, FreeIdsAreFree
      <4>3. QED
        BY <3>3, <3>4, <4>2
    <3>10. QED
      BY <3>3, <3>8, <3>9 DEF FreeIdsAreFree
  <2>3. QED
    BY <2>1, <2>2
<1>8. QED
  BY <1>5, <1>6, <1>7 DEF TableIInv, TableTypeOK

\* free() puts an id in the queue only when it had an object, so the queue
\* did not hold it yet.
LEMMA FreeKeepsIInv ==
  ASSUME TableIInv, NEW id \in Ids, Free(id)
  PROVE  TableIInv'
<1> USE MaxIdsIsNat
<1>1. handlers' = [handlers EXCEPT ![id] = NULL] /\ handlers[id] # NULL
  BY DEF Free, CanFree, Get
<1>2. Ids' = Ids /\ Size' = Size
  BY <1>1 DEF Ids, Size
<1>3. /\ handlers \in [0..Size-1 -> Object \cup {NULL}]
      /\ Size \in 0..MaxIds
      /\ freeIds \in Seq(0..MaxIds-1)
      /\ id \in 0..MaxIds-1
  BY DEF TableIInv, TableTypeOK, Ids
<1>4. /\ freeIds' \in Seq(0..MaxIds-1)
      /\ Len(freeIds') = Len(freeIds) + 1
      /\ \A k \in 1..Len(freeIds) : freeIds'[k] = freeIds[k]
      /\ freeIds'[Len(freeIds) + 1] = id
  <2>1. freeIds' = Append(freeIds, id)
    BY DEF Free
  <2>2. QED
    BY <1>3, <2>1, AppendProperties
<1>5. handlers' \in [0..Size'-1 -> Object \cup {NULL}]
  BY <1>1, <1>2, <1>3
<1>6. \A k \in 1..Len(freeIds) :
         freeIds[k] \in Ids /\ handlers[freeIds[k]] = NULL /\ freeIds[k] # id
  BY <1>1 DEF TableIInv, FreeIdsAreFree
<1>7. \A k \in 1..Len(freeIds') :
         freeIds'[k] \in Ids' /\ handlers'[freeIds'[k]] = NULL
  <2> SUFFICES ASSUME NEW k \in 1..Len(freeIds')
               PROVE  freeIds'[k] \in Ids' /\ handlers'[freeIds'[k]] = NULL
    OBVIOUS
  <2>1. CASE k \in 1..Len(freeIds)
    BY <1>1, <1>2, <1>4, <1>6, <2>1 DEF Ids
  <2>2. CASE k = Len(freeIds) + 1
    BY <1>1, <1>2, <1>4, <2>2 DEF Ids
  <2>3. QED
    BY <1>3, <1>4, <2>1, <2>2
<1>8. \A j, k \in 1..Len(freeIds') : freeIds'[j] = freeIds'[k] => j = k
  <2>1. \A j \in 1..Len(freeIds') : j \in 1..Len(freeIds) \/ j = Len(freeIds) + 1
    BY <1>3, <1>4
  <2>2. QED
    BY <1>4, <1>6, <2>1 DEF TableIInv, FreeIdsAreFree
<1>9. QED
  BY <1>2, <1>3, <1>4, <1>5, <1>7, <1>8 DEF TableIInv, TableTypeOK, FreeIdsAreFree

\* clear() leaves a table and a queue that satisfy the inductive invariant.
LEMMA ClearGivesIInv ==
  ASSUME Clear
  PROVE  TableIInv'
<1>1. Ids' = {} /\ {} = 0..0-1
  BY DEF Clear, Ids, Empty
<1>2. Size' = 0
  BY <1>1, SizeOfIds DEF Size
<1>3. QED
  BY <1>1, <1>2, MaxIdsIsNat DEF Clear, TableIInv, TableTypeOK, FreeIdsAreFree, Empty, Ids

\* Every step of the table keeps the inductive invariant.
LEMMA StepKeepsIInv == TableIInv /\ [TableNext]_tableVars => TableIInv'
<1> SUFFICES ASSUME TableIInv, [TableNext]_tableVars PROVE TableIInv'
  OBVIOUS
<1>1. ASSUME NEW data \in Data, Create(data) PROVE TableIInv'
  BY <1>1, CreateKeepsIInv
<1>2. ASSUME NEW id \in Ids, Free(id) PROVE TableIInv'
  BY <1>2, FreeKeepsIInv
<1>3. CASE Clear
  BY <1>3, ClearGivesIInv
<1>4. CASE UNCHANGED tableVars
  BY <1>4 DEF tableVars, TableIInv, TableTypeOK, FreeIdsAreFree, Ids, Size
<1>5. QED
  BY <1>1, <1>2, <1>3, <1>4 DEF TableNext

\* The ids are dense and the queue of freed ids is sound in every behaviour.
THEOREM TableInductiveInvariant == TableSpec => []TableIInv
<1>1. QED
  BY TableInitIInv, StepKeepsIInv, PTL DEF TableSpec

\* m_handlers and m_freeIds always have the shape create() and free() expect.
THEOREM TableTypeCorrect == TableSpec => []TableTypeOK
<1>1. TableIInv => TableTypeOK
  BY DEF TableIInv
<1>2. QED
  BY <1>1, TableInductiveInvariant, PTL

\* No id waits for reuse twice or while it stands for an object, so free()
\* called with a stale handle can never make create() share an id.
THEOREM FreedIdsAreFree == TableSpec => []FreeIdsAreFree
<1>1. TableIInv => FreeIdsAreFree
  BY DEF TableIInv
<1>2. QED
  BY <1>1, TableInductiveInvariant, PTL

----------------------------------------------------------------------------
\* The entry create() fills was the one the head of the queue led to; every
\* other freed id still waits, one place nearer to the head.
LEMMA CreateLosesNoId ==
  ASSUME ~CreatesNull, TableIInv, NoLostId, NEW data \in Data, Create(data)
  PROVE  NoLostId'
<1>1. data # NULL
  BY NullIsNoObject DEF Data
<1>2. /\ handlers' = Store(NewId, data)
      /\ Ids' = Ids \cup {NewId}
  BY DEF Create, Store, Ids
<1>3. freeIds \in Seq(0..MaxIds-1)
  BY DEF TableIInv, TableTypeOK
<1> SUFFICES ASSUME NEW i \in Ids', handlers'[i] = NULL
             PROVE  \E k \in 1..Len(freeIds') : freeIds'[k] = i
  BY DEF NoLostId
<1>4. i \in Ids /\ i # NewId /\ handlers[i] = NULL
  BY <1>1, <1>2 DEF Store
<1>5. PICK k \in 1..Len(freeIds) : freeIds[k] = i
  BY <1>4 DEF NoLostId
<1>6. freeIds # <<>> /\ freeIds' = Tail(freeIds) /\ NewId = freeIds[1]
  BY <1>3, <1>5 DEF Create, NewId
<1>7. /\ Len(freeIds') = Len(freeIds) - 1
      /\ \A j \in 1..Len(freeIds') : freeIds'[j] = freeIds[j+1]
  BY <1>3, <1>6, HeadTailProperties
<1>8. Len(freeIds) \in Nat /\ k \in Nat /\ k # 1
  BY <1>3, <1>4, <1>5, <1>6
<1>9. k-1 \in 1..Len(freeIds') /\ (k-1)+1 = k
  BY <1>5, <1>7, <1>8
<1>10. freeIds'[k-1] = i
  BY <1>5, <1>7, <1>9
<1>11. QED
  BY <1>9, <1>10

\* free() empties one more entry and queues that id.
LEMMA FreeLosesNoId ==
  ASSUME TableIInv, NoLostId, NEW id \in Ids, Free(id)
  PROVE  NoLostId'
<1>1. handlers' = [handlers EXCEPT ![id] = NULL] /\ Ids' = Ids
  BY DEF Free, Ids
<1>2. /\ Len(freeIds') = Len(freeIds) + 1 /\ Len(freeIds) \in Nat
      /\ \A k \in 1..Len(freeIds) : freeIds'[k] = freeIds[k]
      /\ freeIds'[Len(freeIds) + 1] = id
  <2>1. freeIds' = Append(freeIds, id) /\ freeIds \in Seq(0..MaxIds-1) /\ id \in 0..MaxIds-1
    BY MaxIdsIsNat DEF Free, TableIInv, TableTypeOK, Ids
  <2>2. QED
    BY <2>1, AppendProperties
<1> SUFFICES ASSUME NEW i \in Ids', handlers'[i] = NULL
             PROVE  \E k \in 1..Len(freeIds') : freeIds'[k] = i
  BY DEF NoLostId
<1>3. CASE i = id
  BY <1>2, <1>3
<1>4. CASE i # id
  <2>1. PICK k \in 1..Len(freeIds) : freeIds[k] = i
    BY <1>1, <1>4 DEF NoLostId, Ids
  <2>2. QED
    BY <1>2, <2>1
<1>5. QED
  BY <1>3, <1>4

\* A table that no null pointer is registered in never loses an id.
LEMMA StepLosesNoId ==
  ASSUME ~CreatesNull
  PROVE  TableIInv /\ NoLostId /\ [TableNext]_tableVars => NoLostId'
<1> SUFFICES ASSUME TableIInv, NoLostId, [TableNext]_tableVars PROVE NoLostId'
  OBVIOUS
<1>1. ASSUME NEW data \in Data, Create(data) PROVE NoLostId'
  BY <1>1, CreateLosesNoId
<1>2. ASSUME NEW id \in Ids, Free(id) PROVE NoLostId'
  BY <1>2, FreeLosesNoId
<1>3. CASE Clear
  BY <1>3 DEF Clear, NoLostId, Ids, Empty
<1>4. CASE UNCHANGED tableVars
  BY <1>4 DEF tableVars, NoLostId, Ids
<1>5. QED
  BY <1>1, <1>2, <1>3, <1>4 DEF TableNext

\* Where no native registers a null pointer, the table accounts for every id:
\* the next create() takes a freed id whenever there is one, and the table is
\* never larger than the most objects that were registered at a time.
THEOREM IdsAreAccountedFor ==
  ASSUME ~CreatesNull
  PROVE  TableSpec => []IdsAccountedFor
<1>1. TableInit => NoLostId
  BY DEF TableInit, NoLostId, Ids, Empty
<1>2. TableIInv /\ NoLostId /\ [TableNext]_tableVars => NoLostId'
  BY StepLosesNoId
<1>3. TableIInv /\ NoLostId => IdsAccountedFor
  BY DEF TableIInv, IdsAccountedFor
<1>4. QED
  BY <1>1, <1>2, <1>3, TableInductiveInvariant, PTL DEF TableSpec

----------------------------------------------------------------------------
\* The empty table stands for the abstract table without handles.
LEMMA InitSimulation == TableInit => Table!Init
<1> SUFFICES ASSUME TableInit PROVE LiveTable = Table!NoHandles
  BY DEF Table!Init
<1>1. Live = {}
  BY DEF TableInit, Live, Ids, Empty
<1>2. QED
  BY <1>1 DEF LiveTable, Table!NoHandles

\* A create() of an object binds an id no live handle uses; a create() of a
\* null pointer changes nothing a plugin can see.
LEMMA CreateSimulation ==
  ASSUME TableIInv, NEW data \in Data, Create(data)
  PROVE  [Table!Next]_LiveTable
<1> DEFINE id == NewId
<1>1. id \in 0..MaxIds-1 /\ id \notin Live
  BY NewIdIsFree DEF Create
<1>2. /\ handlers' = Store(id, data)
      /\ Ids' = Ids \cup {id}
      /\ handlers'[id] = data
      /\ \A i \in Ids \ {id} : handlers'[i] = handlers[i]
  BY DEF Create, Store, Ids
<1>3. CASE data = NULL
  <2>1. Live' = Live
    BY <1>1, <1>2, <1>3 DEF Live
  <2>2. \A i \in Live : handlers'[i] = handlers[i]
    BY <1>1, <1>2 DEF Live
  <2>3. QED
    BY <2>1, <2>2 DEF LiveTable
<1>4. CASE data # NULL
  <2>1. data \in Object
    BY <1>4 DEF Data
  <2>2. Live' = Live \cup {id}
    BY <1>1, <1>2, <1>4 DEF Live
  <2>3. LiveTable' = [i \in Live \cup {id} |-> IF i = id THEN data ELSE handlers[i]]
    BY <1>1, <1>2, <2>2 DEF LiveTable, Live
  <2>4. LiveTable' = [i \in DOMAIN LiveTable \cup {id} |->
                          IF i = id THEN data ELSE LiveTable[i]]
    BY <2>3 DEF LiveTable
  <2>5. Table!Bind(id, data)
    BY <1>1, <2>4 DEF Table!Bind, LiveTable
  <2>6. QED
    BY <1>1, <2>1, <2>5 DEF Table!Next
<1>5. QED
  BY <1>3, <1>4

\* free() of a live handle unbinds that handle and no other.
LEMMA FreeSimulation ==
  ASSUME TableIInv, NEW id \in Ids, Free(id)
  PROVE  Table!Next
<1>1. /\ handlers' = [handlers EXCEPT ![id] = NULL]
      /\ handlers[id] # NULL
      /\ Ids' = Ids
  BY DEF Free, CanFree, Get, Ids
<1>2. Live' = Live \ {id} /\ id \in Live
  BY <1>1 DEF Live, Ids
<1>3. LiveTable' = [i \in DOMAIN LiveTable \ {id} |-> LiveTable[i]]
  BY <1>1, <1>2 DEF LiveTable, Live, Ids
<1>4. id \in DOMAIN LiveTable
  BY <1>2 DEF LiveTable
<1>5. QED
  BY <1>3, <1>4 DEF Table!Next, Table!Unbind

\* clear() drops all abstract handles at once.
LEMMA ClearSimulation == Clear => Table!Next
<1> SUFFICES ASSUME Clear PROVE LiveTable' = Table!NoHandles
  BY DEF Table!Next, Table!Reset
<1>1. Live' = {}
  BY DEF Clear, Live, Ids, Empty
<1>2. QED
  BY <1>1 DEF LiveTable, Table!NoHandles

\* Whatever sequence of create(), free() and clear() the natives make, a
\* plugin sees a handle table: an id in use is never given to another object
\* and a free() drops the one handle it names.
THEOREM Refinement == TableSpec => ImplementsHandleTable
<1>1. TableIInv /\ [TableNext]_tableVars => [Table!Next]_LiveTable
  <2> SUFFICES ASSUME TableIInv, [TableNext]_tableVars PROVE [Table!Next]_LiveTable
    OBVIOUS
  <2>1. ASSUME NEW data \in Data, Create(data) PROVE [Table!Next]_LiveTable
    BY <2>1, CreateSimulation
  <2>2. ASSUME NEW id \in Ids, Free(id) PROVE [Table!Next]_LiveTable
    BY <2>2, FreeSimulation
  <2>3. CASE Clear
    BY <2>3, ClearSimulation
  <2>4. CASE UNCHANGED tableVars
    BY <2>4 DEF tableVars, LiveTable, Live, Ids
  <2>5. QED
    BY <2>1, <2>2, <2>3, <2>4 DEF TableNext
<1>2. QED
  BY <1>1, InitSimulation, TableInductiveInvariant, PTL
     DEF TableSpec, ImplementsHandleTable, Table!Spec
----------------------------------------------------------------------------
(* Timers: the stack of executions and the vector.                         *)

USE DEF Timer, BadInterval

\* The stack with an execution on top.
LEMMA PushEffect ==
  ASSUME NEW S, NEW s \in Seq(S), NEW c \in S
  PROVE  /\ Append(s, c) \in Seq(S) /\ Len(s) \in Nat /\ Len(Append(s, c)) = Len(s) + 1
         /\ DOMAIN s = 1..Len(s) /\ DOMAIN Append(s, c) = 1..Len(s) + 1
         /\ \A k \in 1..Len(s) : Append(s, c)[k] = s[k]
         /\ Append(s, c)[Len(s) + 1] = c
BY AppendProperties

\* The stack without its top.
LEMMA PopEffect ==
  ASSUME NEW S, NEW s \in Seq(S), s # <<>>
  PROVE  /\ SubSeq(s, 1, Len(s) - 1) \in Seq(S)
         /\ Len(SubSeq(s, 1, Len(s) - 1)) = Len(s) - 1
         /\ DOMAIN SubSeq(s, 1, Len(s) - 1) = 1..Len(s) - 1
         /\ Len(s) \in Nat \ {0} /\ DOMAIN s = 1..Len(s)
         /\ \A k \in 1..Len(s) - 1 : SubSeq(s, 1, Len(s) - 1)[k] = s[k]
<1>1. Len(s) \in Nat \ {0} /\ Len(s) - 1 \in Nat
  OBVIOUS
<1>2. ASSUME NEW n \in Nat, n = Len(s) - 1
      PROVE  Len(SubSeq(s, 1, n)) = n
  BY <1>2
<1>3. Len(SubSeq(s, 1, Len(s) - 1)) = Len(s) - 1
  BY <1>1, <1>2
<1>4. SubSeq(s, 1, Len(s) - 1) \in Seq(S)
  OBVIOUS
<1>5. \A k \in 1..Len(s) - 1 : SubSeq(s, 1, Len(s) - 1)[k] = s[k]
  OBVIOUS
<1>6. DOMAIN SubSeq(s, 1, Len(s) - 1) = 1..Len(s) - 1
  BY <1>3, <1>4
<1>7. QED
  BY <1>1, <1>3, <1>4, <1>5, <1>6

\* The sequence without element i: those behind it move up.
LEMMA RemoveAtEffect ==
  ASSUME NEW S, NEW s \in Seq(S), NEW i \in 1..Len(s)
  PROVE  /\ RemoveAt(s, i) \in Seq(S) /\ Len(RemoveAt(s, i)) = Len(s) - 1
         /\ \A j \in 1..Len(s) - 1 : RemoveAt(s, i)[j] = IF j < i THEN s[j] ELSE s[j + 1]
<1>1. Len(s) \in Nat /\ i \in Int /\ i - 1 \in Int /\ i + 1 \in Int
  OBVIOUS
<1>2. /\ SubSeq(s, 1, i - 1) \in Seq(S)
      /\ Len(SubSeq(s, 1, i - 1)) = i - 1
      /\ \A j \in 1..i - 1 : SubSeq(s, 1, i - 1)[j] = s[j]
  <2>1. \A j \in 1..i - 1 : s[j] \in S
    BY <1>1
  <2>2. /\ SubSeq(s, 1, i - 1) \in Seq(S)
        /\ Len(SubSeq(s, 1, i - 1)) = IF 1 <= i - 1 THEN (i - 1) - 1 + 1 ELSE 0
        /\ \A j \in 1..(i - 1) - 1 + 1 : SubSeq(s, 1, i - 1)[j] = s[1 + j - 1]
    BY <1>1, <2>1, SubSeqProperties
  <2>3. QED
    BY <1>1, <2>2
<1>3. /\ SubSeq(s, i + 1, Len(s)) \in Seq(S)
      /\ Len(SubSeq(s, i + 1, Len(s))) = Len(s) - i
      /\ \A j \in 1..Len(s) - i : SubSeq(s, i + 1, Len(s))[j] = s[i + j]
  <2>1. \A j \in i + 1..Len(s) : s[j] \in S
    BY <1>1
  <2>2. /\ SubSeq(s, i + 1, Len(s)) \in Seq(S)
        /\ Len(SubSeq(s, i + 1, Len(s))) = IF i + 1 <= Len(s) THEN Len(s) - (i + 1) + 1 ELSE 0
        /\ \A j \in 1..Len(s) - (i + 1) + 1 : SubSeq(s, i + 1, Len(s))[j] = s[(i + 1) + j - 1]
    BY <1>1, <2>1, SubSeqProperties
  <2>3. QED
    BY <1>1, <2>2
<1> DEFINE a == SubSeq(s, 1, i - 1)
<1> DEFINE b == SubSeq(s, i + 1, Len(s))
<1>4. RemoveAt(s, i) = a \o b
  BY DEF RemoveAt
<1>5. /\ a \in Seq(S) /\ Len(a) = i - 1 /\ \A j \in 1..i - 1 : a[j] = s[j]
      /\ b \in Seq(S) /\ Len(b) = Len(s) - i /\ \A j \in 1..Len(s) - i : b[j] = s[i + j]
  BY <1>2, <1>3
<1> HIDE DEF a, b
<1>6. /\ a \o b \in Seq(S) /\ Len(a \o b) = Len(a) + Len(b)
      /\ \A j \in 1..Len(a) + Len(b) : (a \o b)[j] = IF j <= Len(a) THEN a[j] ELSE b[j - Len(a)]
  BY <1>5, ConcatProperties
<1>7. ASSUME NEW j \in 1..Len(s) - 1
      PROVE  (a \o b)[j] = IF j < i THEN s[j] ELSE s[j + 1]
  <2>1. CASE j < i
    BY <1>1, <1>5, <1>6, <2>1
  <2>2. CASE ~(j < i)
    <3>1. (a \o b)[j] = b[j - (i - 1)]
      BY <1>1, <1>5, <1>6, <2>2
    <3>2. j - (i - 1) \in 1..Len(s) - i /\ i + (j - (i - 1)) = j + 1
      BY <1>1, <2>2
    <3>3. b[j - (i - 1)] = s[i + (j - (i - 1))]
      BY <1>5, <3>2
    <3>4. QED
      BY <2>2, <3>1, <3>2, <3>3
  <2>3. QED
    BY <2>1, <2>2
<1>8. QED
  BY <1>1, <1>4, <1>5, <1>6, <1>7

\* The vector with its objects is well formed.
RegistryOK ==
  /\ timers \in Seq(Timer) /\ IsInjective(timers)
  /\ capacity \in Nat /\ Len(timers) <= capacity
  /\ fields \in [Registered -> TimerObject]

\* So is the stack.
CallsOK ==
  /\ calls \in Seq(Frame) /\ Len(calls) <= MaxDepth
  /\ \A k \in DOMAIN calls : calls[k].kind = "walk" <=> k = 1 /\ calls[k].at > 0

CooldownOK == cooldown \in 0..(IF Period > MapLength THEN Period ELSE MapLength)

LEMMA Parts == TypeOK /\ FreeIdsAreFree <=> RegistryOK /\ CallsOK /\ CooldownOK /\ TableIInv
BY DEF TypeOK, RegistryOK, CallsOK, CooldownOK, TableIInv

LEMMA Numbers ==
  /\ Period \in Nat \ {0} /\ MaxElapsed \in Nat /\ MapLength \in Nat
  /\ MaxIds \in Nat /\ MaxDepth \in Nat \ {0} /\ Interval \subseteq Nat \ {0} /\ NULL \notin Timer
BY PeriodIsPos, BoundsAreNat, MaxIdsIsNat, IntervalsArePos, NullIsNoObject

\* The registered timers are the elements of the vector.
LEMMA RegisteredAre ==
  ASSUME RegistryOK
  PROVE  /\ Len(timers) \in Nat /\ DOMAIN timers = 1..Len(timers)
         /\ \A i \in 1..Len(timers) : timers[i] \in Registered
         /\ \A t \in Registered : t \in Timer /\ \E i \in 1..Len(timers) : timers[i] = t
         /\ \A i, j \in 1..Len(timers) : timers[i] = timers[j] => i = j
BY DEF RegistryOK, Registered, Range, IsInjective

\* erase() destroys one timer and moves those behind it up.
LEMMA EraseEffect ==
  ASSUME RegistryOK, NEW i \in 1..Len(timers), EraseAt(i)
  PROVE  /\ RegistryOK' /\ Len(timers') = Len(timers) - 1
         /\ \A j \in 1..Len(timers) - 1 : timers'[j] = IF j < i THEN timers[j] ELSE timers[j + 1]
         /\ Registered' = Registered \ {timers[i]}
         /\ \A t \in Registered' : fields'[t] = fields[t]
<1>1. /\ timers \in Seq(Timer) /\ Len(timers) \in Nat
      /\ capacity \in Nat /\ Len(timers) <= capacity
      /\ \A k, j \in 1..Len(timers) : timers[k] = timers[j] => k = j
  BY RegisteredAre DEF RegistryOK
<1>2. timers' = RemoveAt(timers, i) /\ capacity' = capacity
  BY DEF EraseAt
<1>3. /\ timers' \in Seq(Timer) /\ Len(timers') = Len(timers) - 1
      /\ \A j \in 1..Len(timers) - 1 : timers'[j] = IF j < i THEN timers[j] ELSE timers[j + 1]
  BY <1>1, <1>2, RemoveAtEffect
<1>4. DOMAIN timers' = 1..Len(timers) - 1
  BY <1>1, <1>3
<1>5. IsInjective(timers')
  <2>1. ASSUME NEW j \in 1..Len(timers) - 1, NEW k \in 1..Len(timers) - 1, timers'[j] = timers'[k]
        PROVE  j = k
    <3>1. /\ timers[IF j < i THEN j ELSE j + 1] = timers[IF k < i THEN k ELSE k + 1]
          /\ (IF j < i THEN j ELSE j + 1) \in 1..Len(timers)
          /\ (IF k < i THEN k ELSE k + 1) \in 1..Len(timers)
      BY <1>1, <1>3, <2>1
    <3>2. (IF j < i THEN j ELSE j + 1) = (IF k < i THEN k ELSE k + 1)
      BY <1>1, <3>1
    <3>3. QED
      BY <1>1, <3>2
  <2>2. QED
    BY <1>4, <2>1 DEF IsInjective
<1>6. Registered' = Registered \ {timers[i]}
  <2>1. \A j \in 1..Len(timers) - 1 : timers'[j] \in Registered \ {timers[i]}
    <3> SUFFICES ASSUME NEW j \in 1..Len(timers) - 1
                 PROVE  timers'[j] \in Registered \ {timers[i]}
      OBVIOUS
    <3>1. CASE j < i
      BY <1>1, <1>3, <3>1, RegisteredAre
    <3>2. CASE ~(j < i)
      <4>1. j + 1 \in 1..Len(timers) /\ j + 1 # i
        BY <1>1, <3>2
      <4>2. QED
        BY <1>1, <1>3, <3>2, <4>1, RegisteredAre
    <3>3. QED
      BY <3>1, <3>2
  <2>2. ASSUME NEW t \in Registered \ {timers[i]}
        PROVE  \E j \in 1..Len(timers) - 1 : timers'[j] = t
    <3>1. PICK k \in 1..Len(timers) : timers[k] = t
      BY RegisteredAre
    <3>2. CASE k < i
      BY <1>1, <1>3, <3>1, <3>2
    <3>3. CASE k > i
      <4>1. k - 1 \in 1..Len(timers) - 1 /\ ~(k - 1 < i) /\ (k - 1) + 1 = k
        BY <1>1, <3>3
      <4>2. QED
        BY <1>3, <3>1, <4>1
    <3>4. QED
      BY <2>2, <3>1, <3>2, <3>3
  <2>3. Registered' = {timers'[j] : j \in 1..Len(timers) - 1}
    BY <1>4 DEF Registered, Range
  <2>4. QED
    BY <2>1, <2>2, <2>3
<1>7. fields' = [t \in Registered' |-> fields[t]]
  BY <1>6 DEF EraseAt
<1>8. fields' \in [Registered' -> TimerObject]
  BY <1>6, <1>7 DEF RegistryOK
<1>9. QED
  BY <1>1, <1>2, <1>3, <1>5, <1>6, <1>7, <1>8 DEF RegistryOK

\* removeTimer() destroys one timer and leaves the objects of the others alone.
LEMMA RemoveEffect ==
  ASSUME RegistryOK, NEW t, RemoveTimer(t)
  PROVE  /\ RegistryOK' /\ Registered' = Registered \ {t}
         /\ \A u \in Registered' : fields'[u] = fields[u]
<1>1. CASE t \in Registered
  <2>1. DOMAIN timers = 1..Len(timers) /\ \E i \in DOMAIN timers : timers[i] = t
    BY <1>1, RegisteredAre
  <2>2. PICK i \in 1..Len(timers) : timers[i] = t /\ EraseAt(i)
    BY <1>1, <2>1 DEF RemoveTimer
  <2>3. QED
    BY <2>2, EraseEffect
<1>2. CASE t \notin Registered
  BY <1>2 DEF RemoveTimer, registry, RegistryOK, Registered
<1>3. QED
  BY <1>1, <1>2

\* createTimer() puts a timer that has just run at the end.
LEMMA CreatedEffect ==
  ASSUME RegistryOK, NEW t \in Timer, NEW i \in Interval, NEW pause \in BOOLEAN,
         CreateTimer(t, i, pause)
  PROVE  /\ RegistryOK' /\ Len(timers') = Len(timers) + 1
         /\ \A j \in 1..Len(timers) : timers'[j] = timers[j]
         /\ timers'[Len(timers) + 1] = t /\ t \notin Registered
         /\ Registered' = Registered \cup {t}
         /\ fields'[t] = [interval |-> i, paused |-> pause, elapsed |-> 0]
         /\ \A u \in Registered : fields'[u] = fields[u]
<1> DEFINE n == Len(timers)
<1>1. /\ timers \in Seq(Timer) /\ n \in Nat /\ capacity \in Nat /\ n <= capacity
      /\ \A k, j \in 1..n : timers[k] = timers[j] => k = j
      /\ \A j \in 1..n : timers[j] \in Registered
      /\ DOMAIN timers = 1..n
  BY RegisteredAre DEF RegistryOK
<1>2. /\ t \notin Registered /\ timers' = Append(timers, t) /\ capacity' = Grown
      /\ fields' = [u \in Registered \cup {t} |->
                      IF u = t THEN [interval |-> i, paused |-> pause, elapsed |-> 0] ELSE fields[u]]
  BY DEF CreateTimer
<1>3. /\ timers' \in Seq(Timer) /\ Len(timers') = n + 1 /\ DOMAIN timers' = 1..n + 1
      /\ \A j \in 1..n : timers'[j] = timers[j]
      /\ timers'[n + 1] = t
  BY <1>1, <1>2, PushEffect
<1>4. capacity' \in Nat /\ n + 1 <= capacity'
  BY <1>1, <1>2 DEF Grown
<1>5. IsInjective(timers')
  <2>1. \A j \in 1..n + 1 : j \in 1..n \/ j = n + 1
    BY <1>1
  <2>2. QED
    BY <1>1, <1>2, <1>3, <2>1 DEF IsInjective
<1>6. Registered' = Registered \cup {t}
  <2>1. Registered' = {timers'[j] : j \in 1..n + 1} /\ Registered = {timers[j] : j \in 1..n}
    BY <1>1, <1>3 DEF Registered, Range
  <2>2. \A j \in 1..n + 1 : j \in 1..n \/ j = n + 1
    BY <1>1
  <2>3. 1..n \subseteq 1..n + 1 /\ n + 1 \in 1..n + 1
    BY <1>1
  <2> HIDE DEF n
  <2>4. QED
    BY <1>3, <2>1, <2>2, <2>3
<1>7. [interval |-> i, paused |-> pause, elapsed |-> 0] \in TimerObject
  BY Numbers DEF TimerObject
<1>8. fields' \in [Registered' -> TimerObject]
  BY <1>2, <1>6, <1>7 DEF RegistryOK
<1>9. QED
  BY <1>1, <1>2, <1>3, <1>4, <1>5, <1>6, <1>8 DEF RegistryOK

\* A step that changes the object of one timer.
LEMMA SetEffect ==
  ASSUME RegistryOK, UNCHANGED <<timers, capacity>>, NEW t \in Registered,
         NEW o \in TimerObject, fields' = [fields EXCEPT ![t] = o]
  PROVE  /\ RegistryOK' /\ Registered' = Registered /\ fields'[t] = o
         /\ \A u \in Registered \ {t} : fields'[u] = fields[u]
<1>1. Registered' = Registered
  BY DEF Registered
<1>2. QED
  BY <1>1 DEF RegistryOK

\* Executions that differ at most in whether their iterator can still be used.
Like(a, b) == a.kind = b.kind /\ a.timer = b.timer /\ a.at = b.at /\ a.id = b.id

Alike(s) ==
  /\ s \in Seq(Frame) /\ Len(s) = Len(calls) /\ DOMAIN s = 1..Len(calls)
  /\ \A k \in 1..Len(calls) : Like(s[k], calls[k])

LEMMA NoneIsMoved == CallsOK => Alike(calls)
BY DEF CallsOK, Alike, Like

\* Nor does a vector that moves change more of them.
LEMMA MovedEffect ==
  ASSUME CallsOK
  PROVE  Alike(Moved(calls))
<1>1. /\ calls \in Seq(Frame) /\ Len(calls) \in Nat /\ DOMAIN calls = 1..Len(calls)
      /\ \A k \in 1..Len(calls) : calls[k] \in Frame
  BY DEF CallsOK
<1>2. CASE Grown = capacity
  BY <1>2, NoneIsMoved DEF Moved
<1>3. CASE Grown # capacity
  <2> DEFINE frame(k) == [calls[k] EXCEPT !.valid = @ /\ calls[k].kind # "walk"]
  <2>1. ASSUME NEW k \in 1..Len(calls)
        PROVE  frame(k) \in Frame /\ Like(frame(k), calls[k])
    <3>1. ASSUME NEW b \in BOOLEAN
          PROVE  /\ [calls[k] EXCEPT !.valid = b] \in Frame
                 /\ Like([calls[k] EXCEPT !.valid = b], calls[k])
      BY <1>1, <3>1 DEF Frame, Like
    <3>2. (calls[k].valid /\ calls[k].kind # "walk") \in BOOLEAN
      OBVIOUS
    <3>3. QED
      BY <1>1, <3>1, <3>2
  <2>2. Moved(calls) = [k \in 1..Len(calls) |-> frame(k)]
    BY <1>1, <1>3 DEF Moved
  <2> HIDE DEF frame
  <2>3. Moved(calls) \in [1..Len(calls) -> Frame]
    BY <2>1, <2>2
  <2>4. Moved(calls) \in Seq(Frame) /\ DOMAIN Moved(calls) = 1..Len(calls)
    BY <1>1, <2>3
  <2>5. Len(Moved(calls)) = Len(calls)
    BY <1>1, <2>4
  <2>6. QED
    BY <2>1, <2>2, <2>4, <2>5 DEF Alike
<1>4. QED
  BY <1>2, <1>3

\* The innermost execution.
LEMMA TopFacts ==
  ASSUME CallsOK, calls # <<>>
  PROVE  /\ Top = calls[Len(calls)] /\ Top \in Frame
         /\ Len(calls) \in Nat \ {0} /\ DOMAIN calls = 1..Len(calls) /\ Len(calls) <= MaxDepth
         /\ Top.timer \in Timer \cup {NULL} /\ Top.at \in Nat /\ Top.id \in -1..MaxIds-1
         /\ Top.kind = "walk" => Len(calls) = 1 /\ Top.at > 0
         /\ Top.kind # "walk" => Len(calls) # 1 \/ Top.at = 0
<1>1. /\ calls \in Seq(Frame) /\ Len(calls) \in Nat \ {0} /\ DOMAIN calls = 1..Len(calls)
      /\ Len(calls) <= MaxDepth
  BY DEF CallsOK
<1>2. Top = calls[Len(calls)] /\ Top \in Frame
  BY <1>1 DEF Top
<1>3. Top.kind = "walk" <=> Len(calls) = 1 /\ Top.at > 0
  BY <1>1, <1>2 DEF CallsOK
<1>4. Top.timer \in Timer \cup {NULL} /\ Top.at \in Nat /\ Top.id \in -1..MaxIds-1
  BY <1>2 DEF Frame
<1>5. QED
  BY <1>1, <1>2, <1>3, <1>4

\* The executions there are.
LEMMA WalkFrame ==
  ASSUME NEW i \in Nat
  PROVE  /\ Walk(i) \in Frame /\ Walk(i).kind = "walk" /\ Walk(i).timer = NULL
         /\ Walk(i).at = i /\ Walk(i).valid = TRUE /\ Walk(i).id = -1
<1>1. -1 \in -1..MaxIds-1
  BY Numbers
<1>2. QED
  BY <1>1 DEF Walk, Frame

CtorCall(t) == [Walk(0) EXCEPT !.kind = "ctor", !.timer = t]

LEMMA CtorFrame ==
  ASSUME NEW t \in Timer
  PROVE  /\ CtorCall(t) \in Frame /\ CtorCall(t).kind = "ctor"
         /\ CtorCall(t).timer = t /\ CtorCall(t).at = 0
<1>1. -1 \in -1..MaxIds-1
  BY Numbers
<1>2. QED
  BY <1>1 DEF CtorCall, Walk, Frame

TriggerCall(t, id) == [Walk(0) EXCEPT !.kind = "trigger", !.timer = t, !.id = id]

LEMMA TriggerFrame ==
  ASSUME NEW t \in Timer, NEW id \in 0..MaxIds-1
  PROVE  /\ TriggerCall(t, id) \in Frame /\ TriggerCall(t, id).kind = "trigger"
         /\ TriggerCall(t, id).timer = t /\ TriggerCall(t, id).at = 0
         /\ TriggerCall(t, id).id = id
<1>1. id \in -1..MaxIds-1
  BY Numbers
<1>2. QED
  BY <1>1 DEF TriggerCall, Walk, Frame

\* A native starts an execution.
LEMMA PushCalls ==
  ASSUME CallsOK, Len(calls) < MaxDepth, NEW s, Alike(s),
         NEW c \in Frame, c.kind # "walk", c.at = 0, calls' = Append(s, c)
  PROVE  /\ CallsOK' /\ Len(calls') = Len(calls) + 1 /\ DOMAIN calls' = 1..Len(calls) + 1
         /\ \A k \in 1..Len(calls) : Like(calls'[k], calls[k])
         /\ calls'[Len(calls) + 1] = c
<1>1. /\ s \in Seq(Frame) /\ Len(s) = Len(calls) /\ DOMAIN s = 1..Len(calls)
      /\ \A k \in 1..Len(calls) : Like(s[k], calls[k])
  BY DEF Alike
<1>2. /\ calls' \in Seq(Frame) /\ Len(calls) \in Nat /\ Len(calls') = Len(calls) + 1
      /\ DOMAIN calls' = 1..Len(calls) + 1
      /\ \A k \in 1..Len(calls) : calls'[k] = s[k]
      /\ calls'[Len(calls) + 1] = c
  BY <1>1, PushEffect
<1>3. \A k \in 1..Len(calls) : Like(calls'[k], calls[k])
  BY <1>1, <1>2
<1>4. \A k \in 1..Len(calls) + 1 : k \in 1..Len(calls) \/ k = Len(calls) + 1
  BY <1>2
<1>5. \A k \in 1..Len(calls) + 1 : calls'[k].kind = "walk" <=> k = 1 /\ calls'[k].at > 0
  BY <1>1, <1>2, <1>3, <1>4 DEF CallsOK, Like
<1>6. QED
  BY <1>2, <1>3, <1>5, Numbers DEF CallsOK

\* The innermost execution ends.
LEMMA PopCalls ==
  ASSUME CallsOK, calls # <<>>, calls' = Pop
  PROVE  /\ CallsOK' /\ Len(calls') = Len(calls) - 1 /\ DOMAIN calls' = 1..Len(calls) - 1
         /\ \A k \in 1..Len(calls) - 1 : calls'[k] = calls[k]
<1>1. /\ calls' \in Seq(Frame) /\ Len(calls') = Len(calls) - 1 /\ DOMAIN calls' = 1..Len(calls) - 1
      /\ Len(calls) \in Nat \ {0} /\ DOMAIN calls = 1..Len(calls)
      /\ \A k \in 1..Len(calls) - 1 : calls'[k] = calls[k]
  BY PopEffect DEF CallsOK, Pop
<1>2. 1..Len(calls) - 1 \subseteq 1..Len(calls) /\ Len(calls) - 1 <= MaxDepth
  BY <1>1, Numbers DEF CallsOK
<1>3. QED
  BY <1>1, <1>2 DEF CallsOK

\* The stack holds the walk alone.
LEMMA WalkAlone ==
  ASSUME NEW w \in Frame, w.kind = "walk", w.at > 0, calls' = <<w>>
  PROVE  CallsOK' /\ Len(calls') = 1 /\ DOMAIN calls' = 1..1 /\ calls'[1] = w
BY Numbers DEF CallsOK

\* The stack stays, but for iterators.
LEMMA CallsStay ==
  ASSUME CallsOK, Alike(calls')
  PROVE  CallsOK'
BY DEF CallsOK, Alike, Like

\* What type correctness says, part by part.
Sound == RegistryOK /\ CallsOK /\ CooldownOK /\ TableIInv

\* The walk goes on.
LEMMA WalkGoesOn ==
  ASSUME CallsOK, calls # <<>>, Top.kind = "walk", NEW w \in Frame, w.kind = "walk", w.at > 0,
         \/ calls' = [calls EXCEPT ![Len(calls)] = w]
         \/ calls' = Pop \o <<w>>
  PROVE  CallsOK' /\ Len(calls') = 1 /\ DOMAIN calls' = 1..1 /\ calls'[1] = w
<1>1. Len(calls) = 1 /\ calls \in Seq(Frame) /\ DOMAIN calls = 1..1
  BY TopFacts DEF CallsOK
<1>2. CASE calls' = [calls EXCEPT ![Len(calls)] = w]
  <2>1. calls' = [calls EXCEPT ![1] = w]
    BY <1>1, <1>2
  <2>2. calls' \in Seq(Frame) /\ Len(calls') = 1 /\ calls'[1] = w /\ DOMAIN calls' = 1..1
    BY <1>1, <2>1, ExceptSeq
  <2>3. QED
    BY <2>2, Numbers DEF CallsOK
<1>3. CASE calls' = Pop \o <<w>>
  <2>1. Pop = <<>>
    BY <1>1, SubSeqEmpty DEF Pop
  <2>2. <<w>> \in Seq(Frame)
    OBVIOUS
  <2>3. calls' = <<w>>
    BY <1>3, <2>1, <2>2, ConcatEmptySeq
  <2>4. QED
    BY <2>3, WalkAlone
<1>4. QED
  BY <1>2, <1>3

\* Nothing but the walk starts an execution when none runs.
LEMMA WalkOnTop ==
  ASSUME CallsOK, calls # <<>>, Top.kind = "walk"
  PROVE  Len(calls) = 1 /\ Top = calls[1] /\ DOMAIN calls = 1..1 /\ Top.at \in Nat \ {0}
<1>1. Len(calls) = 1
  BY TopFacts
<1>2. Top = calls[Len(calls)] /\ DOMAIN calls = 1..Len(calls) /\ Top.at \in Nat /\ Top.at > 0
  BY TopFacts
<1>3. Top.at \in Nat \ {0}
  BY <1>2
<1>4. QED
  BY <1>1, <1>2, <1>3

\* The walk between two callbacks.
LEMMA WalkingFacts ==
  ASSUME CallsOK, Walking
  PROVE  /\ calls # <<>> /\ Len(calls) = 1 /\ Top = calls[1] /\ DOMAIN calls = 1..1
         /\ Top.kind = "walk" /\ Top.timer = NULL /\ Top.valid /\ Top.at \in Nat \ {0}
<1>1. calls # <<>> /\ Top.kind = "walk" /\ Top.timer = NULL /\ Top.valid
  BY DEF Walking
<1>2. QED
  BY <1>1, WalkOnTop

LEMMA SkipEffect ==
  ASSUME CallsOK, WalkSkips
  PROVE  /\ CallsOK' /\ Len(calls') = 1 /\ DOMAIN calls' = 1..1
         /\ calls'[1].kind = "walk" /\ calls'[1].timer = NULL /\ calls'[1].at = Top.at + 1
         /\ calls'[1].valid = Top.valid
<1>1. Top \in Frame /\ Len(calls) = 1 /\ calls[1] = Top /\ calls # <<>> /\ Top.kind = "walk"
  BY TopFacts, WalkingFacts DEF WalkSkips
<1>2. Top.at \in Nat \ {0} /\ Top.timer = NULL
  BY WalkingFacts DEF WalkSkips
<1>3. PICK w : w = [Top EXCEPT !.at = @ + 1]
  OBVIOUS
<1>4. w \in Frame /\ w.kind = "walk" /\ w.at = Top.at + 1 /\ w.timer = NULL /\ w.valid = Top.valid
  <2>1. Top.at + 1 \in Nat
    BY <1>2
  <2>2. QED
    BY <1>1, <1>2, <1>3, <2>1 DEF Frame
<1>5. calls' = [calls EXCEPT ![Len(calls)] = w]
  BY <1>1, <1>3 DEF WalkSkips
<1>6. w.at > 0
  BY <1>2, <1>4
<1>7. QED
  BY <1>1, <1>4, <1>5, <1>6, WalkGoesOn

LEMMA ExecutesEffect ==
  ASSUME RegistryOK, CallsOK, WalkExecutes
  PROVE  /\ CallsOK' /\ Len(calls') = 1 /\ DOMAIN calls' = 1..1
         /\ calls'[1].kind = "walk" /\ calls'[1].timer = timers[Top.at] /\ calls'[1].at = Top.at
         /\ calls'[1].valid = Top.valid
         /\ Top.at \in 1..Len(timers) /\ timers[Top.at] \in Registered
<1>1. Top \in Frame /\ Len(calls) = 1 /\ calls[1] = Top /\ calls # <<>> /\ Top.kind = "walk"
  BY TopFacts, WalkingFacts DEF WalkExecutes
<1>2. Top.at \in Nat \ {0} /\ Top.at <= Len(timers)
  BY WalkingFacts DEF WalkExecutes
<1>3. Top.at \in 1..Len(timers) /\ timers[Top.at] \in Registered /\ timers[Top.at] \in Timer
  BY <1>2, RegisteredAre
<1>4. PICK w : w = [Top EXCEPT !.timer = timers[Top.at]]
  OBVIOUS
<1>5. /\ w \in Frame /\ w.kind = "walk" /\ w.at = Top.at /\ w.timer = timers[Top.at]
      /\ w.valid = Top.valid
  BY <1>1, <1>3, <1>4 DEF Frame
<1>6. calls' = [calls EXCEPT ![Len(calls)] = w]
  BY <1>1, <1>4 DEF WalkExecutes
<1>7. w.at > 0
  BY <1>2, <1>5
<1>8. QED
  BY <1>1, <1>3, <1>5, <1>6, <1>7, WalkGoesOn

\* After the callback the walk is at the next timer.
LEMMA WalkReturnsEffect ==
  ASSUME RegistryOK, CallsOK, calls # <<>>, NEW keep \in BOOLEAN, WalkReturns(keep)
  PROVE  /\ CallsOK' /\ Len(calls) = 1 /\ Len(calls') = 1 /\ DOMAIN calls' = 1..1
         /\ Top = calls[1] /\ Top.kind = "walk" /\ Top.at \in 1..Len(timers)
         /\ calls'[1] = Walk(IF keep THEN Top.at + 1 ELSE Top.at)
         /\ IF keep THEN UNCHANGED registry ELSE EraseAt(Top.at)
<1>1. Top.kind = "walk" /\ Top.at <= Len(timers) /\ AfterCallback(keep)
  BY DEF WalkReturns
<1>2. Len(calls) = 1 /\ Top = calls[1] /\ Top.at \in Nat \ {0}
  BY <1>1, WalkOnTop
<1>3. Top.at \in 1..Len(timers)
  BY <1>1, <1>2, RegisteredAre
<1>4. PICK n : n = IF keep THEN Top.at + 1 ELSE Top.at
  OBVIOUS
<1>5. n \in Nat /\ n > 0
  BY <1>2, <1>4
<1>6. Walk(n) \in Frame /\ Walk(n).kind = "walk" /\ Walk(n).at > 0
  BY <1>5, WalkFrame
<1>7. calls' = Pop \o <<Walk(n)>>
  BY <1>1, <1>4 DEF AfterCallback
<1>8. CallsOK' /\ Len(calls') = 1 /\ DOMAIN calls' = 1..1 /\ calls'[1] = Walk(n)
  BY <1>1, <1>6, <1>7, WalkGoesOn
<1>9. IF keep THEN UNCHANGED registry ELSE EraseAt(Top.at)
  BY <1>1 DEF AfterCallback
<1>10. QED
  BY <1>1, <1>2, <1>3, <1>4, <1>8, <1>9

----------------------------------------------------------------------------
(* Timers: what the steps do.                                              *)

\* No timer comes closer to its time: an object keeps its time or starts anew.
Calm ==
  \A u \in Registered' :
    \/ u \in Registered /\ fields'[u] = fields[u]
    \/ fields'[u].paused
    \/ fields'[u].elapsed = 0

\* The vector keeps its elements and may get more at the end.
Extended ==
  /\ Len(timers) <= Len(timers')
  /\ \A j \in 1..Len(timers) : timers'[j] = timers[j]

\* The handles that were live stay with their timers.
LiveKept == \A id \in Ids : handlers[id] # NULL => id \in Ids' /\ handlers'[id] = handlers[id]

\* A new handle takes no other over.
LEMMA CreateEffect ==
  ASSUME TableIInv, NEW data \in Data, Create(data)
  PROVE  LiveKept /\ NewId \in Ids' /\ handlers'[NewId] = data
<1>1. NewId \notin Live
  BY NewIdIsFree DEF Create
<1>2. /\ Ids' = Ids \cup {NewId} /\ handlers'[NewId] = data
      /\ \A i \in Ids : i # NewId => handlers'[i] = handlers[i]
  BY DEF Create, Store, Ids
<1>3. QED
  BY <1>1, <1>2 DEF LiveKept, Live

\* Freeing a handle leaves the others with their timers.
LEMMA FreeEffect ==
  ASSUME NEW id \in Ids, Free(id)
  PROVE  Ids' = Ids /\ \A i \in Ids \ {id} : handlers'[i] = handlers[i]
BY DEF Free, Ids

\* The objects of registered timers.
LEMMA ObjectsAre ==
  ASSUME RegistryOK, NEW t \in Registered
  PROVE  /\ fields[t] \in TimerObject /\ fields[t].interval \in Interval
         /\ fields[t].paused \in BOOLEAN /\ fields[t].elapsed \in 0..MaxElapsed
         /\ fields[t].interval \in Nat \ {0} /\ fields[t].elapsed \in Nat
<1>1. fields[t] \in TimerObject
  BY DEF RegistryOK
<1>2. /\ fields[t].interval \in Interval /\ fields[t].paused \in BOOLEAN
      /\ fields[t].elapsed \in 0..MaxElapsed
  BY <1>1 DEF TimerObject
<1>3. fields[t].interval \in Nat \ {0}
  BY <1>2, Numbers
<1>4. fields[t].elapsed \in Nat
  BY <1>2, Numbers
<1>5. QED
  BY <1>1, <1>2, <1>3, <1>4

\* What keeps calm makes nothing due.
LEMMA CalmStep ==
  ASSUME RegistryOK', Calm, NEW u \in Registered', Due(u)'
  PROVE  u \in Registered /\ Due(u) /\ fields'[u] = fields[u]
<1>1. ~fields'[u].paused /\ fields'[u].elapsed >= fields'[u].interval
  BY DEF Due
<1>2. fields'[u] \in TimerObject
  BY DEF RegistryOK
<1>3. fields'[u].interval \in Nat \ {0}
  BY <1>2, Numbers DEF TimerObject
<1>4. fields'[u].elapsed # 0
  BY <1>1, <1>3
<1>5. u \in Registered /\ fields'[u] = fields[u]
  BY <1>1, <1>4 DEF Calm
<1>6. QED
  BY <1>1, <1>5 DEF Due

LEMMA SameRegistry ==
  ASSUME RegistryOK, UNCHANGED registry
  PROVE  RegistryOK' /\ Calm /\ Extended /\ Registered' = Registered /\ timers' = timers
<1>1. Len(timers) \in Nat
  BY RegisteredAre
<1>2. QED
  BY <1>1 DEF registry, RegistryOK, Calm, Extended, Registered

\* Timer::exec() and the setters start the time of one timer anew, or pause it.
LEMMA AnewEffect ==
  ASSUME RegistryOK, UNCHANGED <<timers, capacity>>, NEW t \in Registered,
         NEW o \in TimerObject, fields' = [fields EXCEPT ![t] = o],
         o.paused \/ o.elapsed = 0
  PROVE  /\ RegistryOK' /\ Calm /\ Extended /\ Registered' = Registered /\ timers' = timers
         /\ fields'[t] = o
<1>1. /\ RegistryOK' /\ Registered' = Registered /\ fields'[t] = o
      /\ \A u \in Registered \ {t} : fields'[u] = fields[u]
  BY SetEffect
<1>2. Len(timers) \in Nat
  BY RegisteredAre
<1>3. QED
  BY <1>1, <1>2 DEF Calm, Extended

LEMMA ExecutedEffect ==
  ASSUME RegistryOK, UNCHANGED <<timers, capacity>>, NEW t \in Registered, fields' = Executed(t)
  PROVE  /\ RegistryOK' /\ Calm /\ Extended /\ Registered' = Registered /\ timers' = timers
         /\ fields'[t].elapsed = 0
<1>1. PICK o : o = [fields[t] EXCEPT !.elapsed = 0]
  OBVIOUS
<1>2. fields[t] \in TimerObject /\ 0 \in 0..MaxElapsed
  BY ObjectsAre, Numbers
<1>3. o \in TimerObject /\ o.elapsed = 0
  BY <1>1, <1>2 DEF TimerObject
<1>4. fields' = [fields EXCEPT ![t] = o]
  BY <1>1 DEF Executed, RegistryOK
<1>5. QED
  BY <1>3, <1>4, AnewEffect

LEMMA PauseEffect ==
  ASSUME RegistryOK, NEW id \in Ids, NEW pause \in BOOLEAN, PauseSet(id, pause)
  PROVE  RegistryOK' /\ Calm /\ Extended /\ Registered' = Registered /\ timers' = timers
<1>1. handlers[id] \in Registered
  BY DEF PauseSet, On, Get
<1>2. PICK e : e = IF pause THEN fields[handlers[id]].elapsed ELSE 0
  OBVIOUS
<1>3. fields[handlers[id]] \in TimerObject /\ e \in 0..MaxElapsed /\ (pause \/ e = 0)
  BY <1>1, <1>2, ObjectsAre, Numbers
<1>4. PICK o : o = [fields[handlers[id]] EXCEPT !.paused = pause, !.elapsed = e]
  OBVIOUS
<1>5. o \in TimerObject /\ o.paused = pause /\ o.elapsed = e
  BY <1>3, <1>4 DEF TimerObject
<1>6. fields' = [fields EXCEPT ![handlers[id]] = o]
  BY <1>1, <1>2, <1>4 DEF PauseSet, RegistryOK
<1>7. o.paused \/ o.elapsed = 0
  BY <1>3, <1>5
<1>8. QED
  BY <1>1, <1>5, <1>6, <1>7, AnewEffect DEF PauseSet

LEMMA IntervalEffect ==
  ASSUME RegistryOK, NEW id \in Ids, NEW i \in Interval, IntervalSet(id, i)
  PROVE  RegistryOK' /\ Calm /\ Extended /\ Registered' = Registered /\ timers' = timers
<1>1. handlers[id] \in Registered
  BY DEF IntervalSet, On, Get
<1>2. PICK o : o = [fields[handlers[id]] EXCEPT !.interval = i, !.elapsed = 0]
  OBVIOUS
<1>3. fields[handlers[id]] \in TimerObject /\ 0 \in 0..MaxElapsed
  BY <1>1, ObjectsAre, Numbers
<1>4. o \in TimerObject /\ o.elapsed = 0
  BY <1>2, <1>3 DEF TimerObject
<1>5. fields' = [fields EXCEPT ![handlers[id]] = o]
  BY <1>1, <1>2 DEF IntervalSet, RegistryOK
<1>6. QED
  BY <1>1, <1>4, <1>5, AnewEffect DEF IntervalSet

\* removeTimer() and erase() leave the times of the others alone.
LEMMA RemoveIsCalm ==
  ASSUME RegistryOK, NEW t, RemoveTimer(t)
  PROVE  RegistryOK' /\ Calm /\ Registered' = Registered \ {t}
BY RemoveEffect DEF Calm

LEMMA CreatedIsCalm ==
  ASSUME RegistryOK, NEW t \in Timer, NEW i \in Interval, NEW pause \in BOOLEAN,
         CreateTimer(t, i, pause)
  PROVE  RegistryOK' /\ Calm /\ Extended /\ Registered' = Registered \cup {t}
<1>1. /\ RegistryOK' /\ Len(timers') = Len(timers) + 1 /\ Len(timers) \in Nat
      /\ \A j \in 1..Len(timers) : timers'[j] = timers[j]
      /\ Registered' = Registered \cup {t}
      /\ fields'[t] = [interval |-> i, paused |-> pause, elapsed |-> 0]
      /\ \A u \in Registered : fields'[u] = fields[u]
  BY CreatedEffect, RegisteredAre
<1>2. fields'[t].elapsed = 0
  BY <1>1
<1>3. QED
  BY <1>1, <1>2 DEF Calm, Extended

\* The executions that were on the stack are still there.
OldCalls ==
  /\ Len(calls) <= Len(calls') /\ DOMAIN calls' = 1..Len(calls')
  /\ \A k \in 1..Len(calls) : Like(calls'[k], calls[k])

\* Timer t can be reached.
HasHandle(t) ==
  \/ \E id \in Ids : handlers[id] = t
  \/ \E k \in DOMAIN calls : calls[k].kind = "ctor" /\ calls[k].timer = t

LEMMA SameCalls ==
  ASSUME CallsOK, UNCHANGED calls
  PROVE  CallsOK' /\ OldCalls /\ Len(calls') = Len(calls)
BY DEF CallsOK, OldCalls, Like

\* The stack as far as a vector that moves leaves it alone.
LEMMA LikeCalls ==
  ASSUME CallsOK, NEW s, Alike(s), calls' = s
  PROVE  CallsOK' /\ OldCalls /\ Len(calls') = Len(calls)
<1>1. /\ calls' \in Seq(Frame) /\ Len(calls') = Len(calls) /\ DOMAIN calls' = 1..Len(calls)
      /\ Len(calls) \in Nat /\ DOMAIN calls = 1..Len(calls)
      /\ \A k \in 1..Len(calls) : Like(calls'[k], calls[k])
  BY DEF Alike, CallsOK
<1>2. \A k \in 1..Len(calls) : calls'[k].kind = "walk" <=> k = 1 /\ calls'[k].at > 0
  BY <1>1 DEF CallsOK, Like
<1>3. QED
  BY <1>1, <1>2 DEF CallsOK, OldCalls

\* A frame makes every timer older, and starts a walk or brings it closer.
LEMMA StartEffect ==
  ASSUME RegistryOK, CallsOK, CooldownOK, StartFrame
  PROVE  /\ RegistryOK' /\ CallsOK' /\ CooldownOK'
         /\ Registered' = Registered /\ timers' = timers
         /\ \A t \in Registered :
              /\ fields'[t].interval = fields[t].interval /\ fields'[t].paused = fields[t].paused
              /\ fields'[t].elapsed = Aged(fields[t].elapsed)
         /\ \/ cooldown <= 1 /\ cooldown' = Period /\ calls' = <<Walk(1)>>
            \/ cooldown > 1 /\ cooldown' = cooldown - 1 /\ calls' = <<>>
<1>1. /\ timers' = timers /\ capacity' = capacity /\ Registered' = Registered /\ calls = <<>>
      /\ fields' = [t \in Registered |-> [fields[t] EXCEPT !.elapsed = Aged(@)]]
  BY DEF StartFrame, Registered
<1>2. ASSUME NEW t \in Registered
      PROVE  /\ fields'[t] \in TimerObject
             /\ fields'[t].interval = fields[t].interval /\ fields'[t].paused = fields[t].paused
             /\ fields'[t].elapsed = Aged(fields[t].elapsed)
  <2>1. fields[t] \in TimerObject /\ fields[t].elapsed \in 0..MaxElapsed
    BY ObjectsAre
  <2>2. PICK n : n = Aged(fields[t].elapsed)
    OBVIOUS
  <2>3. n \in 0..MaxElapsed
    BY <2>1, <2>2, Numbers DEF Aged
  <2>4. fields'[t] = [fields[t] EXCEPT !.elapsed = n]
    BY <1>1, <2>2
  <2>5. QED
    BY <2>1, <2>2, <2>3, <2>4 DEF TimerObject
<1>3. RegistryOK'
  <2>1. fields' \in [Registered' -> TimerObject]
    BY <1>1, <1>2
  <2>2. QED
    BY <1>1, <2>1 DEF RegistryOK
<1>4. CASE cooldown <= 1
  <2>1. cooldown' = Period /\ calls' = <<Walk(1)>>
    BY <1>4 DEF StartFrame
  <2>2. Walk(1) \in Frame /\ Walk(1).kind = "walk" /\ Walk(1).at = 1
    BY WalkFrame
  <2>3. CallsOK'
    BY <2>1, <2>2, WalkAlone
  <2>4. CooldownOK'
    BY <2>1, Numbers DEF CooldownOK
  <2>5. QED
    BY <1>1, <1>2, <1>3, <1>4, <2>1, <2>3, <2>4
<1>5. CASE ~(cooldown <= 1)
  <2>1. cooldown' = cooldown - 1 /\ calls' = <<>>
    BY <1>1, <1>5 DEF StartFrame
  <2>2. CallsOK'
    BY <1>1, <2>1, SameCalls
  <2>3. CooldownOK' /\ cooldown > 1
    BY <1>5, <2>1, Numbers DEF CooldownOK
  <2>4. QED
    BY <1>1, <1>2, <1>3, <2>1, <2>2, <2>3
<1>6. QED
  BY <1>4, <1>5

\* The walk has come to the end.
LEMMA EndEffect ==
  ASSUME CallsOK, WalkEnds
  PROVE  /\ CallsOK' /\ DOMAIN calls' = {} /\ Len(calls') = 0
         /\ Len(calls) = 1 /\ Top = calls[1] /\ Top.kind = "walk" /\ Top.at = Len(timers) + 1
         /\ UNCHANGED <<registry, cooldown, tableVars>>
<1>1. Walking /\ Top.at = Len(timers) + 1 /\ calls' = Pop /\ UNCHANGED <<registry, cooldown, tableVars>>
  BY DEF WalkEnds
<1>2. calls # <<>> /\ Len(calls) = 1 /\ Top = calls[1] /\ Top.kind = "walk"
  BY <1>1, WalkingFacts
<1>3. CallsOK' /\ Len(calls') = Len(calls) - 1 /\ DOMAIN calls' = 1..Len(calls) - 1
  BY <1>1, <1>2, PopCalls
<1>4. QED
  BY <1>1, <1>2, <1>3

\* A plugin triggers a timer through its handle.
LEMMA TriggerEffect ==
  ASSUME RegistryOK, CallsOK, TableIInv, NEW id \in Ids, Trigger(id)
  PROVE  /\ RegistryOK' /\ CallsOK' /\ Calm /\ Extended /\ OldCalls
         /\ Registered' = Registered /\ timers' = timers /\ UNCHANGED <<cooldown, tableVars>>
         /\ \A k \in DOMAIN calls' :
              \/ k \in 1..Len(calls)
              \/ /\ calls'[k].kind = "trigger" /\ calls'[k].id = id
                 /\ calls'[k].timer = handlers[id] /\ handlers[id] \in Timer
<1>1. handlers[id] \in Registered /\ id \in 0..MaxIds-1
  <2>1. handlers[id] \in Registered
    BY DEF Trigger, On, Get
  <2>2. id \in 0..Size-1 /\ Size \in 0..MaxIds
    BY DEF TableIInv, TableTypeOK, Ids
  <2>3. QED
    BY <2>1, <2>2, Numbers
<1>2. handlers[id] \in Timer
  BY <1>1, RegisteredAre
<1>3. RegistryOK' /\ Calm /\ Extended /\ Registered' = Registered /\ timers' = timers
  BY <1>1, ExecutedEffect DEF Trigger
<1>4. PICK c : c = TriggerCall(handlers[id], id)
  OBVIOUS
<1>5. c \in Frame /\ c.kind = "trigger" /\ c.timer = handlers[id] /\ c.at = 0 /\ c.id = id
  BY <1>1, <1>2, <1>4, TriggerFrame
<1>6. calls' = Append(calls, c) /\ Len(calls) < MaxDepth
  BY <1>4 DEF Trigger, TriggerCall
<1>7. /\ CallsOK' /\ Len(calls') = Len(calls) + 1 /\ DOMAIN calls' = 1..Len(calls) + 1
      /\ \A k \in 1..Len(calls) : Like(calls'[k], calls[k])
      /\ calls'[Len(calls) + 1] = c
  BY <1>5, <1>6, NoneIsMoved, PushCalls
<1>8. Len(calls) \in Nat
  BY DEF CallsOK
<1>9. OldCalls
  BY <1>7, <1>8 DEF OldCalls
<1>10. \A k \in DOMAIN calls' : k \in 1..Len(calls) \/ k = Len(calls) + 1
  BY <1>7, <1>8
<1>11. QED
  BY <1>2, <1>3, <1>5, <1>7, <1>9, <1>10 DEF Trigger

\* A plugin makes a timer: it has a handle, or is executed first.
LEMMA CtorEffect ==
  ASSUME RegistryOK, CallsOK, TableIInv, NEW t \in Timer, NEW i \in Interval,
         NEW exec \in BOOLEAN, NEW pause \in BOOLEAN, TimerCtor(t, i, exec, pause)
  PROVE  /\ RegistryOK' /\ CallsOK' /\ Calm /\ Extended /\ OldCalls /\ LiveKept
         /\ Registered' = Registered \cup {t} /\ cooldown' = cooldown
         /\ HasHandle(t)'
         /\ \A k \in DOMAIN calls' : k \in 1..Len(calls) \/ calls'[k].kind = "ctor"
<1>1. RegistryOK' /\ Calm /\ Extended /\ Registered' = Registered \cup {t}
  BY CreatedIsCalm DEF TimerCtor
<1>2. Alike(Moved(calls)) /\ Len(calls) \in Nat
  BY MovedEffect DEF CallsOK
<1>3. CASE exec
  <2>1. PICK c : c = CtorCall(t)
    OBVIOUS
  <2>2. c \in Frame /\ c.kind = "ctor" /\ c.timer = t /\ c.at = 0
    BY <2>1, CtorFrame
  <2>3. calls' = Append(Moved(calls), c) /\ Len(calls) < MaxDepth /\ UNCHANGED tableVars
    BY <1>3, <2>1 DEF TimerCtor, CtorCall
  <2>4. /\ CallsOK' /\ Len(calls') = Len(calls) + 1 /\ DOMAIN calls' = 1..Len(calls) + 1
        /\ \A k \in 1..Len(calls) : Like(calls'[k], calls[k])
        /\ calls'[Len(calls) + 1] = c
    BY <1>2, <2>2, <2>3, PushCalls
  <2>5. OldCalls
    BY <1>2, <2>4 DEF OldCalls
  <2>6. Len(calls) + 1 \in DOMAIN calls' /\ \A k \in DOMAIN calls' : k \in 1..Len(calls) \/ k = Len(calls) + 1
    BY <1>2, <2>4
  <2>7. HasHandle(t)'
    BY <2>2, <2>4, <2>6 DEF HasHandle
  <2>8. LiveKept
    BY <2>3 DEF LiveKept, tableVars, Ids
  <2>9. QED
    BY <1>1, <2>2, <2>4, <2>5, <2>6, <2>7, <2>8 DEF TimerCtor
<1>4. CASE ~exec
  <2>1. calls' = Moved(calls) /\ Create(t)
    BY <1>4 DEF TimerCtor
  <2>2. CallsOK' /\ OldCalls /\ Len(calls') = Len(calls)
    BY <1>2, <2>1, LikeCalls
  <2>3. LiveKept /\ NewId \in Ids' /\ handlers'[NewId] = t
    BY <2>1, CreateEffect DEF Data
  <2>4. HasHandle(t)'
    BY <2>3 DEF HasHandle
  <2>5. \A k \in DOMAIN calls' : k \in 1..Len(calls)
    BY <2>2 DEF OldCalls
  <2>6. QED
    BY <1>1, <2>2, <2>3, <2>4, <2>5 DEF TimerCtor
<1>5. QED
  BY <1>3, <1>4

\* What is registered for a bad interval is no timer.
LEMMA BadEffect ==
  ASSUME RegistryOK, CallsOK, TableIInv, TimerCtorBad
  PROVE  /\ RegistryOK' /\ CallsOK' /\ LiveKept /\ UNCHANGED <<registry, cooldown, calls>>
<1>1. CreatesNull /\ Create(NULL) /\ UNCHANGED <<registry, cooldown, calls>>
  BY DEF TimerCtorBad
<1>2. NULL \in Data
  BY <1>1 DEF Data
<1>3. LiveKept
  BY <1>1, <1>2, CreateEffect
<1>4. RegistryOK' /\ CallsOK'
  BY <1>1, SameRegistry, SameCalls
<1>5. QED
  BY <1>1, <1>3, <1>4

\* A plugin removes a timer through its handle.
LEMMA RemoveHandleEffect ==
  ASSUME RegistryOK, CallsOK, NEW id \in Ids, RemoveHandle(id)
  PROVE  /\ RegistryOK' /\ CallsOK' /\ Calm
         /\ Registered' = Registered \ {handlers[id]}
         /\ Ids' = Ids /\ \A i \in Ids \ {id} : handlers'[i] = handlers[i]
         /\ UNCHANGED <<cooldown, calls>>
<1>1. Free(id) /\ RemoveTimer(handlers[id]) /\ UNCHANGED <<cooldown, calls>>
  BY DEF RemoveHandle
<1>2. RegistryOK' /\ Calm /\ Registered' = Registered \ {handlers[id]}
  BY <1>1, RemoveIsCalm
<1>3. Ids' = Ids /\ \A i \in Ids \ {id} : handlers'[i] = handlers[i]
  BY <1>1, FreeEffect
<1>4. CallsOK'
  BY <1>1, SameCalls
<1>5. QED
  BY <1>1, <1>2, <1>3, <1>4

\* The end of an execution by Trigger.
LEMMA TriggerReturnsEffect ==
  ASSUME RegistryOK, CallsOK, calls # <<>>, NEW keep \in BOOLEAN, TriggerReturns(keep)
  PROVE  /\ RegistryOK' /\ CallsOK' /\ Calm /\ Top.kind = "trigger" /\ cooldown' = cooldown
         /\ calls' = Pop
         /\ keep => UNCHANGED <<registry, tableVars>>
         /\ ~keep => /\ Registered' = Registered \ {Top.timer}
                     /\ Ids' = Ids
                     /\ \A i \in Ids \ {Top.id} : handlers'[i] = handlers[i]
<1>1. /\ Top.kind = "trigger" /\ calls' = Pop /\ cooldown' = cooldown
      /\ IF keep \/ ~CanFree(Top.id) THEN UNCHANGED tableVars ELSE Free(Top.id)
      /\ IF keep THEN UNCHANGED registry ELSE RemoveTimer(Top.timer)
  BY DEF TriggerReturns
<1>2. CallsOK'
  BY <1>1, PopCalls
<1>3. CASE keep
  <2>1. RegistryOK' /\ Calm
    BY <1>1, <1>3, SameRegistry
  <2>2. QED
    BY <1>1, <1>2, <1>3, <2>1
<1>4. CASE ~keep
  <2>1. RemoveTimer(Top.timer)
    BY <1>1, <1>4
  <2>2. RegistryOK' /\ Calm /\ Registered' = Registered \ {Top.timer}
    BY <2>1, RemoveIsCalm
  <2>3. Ids' = Ids /\ \A i \in Ids \ {Top.id} : handlers'[i] = handlers[i]
    <3>1. CASE CanFree(Top.id)
      <4>1. Top.id \in Ids /\ Free(Top.id)
        BY <1>1, <1>4, <3>1 DEF CanFree, Get
      <4>2. QED
        BY <4>1, FreeEffect
    <3>2. CASE ~CanFree(Top.id)
      BY <1>1, <3>2 DEF tableVars, Ids
    <3>3. QED
      BY <3>1, <3>2
  <2>4. QED
    BY <1>1, <1>2, <1>4, <2>2, <2>3
<1>5. QED
  BY <1>3, <1>4

\* The end of an execution by the constructor native.
LEMMA CtorReturnsEffect ==
  ASSUME RegistryOK, CallsOK, TableIInv, calls # <<>>, Top.timer # NULL,
         NEW keep \in BOOLEAN, CtorReturns(keep)
  PROVE  /\ RegistryOK' /\ CallsOK' /\ Calm /\ Top.kind = "ctor" /\ cooldown' = cooldown
         /\ calls' = Pop /\ LiveKept
         /\ keep => UNCHANGED registry /\ \E id \in Ids' : handlers'[id] = Top.timer
         /\ ~keep => Registered' = Registered \ {Top.timer}
<1>1. /\ Top.kind = "ctor" /\ calls' = Pop /\ cooldown' = cooldown
      /\ IF keep THEN UNCHANGED registry /\ Create(Top.timer)
                 ELSE RemoveTimer(Top.timer) /\ UNCHANGED tableVars
  BY DEF CtorReturns
<1>2. CallsOK' /\ Top.timer \in Timer
  BY <1>1, PopCalls, TopFacts
<1>3. CASE keep
  <2>1. RegistryOK' /\ Calm
    BY <1>1, <1>3, SameRegistry
  <2>2. Create(Top.timer) /\ Top.timer \in Data
    BY <1>1, <1>2, <1>3 DEF Data
  <2>3. LiveKept /\ NewId \in Ids' /\ handlers'[NewId] = Top.timer
    BY <2>2, CreateEffect
  <2>4. QED
    BY <1>1, <1>2, <1>3, <2>1, <2>3
<1>4. CASE ~keep
  <2>1. RemoveTimer(Top.timer) /\ UNCHANGED tableVars
    BY <1>1, <1>4
  <2>2. RegistryOK' /\ Calm /\ Registered' = Registered \ {Top.timer}
    BY <2>1, RemoveIsCalm
  <2>3. LiveKept
    BY <2>1 DEF LiveKept, tableVars, Ids
  <2>4. QED
    BY <1>1, <1>2, <1>4, <2>2, <2>3
<1>5. QED
  BY <1>3, <1>4

\* A map change destroys the timers and their handles.
LEMMA ChangeEffect ==
  ASSUME RegistryOK, CallsOK, CooldownOK, ChangeMap
  PROVE  /\ RegistryOK' /\ CallsOK' /\ CooldownOK' /\ Calm
         /\ calls = <<>> /\ calls' = <<>> /\ Registered' = {}
<1>1. /\ calls = <<>> /\ calls' = calls /\ timers' = <<>> /\ capacity' = capacity
      /\ fields' = [t \in {} |-> {}] /\ cooldown' \in 0..MapLength
  BY DEF ChangeMap
<1>2. Registered' = {}
  BY <1>1 DEF Registered, Range
<1>3. IsInjective(timers')
  BY <1>1 DEF IsInjective
<1>4. timers' \in Seq(Timer) /\ Len(timers') = 0 /\ capacity \in Nat
  BY <1>1 DEF RegistryOK
<1>5. fields' \in [Registered' -> TimerObject]
  BY <1>1, <1>2
<1>6. RegistryOK'
  BY <1>1, <1>3, <1>4, <1>5 DEF RegistryOK
<1>7. CooldownOK'
  BY <1>1, Numbers DEF CooldownOK
<1>8. QED
  BY <1>1, <1>2, <1>6, <1>7, SameCalls DEF Calm

\* The steps but those of the frame and the map keep the rest well formed,
\* and calm.
LEMMA WalkStepEffect ==
  ASSUME RegistryOK, CallsOK, WalkStep
  PROVE  RegistryOK' /\ CallsOK' /\ Calm /\ UNCHANGED <<cooldown, tableVars>>
<1>1. CASE WalkSkips
  BY <1>1, SkipEffect, SameRegistry DEF WalkSkips
<1>2. CASE WalkExecutes
  <2>1. /\ fields' = Executed(timers[Top.at]) /\ UNCHANGED <<timers, capacity>>
        /\ UNCHANGED <<cooldown, tableVars>>
    BY <1>2 DEF WalkExecutes
  <2>2. timers[Top.at] \in Registered /\ CallsOK'
    BY <1>2, ExecutesEffect
  <2>3. QED
    BY <2>1, <2>2, ExecutedEffect
<1>3. CASE WalkEnds
  BY <1>3, EndEffect, SameRegistry
<1>4. QED
  BY <1>1, <1>2, <1>3 DEF WalkStep

LEMMA ReturnEffect ==
  ASSUME RegistryOK, CallsOK, TableIInv, NEW keep \in BOOLEAN, CallbackReturns(keep)
  PROVE  RegistryOK' /\ CallsOK' /\ Calm /\ cooldown' = cooldown
<1>1. calls # <<>> /\ Top.timer # NULL
  BY DEF CallbackReturns
<1>2. CASE WalkReturns(keep)
  <2>1. CallsOK' /\ Top.at \in 1..Len(timers) /\ (IF keep THEN UNCHANGED registry ELSE EraseAt(Top.at))
    BY <1>1, <1>2, WalkReturnsEffect
  <2>2. RegistryOK' /\ Calm
    <3>1. CASE keep
      BY <2>1, <3>1, SameRegistry
    <3>2. CASE ~keep
      <4>1. EraseAt(Top.at) /\ Top.at \in 1..Len(timers)
        BY <2>1, <3>2
      <4>2. RegistryOK' /\ \A t \in Registered' : t \in Registered /\ fields'[t] = fields[t]
        BY <4>1, EraseEffect
      <4>3. QED
        BY <4>2 DEF Calm
    <3>3. QED
      BY <3>1, <3>2
  <2>3. QED
    BY <1>2, <2>1, <2>2 DEF WalkReturns
<1>3. CASE TriggerReturns(keep)
  BY <1>1, <1>3, TriggerReturnsEffect
<1>4. CASE CtorReturns(keep)
  BY <1>1, <1>4, CtorReturnsEffect
<1>5. QED
  BY <1>2, <1>3, <1>4 DEF CallbackReturns

LEMMA NativeEffect ==
  ASSUME RegistryOK, CallsOK, TableIInv, NativeStep
  PROVE  RegistryOK' /\ CallsOK' /\ Calm /\ cooldown' = cooldown
<1>1. ASSUME NEW t \in Timer, NEW i \in Interval, NEW exec \in BOOLEAN, NEW pause \in BOOLEAN,
             TimerCtor(t, i, exec, pause)
      PROVE  RegistryOK' /\ CallsOK' /\ Calm /\ cooldown' = cooldown
  BY <1>1, CtorEffect
<1>2. CASE TimerCtorBad
  BY <1>2, BadEffect, SameRegistry
<1>3. ASSUME NEW id \in Ids, NEW pause \in BOOLEAN, PauseSet(id, pause)
      PROVE  RegistryOK' /\ CallsOK' /\ Calm /\ cooldown' = cooldown
  BY <1>3, PauseEffect, SameCalls DEF PauseSet
<1>4. ASSUME NEW id \in Ids, NEW i \in Interval, IntervalSet(id, i)
      PROVE  RegistryOK' /\ CallsOK' /\ Calm /\ cooldown' = cooldown
  BY <1>4, IntervalEffect, SameCalls DEF IntervalSet
<1>5. ASSUME NEW id \in Ids, Trigger(id)
      PROVE  RegistryOK' /\ CallsOK' /\ Calm /\ cooldown' = cooldown
  BY <1>5, TriggerEffect
<1>6. ASSUME NEW id \in Ids, RemoveHandle(id)
      PROVE  RegistryOK' /\ CallsOK' /\ Calm /\ cooldown' = cooldown
  BY <1>6, RemoveHandleEffect
<1>7. QED
  BY <1>1, <1>2, <1>3, <1>4, <1>5, <1>6 DEF NativeStep

\* What the timers do to their handles are steps of the table.
LEMMA TableStep ==
  ASSUME CallsOK, [Next]_vars
  PROVE  [TableNext]_tableVars
<1>1. ASSUME NEW data \in Data, Create(data) PROVE TableNext
  BY <1>1 DEF TableNext
<1>2. ASSUME NEW id, Free(id) PROVE TableNext
  <2>1. id \in Ids
    BY <1>2 DEF Free, CanFree, Get
  <2>2. QED
    BY <1>2, <2>1 DEF TableNext
<1>3. CASE StartFrame
  BY <1>3 DEF StartFrame
<1>4. CASE WalkStep
  BY <1>4 DEF WalkStep, WalkSkips, WalkExecutes, WalkEnds
<1>5. CASE ChangeMap
  BY <1>5 DEF ChangeMap, TableNext
<1>6. ASSUME NEW keep \in BOOLEAN, CallbackReturns(keep) PROVE [TableNext]_tableVars
  <2>1. CASE WalkReturns(keep)
    BY <2>1 DEF WalkReturns
  <2>2. CASE TriggerReturns(keep)
    <3>1. UNCHANGED tableVars \/ Free(Top.id)
      BY <2>2 DEF TriggerReturns
    <3>2. QED
      BY <1>2, <3>1
  <2>3. CASE CtorReturns(keep)
    <3>1. calls # <<>> /\ Top.timer # NULL
      BY <1>6 DEF CallbackReturns
    <3>2. Top.timer \in Data
      BY <3>1, TopFacts DEF Data
    <3>3. UNCHANGED tableVars \/ Create(Top.timer)
      BY <2>3 DEF CtorReturns
    <3>4. QED
      BY <1>1, <3>2, <3>3
  <2>4. QED
    BY <1>6, <2>1, <2>2, <2>3 DEF CallbackReturns
<1>7. ASSUME NEW t \in Timer, NEW i \in Interval, NEW exec \in BOOLEAN, NEW pause \in BOOLEAN,
             TimerCtor(t, i, exec, pause)
      PROVE  [TableNext]_tableVars
  <2>1. UNCHANGED tableVars \/ Create(t)
    BY <1>7 DEF TimerCtor
  <2>2. QED
    BY <1>1, <2>1 DEF Data
<1>8. CASE TimerCtorBad
  <2>1. CreatesNull /\ Create(NULL)
    BY <1>8 DEF TimerCtorBad
  <2>2. QED
    BY <1>1, <2>1 DEF Data
<1>9. ASSUME NEW id \in Ids,
             \/ \E pause \in BOOLEAN : PauseSet(id, pause)
             \/ \E i \in Interval : IntervalSet(id, i)
             \/ Trigger(id)
             \/ RemoveHandle(id)
      PROVE  [TableNext]_tableVars
  <2>1. CASE RemoveHandle(id)
    BY <1>2, <2>1 DEF RemoveHandle
  <2>2. QED
    BY <1>9, <2>1 DEF PauseSet, IntervalSet, Trigger
<1>10. CASE UNCHANGED vars
  BY <1>10 DEF vars, tableVars
<1>11. QED
  BY <1>3, <1>4, <1>5, <1>6, <1>7, <1>8, <1>9, <1>10 DEF Next, NativeStep

LEMMA SoundInit == Init => Sound
<1> SUFFICES ASSUME Init PROVE Sound
  OBVIOUS
<1>1. /\ timers = <<>> /\ capacity = 0 /\ fields = [t \in {} |-> {}] /\ cooldown = 0
      /\ calls = <<>> /\ TableInit
  BY DEF Init
<1>2. Registered = {} /\ IsInjective(timers)
  BY <1>1 DEF Registered, Range, IsInjective
<1>3. fields \in [Registered -> TimerObject]
  BY <1>1, <1>2
<1>4. RegistryOK
  BY <1>1, <1>2, <1>3 DEF RegistryOK
<1>5. CallsOK
  BY <1>1, Numbers DEF CallsOK
<1>6. CooldownOK
  BY <1>1, Numbers DEF CooldownOK
<1>7. QED
  BY <1>1, <1>4, <1>5, <1>6, TableInitIInv DEF Sound

LEMMA SoundStep == Sound /\ [Next]_vars => Sound'
<1> SUFFICES ASSUME Sound, [Next]_vars PROVE Sound'
  OBVIOUS
<1>1. RegistryOK /\ CallsOK /\ CooldownOK /\ TableIInv
  BY DEF Sound
<1>2. TableIInv'
  BY <1>1, TableStep, StepKeepsIInv
<1>3. cooldown' = cooldown => CooldownOK'
  BY <1>1 DEF CooldownOK
<1>4. CASE StartFrame
  BY <1>1, <1>2, <1>4, StartEffect DEF Sound
<1>5. CASE WalkStep
  BY <1>1, <1>2, <1>3, <1>5, WalkStepEffect DEF Sound
<1>6. CASE ChangeMap
  BY <1>1, <1>2, <1>6, ChangeEffect DEF Sound
<1>7. ASSUME NEW keep \in BOOLEAN, CallbackReturns(keep) PROVE Sound'
  BY <1>1, <1>2, <1>3, <1>7, ReturnEffect DEF Sound
<1>8. CASE NativeStep
  BY <1>1, <1>2, <1>3, <1>8, NativeEffect DEF Sound
<1>9. CASE UNCHANGED vars
  <2>1. UNCHANGED registry /\ UNCHANGED calls /\ UNCHANGED cooldown
    BY <1>9 DEF vars, registry
  <2>2. QED
    BY <1>1, <1>2, <1>3, <2>1, SameRegistry, SameCalls DEF Sound
<1>10. QED
  BY <1>4, <1>5, <1>6, <1>7, <1>8, <1>9 DEF Next

LEMMA AlwaysSound == Spec => []Sound
BY SoundInit, SoundStep, PTL DEF Spec

\* The vector, the stack, the clock and the handles of the timers always have
\* the shape the code relies on, however executions nest and whatever callbacks
\* make, trigger and remove.
THEOREM TypeCorrect == Spec => []TypeOK
<1>1. Sound => TypeOK
  BY Parts DEF Sound
<1>2. QED
  BY <1>1, AlwaysSound, PTL

\* Whatever plugins do with their timers, what they see of the handles is an
\* abstract table: the one of TypeHandler, used by its operations alone.
THEOREM TimersUseTable == Spec => TableSpec /\ ImplementsHandleTable
<1>1. Init => TableInit
  BY DEF Init
<1>2. Sound /\ [Next]_vars => [TableNext]_tableVars
  BY TableStep DEF Sound
<1>3. Spec => TableSpec
  BY <1>1, <1>2, AlwaysSound, PTL DEF Spec, TableSpec
<1>4. QED
  BY <1>3, Refinement, PTL

----------------------------------------------------------------------------
(* Timers: walks and handles, while callbacks erase only later timers.     *)

\* What WalkStays and ServedBehind say of a walk.
OnWalk(w) ==
  /\ w.at <= Len(timers) + 1
  /\ w.timer # NULL => w.at <= Len(timers) /\ timers[w.at] = w.timer
  /\ \A i \in 1..Len(timers) : i < w.at \/ (i = w.at /\ w.timer # NULL) => ~Due(timers[i])

WalkIsSafe == Len(calls) > 0 /\ calls[1].kind = "walk" => OnWalk(calls[1])

LEMMA WalkIsFirst ==
  RegistryOK /\ CallsOK => (WalkIsSafe <=> WalkStays /\ ServedBehind)
<1> SUFFICES ASSUME RegistryOK, CallsOK
             PROVE  WalkIsSafe <=> WalkStays /\ ServedBehind
  OBVIOUS
<1>1. /\ DOMAIN timers = 1..Len(timers) /\ DOMAIN calls = 1..Len(calls) /\ Len(calls) \in Nat
      /\ \A k \in DOMAIN calls : calls[k].kind = "walk" => k = 1
  BY RegisteredAre DEF CallsOK
<1>2. WalkIsSafe => WalkStays /\ ServedBehind
  BY <1>1 DEF WalkIsSafe, OnWalk, WalkStays, ServedBehind
<1>3. Len(calls) > 0 => 1 \in DOMAIN calls
  BY <1>1
<1>4. WalkStays /\ ServedBehind => WalkIsSafe
  BY <1>1, <1>3 DEF WalkIsSafe, OnWalk, WalkStays, ServedBehind
<1>5. QED
  BY <1>2, <1>4

\* The walk is where it was when the vector gets more elements.
LEMMA WalkKept ==
  ASSUME RegistryOK, RegistryOK', Calm, Extended, NEW w, w.at \in Nat \ {0}, OnWalk(w)
  PROVE  /\ w.at <= Len(timers') + 1
         /\ w.timer # NULL => w.at <= Len(timers') /\ timers'[w.at] = w.timer
         /\ \A i \in 1..Len(timers') :
              i < w.at \/ (i = w.at /\ w.timer # NULL) => ~Due(timers[i])'
<1>1. /\ Len(timers) \in Nat /\ Len(timers') \in Nat /\ Len(timers) <= Len(timers')
      /\ \A j \in 1..Len(timers) : timers'[j] = timers[j]
      /\ \A j \in 1..Len(timers') : timers'[j] \in Registered'
  <2>1. Len(timers') \in Nat /\ \A j \in 1..Len(timers') : timers'[j] \in Registered'
    BY DEF RegistryOK, Registered, Range
  <2>2. QED
    BY <2>1, RegisteredAre DEF Extended
<1>2. w.at <= Len(timers) + 1 /\ (w.timer # NULL => w.at <= Len(timers) /\ timers[w.at] = w.timer)
  BY DEF OnWalk
<1>3. w.timer # NULL => w.at <= Len(timers') /\ timers'[w.at] = w.timer
  <2>1. w.timer # NULL => w.at \in 1..Len(timers)
    BY <1>1, <1>2
  <2>2. QED
    BY <1>1, <1>2, <2>1
<1>4. ASSUME NEW i \in 1..Len(timers'), i < w.at \/ (i = w.at /\ w.timer # NULL), Due(timers[i])'
      PROVE  FALSE
  <2>1. i \in 1..Len(timers)
    BY <1>1, <1>2, <1>4
  <2>2. PICK u : u = timers'[i]
    OBVIOUS
  <2>3. u \in Registered' /\ Due(u)'
    BY <1>1, <1>4, <2>2 DEF Due
  <2>4. Due(u) /\ u = timers[i]
    BY <1>1, <2>1, <2>2, <2>3, CalmStep
  <2>5. QED
    BY <1>4, <2>1, <2>4 DEF OnWalk
<1>5. QED
  BY <1>1, <1>2, <1>3, <1>4

LEMMA OldWalkKept ==
  ASSUME RegistryOK, RegistryOK', CallsOK, WalkIsSafe, Calm, Extended,
         Len(calls') > 0 /\ calls'[1].kind = "walk" => Len(calls) > 0 /\ Like(calls'[1], calls[1])
  PROVE  WalkIsSafe'
<1> SUFFICES ASSUME Len(calls') > 0, calls'[1].kind = "walk"
             PROVE  OnWalk(calls[1])'
  BY DEF WalkIsSafe
<1>1. PICK w : w = calls[1]
  OBVIOUS
<1>2. Len(calls) > 0 /\ Like(calls'[1], w)
  BY <1>1
<1>3. w.kind = "walk" /\ w.timer = calls'[1].timer /\ w.at = calls'[1].at
  BY <1>2 DEF Like
<1>4. w.at \in Nat \ {0}
  <2>1. calls # <<>> /\ Len(calls) \in Nat /\ 1 \in DOMAIN calls /\ calls[1] \in Frame
    BY <1>2 DEF CallsOK
  <2>2. w.at \in Nat /\ w.at > 0
    BY <1>1, <1>3, <2>1 DEF CallsOK, Frame
  <2>3. QED
    BY <2>2
<1>5. OnWalk(w)
  BY <1>1, <1>2, <1>3 DEF WalkIsSafe
<1>6. /\ w.at <= Len(timers') + 1
      /\ w.timer # NULL => w.at <= Len(timers') /\ timers'[w.at] = w.timer
      /\ \A i \in 1..Len(timers') :
           i < w.at \/ (i = w.at /\ w.timer # NULL) => ~Due(timers[i])'
  BY <1>4, <1>5, WalkKept
<1>7. QED
  BY <1>3, <1>6 DEF OnWalk

\* A stack without a walk leaves nothing to say.
LEMMA NoWalk ==
  ASSUME Len(calls') > 0 => calls'[1].kind # "walk"
  PROVE  WalkIsSafe'
BY DEF WalkIsSafe

LEMMA StartIsSafe ==
  ASSUME RegistryOK, CallsOK, CooldownOK, StartFrame
  PROVE  WalkIsSafe'
<1>1. CASE calls' = <<>>
  BY <1>1, NoWalk
<1>2. CASE calls' = <<Walk(1)>>
  <2>1. calls'[1] = Walk(1)
    BY <1>2
  <2>2. calls'[1].at = 1 /\ calls'[1].timer = NULL
    <3>1. Walk(1).at = 1 /\ Walk(1).timer = NULL
      BY WalkFrame
    <3>2. QED
      BY <2>1, <3>1
  <2>3. Len(timers') \in Nat
    BY RegisteredAre DEF StartFrame
  <2>4. OnWalk(calls[1])'
    BY <2>2, <2>3 DEF OnWalk
  <2>5. QED
    BY <2>4 DEF WalkIsSafe
<1>3. QED
  BY <1>1, <1>2, StartEffect

LEMMA WalkStepIsSafe ==
  ASSUME RegistryOK, CallsOK, WalkIsSafe, WalkStep
  PROVE  WalkIsSafe'
<1>1. Len(timers) \in Nat
  BY RegisteredAre
<1>2. Walking
  BY DEF WalkStep, WalkSkips, WalkExecutes, WalkEnds
<1>3. /\ Len(calls) = 1 /\ Top = calls[1] /\ Top.kind = "walk" /\ Top.timer = NULL
      /\ Top.at \in Nat \ {0}
  BY <1>2, WalkingFacts
<1>4. OnWalk(Top)
  BY <1>3 DEF WalkIsSafe
<1>5. CASE WalkSkips
  <2>1. UNCHANGED registry /\ Top.at <= Len(timers) /\ ~Due(timers[Top.at])
    BY <1>5 DEF WalkSkips
  <2>2. calls'[1].timer = NULL /\ calls'[1].at = Top.at + 1
    BY <1>5, SkipEffect
  <2>3. \A i \in 1..Len(timers) : i < Top.at + 1 => ~Due(timers[i])
    <3>1. \A i \in 1..Len(timers) : i < Top.at + 1 => i < Top.at \/ i = Top.at
      BY <1>3
    <3>2. QED
      BY <1>4, <2>1, <3>1 DEF OnWalk
  <2>4. \A i \in 1..Len(timers') : i < Top.at + 1 => ~Due(timers[i])'
    BY <2>1, <2>3 DEF Due, registry, Registered
  <2>5. Top.at + 1 <= Len(timers') + 1
    BY <1>1, <1>3, <2>1 DEF registry
  <2>6. OnWalk(calls[1])'
    BY <2>2, <2>4, <2>5 DEF OnWalk
  <2>7. QED
    BY <2>6 DEF WalkIsSafe
<1>6. CASE WalkExecutes
  <2>1. /\ calls'[1].timer = timers[Top.at] /\ calls'[1].at = Top.at
        /\ Top.at \in 1..Len(timers) /\ timers[Top.at] \in Registered
    BY <1>6, ExecutesEffect
  <2>2. /\ RegistryOK' /\ Calm /\ Extended /\ timers' = timers
        /\ fields'[timers[Top.at]].elapsed = 0
    BY <1>6, <2>1, ExecutedEffect DEF WalkExecutes
  <2>3. \A i \in 1..Len(timers') : i < Top.at => ~Due(timers[i])'
    <3>1. PICK w : w = Top
      OBVIOUS
    <3>2. w.at \in Nat \ {0} /\ OnWalk(w)
      BY <1>3, <1>4, <3>1
    <3>3. \A i \in 1..Len(timers') :
            i < w.at \/ (i = w.at /\ w.timer # NULL) => ~Due(timers[i])'
      BY <2>2, <3>2, WalkKept
    <3>4. QED
      BY <3>1, <3>3
  <2>4. \A i \in 1..Len(timers') : i = Top.at => ~Due(timers[i])'
    <3>1. ASSUME NEW u, u = timers[Top.at], Due(u)'
          PROVE  FALSE
      <4>1. u \in Registered'
        BY <2>1, <2>2, <3>1 DEF Registered
      <4>2. fields'[u].elapsed = 0 /\ fields'[u] \in TimerObject
        BY <2>2, <3>1, <4>1 DEF RegistryOK
      <4>3. fields'[u].interval \in Nat \ {0}
        BY <4>2, Numbers DEF TimerObject
      <4>4. QED
        BY <3>1, <4>2, <4>3 DEF Due
    <3>2. PICK u : u = timers[Top.at]
      OBVIOUS
    <3>3. ~Due(u)'
      BY <3>1, <3>2
    <3>4. QED
      BY <2>2, <3>2, <3>3 DEF Due
  <2>5. Len(timers') = Len(timers) /\ timers'[Top.at] = timers[Top.at]
    BY <2>2
  <2>6. OnWalk(calls[1])'
    BY <1>1, <2>1, <2>3, <2>4, <2>5 DEF OnWalk
  <2>7. QED
    BY <2>6 DEF WalkIsSafe
<1>7. CASE WalkEnds
  BY <1>7, EndEffect, NoWalk
<1>8. QED
  BY <1>5, <1>6, <1>7 DEF WalkStep

\* After a callback the timers behind the walk are those it went past, and the
\* one that was executed, unless that one is gone.
LEMMA WalkReturnIsSafe ==
  ASSUME RegistryOK, CallsOK, WalkIsSafe, calls # <<>>, Top.timer # NULL,
         NEW keep \in BOOLEAN, WalkReturns(keep)
  PROVE  WalkIsSafe'
<1>1. /\ Len(calls) = 1 /\ Top = calls[1] /\ Top.kind = "walk" /\ Top.at \in 1..Len(timers)
      /\ calls'[1] = Walk(IF keep THEN Top.at + 1 ELSE Top.at)
      /\ IF keep THEN UNCHANGED registry ELSE EraseAt(Top.at)
  BY WalkReturnsEffect
<1>2. Len(timers) \in Nat /\ Top.at \in Nat
  BY <1>1, RegisteredAre
<1>3. \A i \in 1..Len(timers) : i < Top.at \/ i = Top.at => ~Due(timers[i])
  BY <1>1 DEF WalkIsSafe, OnWalk
<1>4. PICK n : n = IF keep THEN Top.at + 1 ELSE Top.at
  OBVIOUS
<1>5. n \in Nat
  BY <1>2, <1>4
<1>6. calls'[1].at = n /\ calls'[1].timer = NULL
  BY <1>1, <1>4, <1>5, WalkFrame
<1>7. CASE keep
  <2>1. UNCHANGED registry /\ n = Top.at + 1
    BY <1>1, <1>4, <1>7
  <2>2. n <= Len(timers') + 1
    BY <1>1, <1>2, <2>1 DEF registry
  <2>3. \A i \in 1..Len(timers) : i < n => ~Due(timers[i])
    <3>1. \A i \in 1..Len(timers) : i < n => i < Top.at \/ i = Top.at
      BY <1>2, <2>1
    <3>2. QED
      BY <1>3, <3>1
  <2>4. \A i \in 1..Len(timers') : i < n => ~Due(timers[i])'
    BY <2>1, <2>3 DEF Due, registry, Registered
  <2>5. OnWalk(calls[1])'
    BY <1>6, <2>2, <2>4 DEF OnWalk
  <2>6. QED
    BY <2>5 DEF WalkIsSafe
<1>8. CASE ~keep
  <2>1. EraseAt(Top.at) /\ n = Top.at
    BY <1>1, <1>4, <1>8
  <2>2. /\ Len(timers') = Len(timers) - 1
        /\ \A j \in 1..Len(timers) - 1 : j < n => timers'[j] = timers[j]
        /\ Registered' = Registered \ {timers[Top.at]}
        /\ \A t \in Registered' : fields'[t] = fields[t]
    BY <1>1, <2>1, EraseEffect
  <2>3. n <= Len(timers') + 1
    BY <1>1, <1>2, <2>1, <2>2
  <2>4. ASSUME NEW i \in 1..Len(timers'), i < n, Due(timers[i])'
        PROVE  FALSE
    <3>1. PICK u : u = timers'[i]
      OBVIOUS
    <3>2. u \in Registered' /\ ~fields'[u].paused /\ fields'[u].elapsed >= fields'[u].interval
      BY <2>4, <3>1 DEF Due
    <3>3. i \in 1..Len(timers) /\ u = timers[i]
      BY <1>2, <2>2, <2>4, <3>1
    <3>4. u \in Registered /\ fields'[u] = fields[u]
      BY <2>2, <3>2
    <3>5. Due(timers[i])
      BY <3>2, <3>3, <3>4 DEF Due
    <3>6. QED
      BY <1>3, <2>1, <2>4, <3>3, <3>5
  <2>5. OnWalk(calls[1])'
    BY <1>6, <2>3, <2>4 DEF OnWalk
  <2>6. QED
    BY <2>5 DEF WalkIsSafe
<1>9. QED
  BY <1>7, <1>8

LEMMA OneOrMore == CallsOK /\ calls # <<>> => Len(calls) = 1 \/ Len(calls) > 1
<1> SUFFICES ASSUME CallsOK, calls # <<>>
             PROVE  Len(calls) = 1 \/ Len(calls) > 1
  OBVIOUS
<1>1. PICK n : n = Len(calls)
  OBVIOUS
<1>2. n \in Nat /\ n # 0
  BY <1>1, TopFacts
<1>3. n = 1 \/ n > 1
  BY <1>2
<1>4. QED
  BY <1>1, <1>3

\* What an execution inside a callback erases the walk has yet to come to, and
\* no other execution uses it.
LEMMA ErasesAhead ==
  ASSUME "Erase" \notin InCallback, NEW keep \in BOOLEAN, CallbackReturns(keep), ~keep, CallsOK
  PROVE  /\ Len(calls) = 1 \/ Ahead(Top.timer)
         /\ \A k \in 1..Len(calls) - 1 : calls[k].timer # Top.timer
<1>1. calls # <<>>
  BY DEF CallbackReturns
<1>2. Len(calls) = 1 \/ Len(calls) > 1
  BY <1>1, OneOrMore, Zenon
<1>3. CASE Len(calls) = 1
  BY <1>3
<1>4. CASE Len(calls) > 1
  <2>1. /\ MayErase(Top.timer)
        /\ "Erase" \in InCallback \/ \A k \in 1..Len(calls)-1 : calls[k].timer # Top.timer
    BY <1>4, Zenon DEF CallbackReturns
  <2>2. Ahead(Top.timer)
    BY <1>1, <2>1 DEF MayErase
  <2>3. QED
    BY <2>1, <2>2
<1>5. QED
  BY <1>2, <1>3, <1>4, Zenon

\* The walk is where it was when a timer goes that it has yet to come to.
LEMMA AheadKept ==
  ASSUME RegistryOK, CallsOK, WalkIsSafe, NEW t, RemoveTimer(t), Ahead(t),
         Len(calls') > 0 /\ calls'[1].kind = "walk" => Len(calls) > 0 /\ Like(calls'[1], calls[1])
  PROVE  WalkIsSafe'
<1>1. CASE t \notin Registered
  <2>1. UNCHANGED registry
    BY <1>1 DEF RemoveTimer
  <2>2. RegistryOK' /\ Calm /\ Extended
    BY <2>1, SameRegistry
  <2>3. QED
    BY <2>2, OldWalkKept
<1>2. CASE t \in Registered
  <2> SUFFICES ASSUME Len(calls') > 0, calls'[1].kind = "walk"
               PROVE  OnWalk(calls[1])'
    BY DEF WalkIsSafe
  <2>1. PICK w : w = calls[1]
    OBVIOUS
  <2>2. Len(calls) > 0 /\ Like(calls'[1], w)
    BY <2>1
  <2>3. w.kind = "walk" /\ w.timer = calls'[1].timer /\ w.at = calls'[1].at
    BY <2>2 DEF Like
  <2>4. 1 \in DOMAIN calls /\ w.at \in Nat \ {0}
    <3>1. calls # <<>> /\ Len(calls) \in Nat /\ 1 \in DOMAIN calls /\ calls[1] \in Frame
      BY <2>2 DEF CallsOK
    <3>2. w.at \in Nat /\ w.at > 0
      BY <2>1, <2>3, <3>1 DEF CallsOK, Frame
    <3>3. QED
      BY <3>1, <3>2
  <2>5. /\ w.at <= Len(timers) + 1
        /\ w.timer # NULL => w.at <= Len(timers) /\ timers[w.at] = w.timer
        /\ \A i \in 1..Len(timers) : i < w.at \/ (i = w.at /\ w.timer # NULL) => ~Due(timers[i])
    BY <2>1, <2>2, <2>3 DEF WalkIsSafe, OnWalk
  <2>6. DOMAIN timers = 1..Len(timers) /\ Len(timers) \in Nat /\ \E i \in DOMAIN timers : timers[i] = t
    BY <1>2, RegisteredAre
  <2>7. PICK n \in 1..Len(timers) : timers[n] = t /\ EraseAt(n)
    BY <1>2, <2>6 DEF RemoveTimer
  <2>8. w.at < n
    BY <2>1, <2>3, <2>4, <2>6, <2>7 DEF Ahead
  <2>9. /\ Len(timers') = Len(timers) - 1
        /\ \A j \in 1..Len(timers) - 1 : j < n => timers'[j] = timers[j]
        /\ Registered' = Registered \ {timers[n]}
        /\ \A u \in Registered' : fields'[u] = fields[u]
    BY <2>7, EraseEffect
  <2>10. w.at \in 1..Len(timers) - 1 /\ w.at <= Len(timers')
    BY <2>4, <2>6, <2>8, <2>9
  <2>11. w.timer # NULL => timers'[w.at] = w.timer
    BY <2>5, <2>8, <2>9, <2>10
  <2>12. ASSUME NEW i \in 1..Len(timers'), i < w.at \/ (i = w.at /\ w.timer # NULL), Due(timers[i])'
         PROVE  FALSE
    <3>1. PICK u : u = timers'[i]
      OBVIOUS
    <3>2. u \in Registered' /\ ~fields'[u].paused /\ fields'[u].elapsed >= fields'[u].interval
      BY <2>12, <3>1 DEF Due
    <3>3. i \in 1..Len(timers) /\ u = timers[i]
      BY <2>4, <2>6, <2>8, <2>9, <2>12, <3>1
    <3>4. u \in Registered /\ fields'[u] = fields[u]
      BY <2>9, <3>2
    <3>5. Due(timers[i])
      BY <3>2, <3>3, <3>4 DEF Due
    <3>6. QED
      BY <2>5, <2>12, <3>3, <3>5
  <2>13. w.at <= Len(timers') + 1
    BY <2>4, <2>6, <2>9, <2>10
  <2>14. QED
    BY <2>3, <2>10, <2>11, <2>12, <2>13 DEF OnWalk
<1>3. QED
  BY <1>1, <1>2

LEMMA ReturnIsSafe ==
  ASSUME "Erase" \notin InCallback, RegistryOK, CallsOK, TableIInv, WalkIsSafe,
         NEW keep \in BOOLEAN, CallbackReturns(keep)
  PROVE  WalkIsSafe'
<1>1. calls # <<>> /\ Top.timer # NULL
  BY DEF CallbackReturns
<1>2. CASE WalkReturns(keep)
  BY <1>1, <1>2, WalkReturnIsSafe
<1>3. CASE TriggerReturns(keep) \/ CtorReturns(keep)
  <2>1. RegistryOK' /\ Calm /\ calls' = Pop /\ (keep => UNCHANGED registry)
    BY <1>1, <1>3, TriggerReturnsEffect, CtorReturnsEffect
  <2>2. /\ Len(calls') = Len(calls) - 1 /\ DOMAIN calls' = 1..Len(calls) - 1
        /\ \A k \in 1..Len(calls) - 1 : calls'[k] = calls[k]
        /\ Len(calls) \in Nat
    BY <1>1, <2>1, PopCalls, TopFacts
  <2>3. CASE keep
    <3>1. Extended
      BY <2>1, <2>3, SameRegistry
    <3>2. Len(calls') > 0 => Len(calls) > 0 /\ Like(calls'[1], calls[1])
      <4>1. Len(calls') > 0 => 1 \in 1..Len(calls) - 1 /\ Len(calls) > 0
        BY <2>2
      <4>2. QED
        BY <2>2, <4>1 DEF Like
    <3>3. QED
      BY <2>1, <3>1, <3>2, OldWalkKept
  <2>4. CASE ~keep
    <3>1. CASE Len(calls) = 1
      BY <2>2, <3>1, NoWalk
    <3>2. CASE Ahead(Top.timer)
      <4>1. RemoveTimer(Top.timer)
        BY <1>3, <2>4 DEF TriggerReturns, CtorReturns
      <4>2. Len(calls') > 0 => Len(calls) > 0 /\ Like(calls'[1], calls[1])
        <5>1. Len(calls') > 0 => 1 \in 1..Len(calls) - 1 /\ Len(calls) > 0
          BY <2>2
        <5>2. QED
          BY <2>2, <5>1 DEF Like
      <4>3. QED
        BY <3>2, <4>1, <4>2, AheadKept
    <3>3. QED
      BY <2>4, <3>1, <3>2, ErasesAhead
  <2>5. QED
    BY <2>3, <2>4
<1>4. QED
  BY <1>2, <1>3 DEF CallbackReturns

\* A native on a timer leaves the walk alone.
LEMMA QuietIsSafe ==
  ASSUME RegistryOK, RegistryOK', CallsOK, WalkIsSafe, Calm, Extended, OldCalls,
         \A k \in DOMAIN calls' : k \in 1..Len(calls) \/ calls'[k].kind # "walk"
  PROVE  WalkIsSafe'
<1>1. Len(calls) \in Nat /\ (1 \in 1..Len(calls) => Len(calls) > 0)
  BY DEF CallsOK
<1>2. Len(calls') > 0 /\ calls'[1].kind = "walk" => 1 \in 1..Len(calls)
  <2>1. \/ DOMAIN calls' = 1..Len(calls') /\ Len(calls') \in Nat
        \/ ~(Len(calls') > 0)
    BY DEF OldCalls
  <2>2. QED
    BY <2>1 DEF OldCalls
<1>3. QED
  BY <1>1, <1>2, OldWalkKept DEF OldCalls

LEMMA NativeIsSafe ==
  ASSUME "Erase" \notin InCallback, RegistryOK, CallsOK, TableIInv, WalkIsSafe, NativeStep
  PROVE  WalkIsSafe'
<1>1. ASSUME NEW t \in Timer, NEW i \in Interval, NEW exec \in BOOLEAN, NEW pause \in BOOLEAN,
             TimerCtor(t, i, exec, pause)
      PROVE  WalkIsSafe'
  BY <1>1, CtorEffect, QuietIsSafe
<1>2. UNCHANGED calls => OldCalls /\ \A k \in DOMAIN calls' : k \in 1..Len(calls)
  BY SameCalls DEF CallsOK
<1>3. CASE TimerCtorBad
  <2>1. RegistryOK' /\ Calm /\ Extended
    BY <1>3, SameRegistry DEF TimerCtorBad
  <2>2. QED
    BY <1>2, <1>3, <2>1, QuietIsSafe DEF TimerCtorBad
<1>4. ASSUME NEW id \in Ids, NEW pause \in BOOLEAN, PauseSet(id, pause)
      PROVE  WalkIsSafe'
  BY <1>2, <1>4, PauseEffect, QuietIsSafe DEF PauseSet
<1>5. ASSUME NEW id \in Ids, NEW i \in Interval, IntervalSet(id, i)
      PROVE  WalkIsSafe'
  BY <1>2, <1>5, IntervalEffect, QuietIsSafe DEF IntervalSet
<1>6. ASSUME NEW id \in Ids, Trigger(id)
      PROVE  WalkIsSafe'
  BY <1>6, TriggerEffect, QuietIsSafe
<1>7. ASSUME NEW id \in Ids, RemoveHandle(id)
      PROVE  WalkIsSafe'
  <2>1. /\ calls' = calls /\ RemoveTimer(handlers[id])
        /\ calls = <<>> \/ Ahead(handlers[id])
    BY <1>7 DEF RemoveHandle, MayErase
  <2>2. CASE calls = <<>>
    BY <2>1, <2>2, NoWalk
  <2>3. CASE Ahead(handlers[id])
    BY <2>1, <2>3, AheadKept DEF Like
  <2>4. QED
    BY <2>1, <2>2, <2>3
<1>8. QED
  BY <1>1, <1>3, <1>4, <1>5, <1>6, <1>7 DEF NativeStep

LEMMA SafeStep ==
  ASSUME "Erase" \notin InCallback
  PROVE  Sound /\ WalkIsSafe /\ [Next]_vars => WalkIsSafe'
<1> SUFFICES ASSUME Sound, WalkIsSafe, [Next]_vars PROVE WalkIsSafe'
  OBVIOUS
<1>1. RegistryOK /\ CallsOK /\ CooldownOK /\ TableIInv
  BY DEF Sound
<1>2. CASE StartFrame
  BY <1>1, <1>2, StartIsSafe
<1>3. CASE WalkStep
  BY <1>1, <1>3, WalkStepIsSafe
<1>4. CASE ChangeMap
  BY <1>1, <1>4, ChangeEffect, NoWalk
<1>5. ASSUME NEW keep \in BOOLEAN, CallbackReturns(keep) PROVE WalkIsSafe'
  BY <1>1, <1>5, ReturnIsSafe
<1>6. CASE NativeStep
  BY <1>1, <1>6, NativeIsSafe
<1>7. CASE UNCHANGED vars
  <2>1. UNCHANGED registry /\ UNCHANGED calls
    BY <1>7 DEF vars, registry
  <2>2. OldCalls /\ \A k \in DOMAIN calls' : k \in 1..Len(calls)
    BY <1>1, <2>1, SameCalls DEF CallsOK
  <2>3. QED
    BY <1>1, <2>1, <2>2, SameRegistry, QuietIsSafe
<1>8. QED
  BY <1>2, <1>3, <1>4, <1>5, <1>6, <1>7 DEF Next

----------------------------------------------------------------------------
(* Timers: how late they can be.                                           *)

NoWalkRuns == \A k \in DOMAIN calls : calls[k].kind # "walk"

LEMMA QuietFits ==
  ASSUME MapLength <= Period, RegistryOK', CooldownOK, WaitsFit, Calm, cooldown' = cooldown,
         NoWalkRuns' => NoWalkRuns
  PROVE  WaitsFit'
<1>1. cooldown \in Nat /\ cooldown <= Period /\ Period \in Nat
  BY Numbers DEF CooldownOK
<1>2. ASSUME NoWalkRuns', NEW t \in Registered', ~fields'[t].paused
      PROVE  fields'[t].elapsed + cooldown' < fields'[t].interval + Period
  <2>1. fields'[t] \in TimerObject
    BY DEF RegistryOK
  <2>2. fields'[t].interval \in Nat \ {0}
    BY <2>1, Numbers DEF TimerObject
  <2>3. CASE t \in Registered /\ fields'[t] = fields[t]
    <3>1. NoWalkRuns /\ ~fields[t].paused
      BY <1>2, <2>3
    <3>2. fields[t].elapsed + cooldown < fields[t].interval + Period
      BY <2>3, <3>1 DEF WaitsFit, NoWalkRuns
    <3>3. QED
      BY <2>3, <3>2
  <2>4. CASE fields'[t].elapsed = 0
    BY <1>1, <2>2, <2>4
  <2>5. QED
    BY <1>2, <2>3, <2>4 DEF Calm
<1>3. QED
  BY <1>2 DEF WaitsFit, NoWalkRuns

\* While the walk runs there is nothing to say.
LEMMA WalkFits ==
  ASSUME 1 \in DOMAIN calls', calls'[1].kind = "walk"
  PROVE  WaitsFit'
BY DEF WaitsFit

LEMMA StartFits ==
  ASSUME MapLength <= Period, RegistryOK, CallsOK, CooldownOK, WaitsFit, StartFrame
  PROVE  WaitsFit'
<1>1. /\ Registered' = Registered
      /\ \A t \in Registered :
           /\ fields'[t].interval = fields[t].interval /\ fields'[t].paused = fields[t].paused
           /\ fields'[t].elapsed = Aged(fields[t].elapsed)
      /\ \/ calls' = <<Walk(1)>>
         \/ cooldown > 1 /\ cooldown' = cooldown - 1 /\ calls' = <<>>
  BY StartEffect
<1>2. CASE calls' = <<Walk(1)>>
  <2>1. 1 \in DOMAIN calls' /\ calls'[1] = Walk(1)
    BY <1>2
  <2>2. Walk(1).kind = "walk"
    BY WalkFrame
  <2>3. QED
    BY <2>1, <2>2, WalkFits
<1>3. CASE cooldown' = cooldown - 1
  <2>1. NoWalkRuns
    BY DEF StartFrame, NoWalkRuns
  <2>2. ASSUME NEW t \in Registered, ~fields'[t].paused
        PROVE  fields'[t].elapsed + cooldown' < fields'[t].interval + Period
    <3>1. fields[t].elapsed + cooldown < fields[t].interval + Period
      BY <1>1, <2>1, <2>2 DEF WaitsFit, NoWalkRuns
    <3>2. fields[t].elapsed \in Nat /\ fields[t].interval \in Nat
      BY ObjectsAre
    <3>3. fields'[t].elapsed \in Nat /\ fields'[t].elapsed <= fields[t].elapsed + 1
      BY <1>1, <3>2, Numbers DEF Aged
    <3>4. cooldown \in Nat /\ Period \in Nat
      BY Numbers DEF CooldownOK
    <3>5. fields'[t].interval = fields[t].interval
      BY <1>1
    <3>6. QED
      BY <1>3, <3>1, <3>2, <3>3, <3>4, <3>5
  <2>3. QED
    BY <1>1, <2>2 DEF WaitsFit
<1>4. QED
  BY <1>1, <1>2, <1>3

\* A walk that ends has left no timer due.
LEMMA EndFits ==
  ASSUME MapLength <= Period, RegistryOK, CallsOK, CooldownOK, WalkIsSafe, WalkEnds
  PROVE  WaitsFit'
<1>1. /\ Len(calls) = 1 /\ Top = calls[1] /\ Top.kind = "walk" /\ Top.at = Len(timers) + 1
      /\ UNCHANGED <<registry, cooldown, tableVars>>
  BY EndEffect
<1>2. cooldown \in Nat /\ cooldown <= Period /\ Period \in Nat /\ Len(timers) \in Nat
  BY Numbers, RegisteredAre DEF CooldownOK
<1>3. ASSUME NEW t \in Registered, ~fields[t].paused
      PROVE  fields[t].elapsed + cooldown < fields[t].interval + Period
  <2>1. PICK i \in 1..Len(timers) : timers[i] = t
    BY RegisteredAre
  <2>2. i < Top.at
    BY <1>1, <1>2
  <2>3. ~Due(t)
    BY <1>1, <2>1, <2>2 DEF WalkIsSafe, OnWalk
  <2>4. fields[t].elapsed \in Nat /\ fields[t].interval \in Nat
    BY ObjectsAre
  <2>5. fields[t].elapsed < fields[t].interval
    BY <1>3, <2>3, <2>4 DEF Due
  <2>6. QED
    BY <1>2, <2>4, <2>5
<1>4. Registered' = Registered /\ fields' = fields /\ cooldown' = cooldown
  BY <1>1 DEF registry, Registered
<1>5. QED
  BY <1>3, <1>4 DEF WaitsFit

LEMMA ReturnFits ==
  ASSUME MapLength <= Period, RegistryOK, CallsOK, CooldownOK, TableIInv, WaitsFit,
         NEW keep \in BOOLEAN, CallbackReturns(keep)
  PROVE  WaitsFit'
<1>1. calls # <<>> /\ Top.timer # NULL
  BY DEF CallbackReturns
<1>2. CASE WalkReturns(keep)
  <2>1. DOMAIN calls' = 1..1 /\ CallsOK' /\ Len(calls') = 1
    BY <1>1, <1>2, WalkReturnsEffect
  <2>2. Top.at \in 1..Len(timers) /\ calls'[1] = Walk(IF keep THEN Top.at + 1 ELSE Top.at)
    BY <1>1, <1>2, WalkReturnsEffect
  <2>3. calls'[1].kind = "walk"
    BY <2>2 DEF Walk
  <2>4. QED
    BY <2>1, <2>3, WalkFits
<1>3. CASE TriggerReturns(keep) \/ CtorReturns(keep)
  <2>1. /\ RegistryOK' /\ Calm /\ calls' = Pop /\ cooldown' = cooldown
        /\ Top.kind = "trigger" \/ Top.kind = "ctor"
    BY <1>1, <1>3, TriggerReturnsEffect, CtorReturnsEffect
  <2>2. /\ DOMAIN calls' = 1..Len(calls) - 1
        /\ \A k \in 1..Len(calls) - 1 : calls'[k] = calls[k]
        /\ Len(calls) \in Nat \ {0} /\ DOMAIN calls = 1..Len(calls) /\ Top = calls[Len(calls)]
    BY <1>1, <2>1, PopCalls, TopFacts
  <2>3. \A k \in DOMAIN calls : k \in 1..Len(calls) - 1 \/ k = Len(calls)
    BY <2>2
  <2>4. NoWalkRuns' => NoWalkRuns
    BY <2>1, <2>2, <2>3 DEF NoWalkRuns
  <2>5. QED
    BY <2>1, <2>4, QuietFits
<1>4. QED
  BY <1>2, <1>3 DEF CallbackReturns

LEMMA NativeFits ==
  ASSUME MapLength <= Period, RegistryOK, CallsOK, CooldownOK, TableIInv, WaitsFit, NativeStep
  PROVE  WaitsFit'
<1>1. RegistryOK' /\ Calm /\ cooldown' = cooldown
  BY NativeEffect
<1>2. OldCalls
  <2>1. ASSUME NEW t \in Timer, NEW i \in Interval, NEW exec \in BOOLEAN, NEW pause \in BOOLEAN,
               TimerCtor(t, i, exec, pause)
        PROVE  OldCalls
    BY <2>1, CtorEffect
  <2>2. ASSUME NEW id \in Ids, Trigger(id)
        PROVE  OldCalls
    BY <2>2, TriggerEffect
  <2>3. UNCHANGED calls => OldCalls
    BY SameCalls
  <2>4. QED
    BY <2>1, <2>2, <2>3 DEF NativeStep, TimerCtorBad, PauseSet, IntervalSet, RemoveHandle
<1>3. NoWalkRuns' => NoWalkRuns
  <2>1. DOMAIN calls = 1..Len(calls) /\ Len(calls) \in Nat
    BY DEF CallsOK
  <2>2. Len(calls') \in Nat
    BY NativeEffect DEF CallsOK
  <2>3. \A k \in 1..Len(calls) : k \in DOMAIN calls' /\ calls'[k].kind = calls[k].kind
    BY <1>2, <2>1, <2>2 DEF OldCalls, Like
  <2>4. QED
    BY <2>1, <2>3 DEF NoWalkRuns
<1>4. QED
  BY <1>1, <1>3, QuietFits

LEMMA FitStep ==
  ASSUME MapLength <= Period
  PROVE  Sound /\ WalkIsSafe /\ WaitsFit /\ [Next]_vars => WaitsFit'
<1> SUFFICES ASSUME Sound, WalkIsSafe, WaitsFit, [Next]_vars PROVE WaitsFit'
  OBVIOUS
<1>1. RegistryOK /\ CallsOK /\ CooldownOK /\ TableIInv
  BY DEF Sound
<1>2. CASE StartFrame
  BY <1>1, <1>2, StartFits
<1>3. CASE WalkSkips \/ WalkExecutes
  <2>1. DOMAIN calls' = 1..1 /\ calls'[1].kind = "walk"
    BY <1>1, <1>3, SkipEffect, ExecutesEffect
  <2>2. QED
    BY <2>1, WalkFits
<1>4. CASE WalkEnds
  BY <1>1, <1>4, EndFits
<1>5. CASE ChangeMap
  BY <1>1, <1>5, ChangeEffect DEF WaitsFit
<1>6. ASSUME NEW keep \in BOOLEAN, CallbackReturns(keep) PROVE WaitsFit'
  BY <1>1, <1>6, ReturnFits
<1>7. CASE NativeStep
  BY <1>1, <1>7, NativeFits
<1>8. CASE UNCHANGED vars
  BY <1>8 DEF vars, WaitsFit, Registered
<1>9. QED
  BY <1>2, <1>3, <1>4, <1>5, <1>6, <1>7, <1>8 DEF Next, WalkStep

LEMMA FitGivesPunctual == RegistryOK /\ CooldownOK /\ WaitsFit => Punctual
<1> SUFFICES ASSUME RegistryOK, CooldownOK, WaitsFit, calls = <<>>,
                    NEW t \in Registered, ~fields[t].paused
             PROVE  fields[t].elapsed < fields[t].interval + Period
  BY DEF Punctual
<1>1. fields[t].elapsed + cooldown < fields[t].interval + Period
  BY DEF WaitsFit
<1>2. fields[t].elapsed \in Nat /\ fields[t].interval \in Nat
  BY ObjectsAre
<1>3. cooldown \in Nat /\ Period \in Nat
  BY Numbers DEF CooldownOK
<1>4. QED
  BY <1>1, <1>2, <1>3

LEMMA SafeInit == Init => WalkIsSafe /\ WaitsFit
<1> SUFFICES ASSUME Init PROVE WalkIsSafe /\ WaitsFit
  OBVIOUS
<1>1. calls = <<>> /\ Registered = {}
  BY DEF Init, Registered, Range
<1>2. QED
  BY <1>1 DEF WalkIsSafe, WaitsFit

\* No walk passes a timer that is due, and between frames none is late by more
\* than the time between two walks: for any timers and intervals, whatever
\* callbacks make, pause and trigger, and whatever they erase that the walk has
\* yet to come to.
THEOREM TimersAreServed ==
  ASSUME "Erase" \notin InCallback, MapLength <= Period
  PROVE  Spec => []ServedInTime
<1>1. Sound /\ WalkIsSafe /\ WaitsFit => ServedInTime
  BY WalkIsFirst, FitGivesPunctual DEF Sound, ServedInTime
<1>2. Sound /\ WalkIsSafe /\ WaitsFit /\ [Next]_vars => (WalkIsSafe /\ WaitsFit)'
  BY SafeStep, FitStep
<1>3. QED
  BY <1>1, <1>2, SafeInit, AlwaysSound, PTL DEF Spec

----------------------------------------------------------------------------
(* Timers: their handles.                                                  *)

\* Executions by the constructor go on.
CtorsKept ==
  \A k \in DOMAIN calls :
    calls[k].kind = "ctor" => k \in DOMAIN calls' /\ Like(calls'[k], calls[k])

\* What is new on the stack of a Trigger native executes the timer of a handle.
TriggersKept ==
  \A k \in DOMAIN calls' :
    calls'[k].kind = "trigger" =>
      \/ k \in DOMAIN calls /\ Like(calls'[k], calls[k])
      \/ /\ calls'[k].id \in Ids' /\ calls'[k].timer # NULL
         /\ handlers'[calls'[k].id] = calls'[k].timer

LEMMA HoldKept ==
  ASSUME TriggersHold, LiveKept, TriggersKept
  PROVE  TriggersHold'
<1> SUFFICES ASSUME NEW k \in DOMAIN calls', calls'[k].kind = "trigger"
             PROVE  /\ calls'[k].id \in Ids' /\ calls'[k].timer # NULL
                    /\ handlers'[calls'[k].id] = calls'[k].timer
  BY DEF TriggersHold
<1>1. CASE k \in DOMAIN calls /\ Like(calls'[k], calls[k])
  <2>1. calls[k].kind = "trigger" /\ calls'[k].id = calls[k].id /\ calls'[k].timer = calls[k].timer
    BY <1>1 DEF Like
  <2>2. calls[k].id \in Ids /\ calls[k].timer # NULL /\ handlers[calls[k].id] = calls[k].timer
    BY <1>1, <2>1 DEF TriggersHold
  <2>3. QED
    BY <2>1, <2>2 DEF LiveKept
<1>2. QED
  BY <1>1 DEF TriggersKept

LEMMA HandleKept ==
  ASSUME RegistryOK, NEW t \in Registered, HasHandle(t), LiveKept, CtorsKept
  PROVE  HasHandle(t)'
<1>1. t # NULL
  BY RegisteredAre, Numbers
<1>2. ASSUME NEW id \in Ids, handlers[id] = t
      PROVE  HasHandle(t)'
  BY <1>1, <1>2 DEF LiveKept, HasHandle
<1>3. ASSUME NEW k \in DOMAIN calls, calls[k].kind = "ctor", calls[k].timer = t
      PROVE  HasHandle(t)'
  <2>1. k \in DOMAIN calls' /\ calls'[k].kind = "ctor" /\ calls'[k].timer = t
    BY <1>3 DEF CtorsKept, Like
  <2>2. QED
    BY <2>1 DEF HasHandle
<1>4. QED
  BY <1>2, <1>3 DEF HasHandle

LEMMA HandlesKept ==
  ASSUME RegistryOK, TimersHaveHandles, LiveKept, CtorsKept,
         \A t \in Registered' : t \in Registered \/ HasHandle(t)'
  PROVE  TimersHaveHandles'
<1>1. \A t \in Registered : HasHandle(t)
  BY DEF TimersHaveHandles, HasHandle
<1>2. \A t \in Registered' : HasHandle(t)'
  BY <1>1, HandleKept
<1>3. QED
  BY <1>2 DEF TimersHaveHandles, HasHandle

LEMMA SameTable ==
  ASSUME UNCHANGED tableVars
  PROVE  LiveKept /\ Ids' = Ids /\ handlers' = handlers
BY DEF tableVars, LiveKept, Ids

\* Executions on the stack stay there while natives add theirs.
LEMMA OldCallsKept ==
  ASSUME CallsOK, CallsOK', OldCalls
  PROVE  CtorsKept
<1>1. DOMAIN calls = 1..Len(calls) /\ Len(calls) \in Nat /\ Len(calls') \in Nat
  BY DEF CallsOK
<1>2. QED
  BY <1>1 DEF OldCalls, CtorsKept

LEMMA SameTriggers ==
  ASSUME CallsOK, OldCalls,
         \A k \in DOMAIN calls' : k \in 1..Len(calls) \/ calls'[k].kind # "trigger"
  PROVE  TriggersKept
<1>1. DOMAIN calls = 1..Len(calls)
  BY DEF CallsOK
<1>2. QED
  BY <1>1 DEF OldCalls, TriggersKept

\* The walk alone is on the stack: no native executes a timer.
LEMMA WalkKeepsHandles ==
  ASSUME RegistryOK, CallsOK, TriggersHold, TimersHaveHandles, UNCHANGED tableVars,
         Registered' \subseteq Registered,
         Len(calls) = 1 /\ Top = calls[1] /\ Top.kind = "walk",
         \A k \in DOMAIN calls' : calls'[k].kind = "walk"
  PROVE  TriggersHold' /\ TimersHaveHandles'
<1>1. DOMAIN calls = 1..1 /\ Len(calls) = 1
  BY DEF CallsOK
<1>2. CtorsKept /\ TriggersKept
  BY <1>1 DEF CtorsKept, TriggersKept
<1>3. QED
  BY <1>2, SameTable, HoldKept, HandlesKept

LEMMA WalkStepHandles ==
  ASSUME RegistryOK, CallsOK, TriggersHold, TimersHaveHandles, WalkStep
  PROVE  TriggersHold' /\ TimersHaveHandles'
<1>1. Walking
  BY DEF WalkStep, WalkSkips, WalkExecutes, WalkEnds
<1>2. Len(calls) = 1 /\ Top = calls[1] /\ Top.kind = "walk"
  BY <1>1, WalkingFacts
<1>3. timers' = timers /\ UNCHANGED tableVars
  BY DEF WalkStep, WalkSkips, WalkExecutes, WalkEnds, registry
<1>4. Registered' = Registered
  BY <1>3 DEF Registered
<1>5. \A k \in DOMAIN calls' : calls'[k].kind = "walk"
  <2>1. CASE WalkSkips
    BY <2>1, SkipEffect
  <2>2. CASE WalkExecutes
    BY <2>2, ExecutesEffect
  <2>3. CASE WalkEnds
    BY <2>3, EndEffect
  <2>4. QED
    BY <2>1, <2>2, <2>3 DEF WalkStep
<1>6. QED
  BY <1>2, <1>3, <1>4, <1>5, WalkKeepsHandles

\* A walk that erases its timer leaves the handle, and no other timer alone.
LEMMA WalkReturnHandles ==
  ASSUME RegistryOK, CallsOK, TriggersHold, TimersHaveHandles, calls # <<>>,
         NEW keep \in BOOLEAN, WalkReturns(keep)
  PROVE  TriggersHold' /\ TimersHaveHandles'
<1>1. /\ Len(calls) = 1 /\ Top = calls[1] /\ Top.kind = "walk" /\ Top.at \in 1..Len(timers)
      /\ DOMAIN calls' = 1..1
      /\ calls'[1] = Walk(IF keep THEN Top.at + 1 ELSE Top.at)
      /\ IF keep THEN UNCHANGED registry ELSE EraseAt(Top.at)
  BY WalkReturnsEffect
<1>2. calls'[1].kind = "walk"
  BY <1>1 DEF Walk
<1>3. \A k \in DOMAIN calls' : calls'[k].kind = "walk"
  BY <1>1, <1>2
<1>4. Registered' \subseteq Registered
  <2>1. CASE keep
    BY <1>1, <2>1 DEF registry, Registered
  <2>2. CASE ~keep
    BY <1>1, <2>2, EraseEffect
  <2>3. QED
    BY <2>1, <2>2
<1>5. UNCHANGED tableVars
  BY DEF WalkReturns
<1>6. QED
  BY <1>1, <1>3, <1>4, <1>5, WalkKeepsHandles

\* Trigger takes its own handle away when it erases its timer.
LEMMA TriggerReturnHandles ==
  ASSUME RegistryOK, CallsOK, TriggersHold, TimersHaveHandles, calls # <<>>,
         NEW keep \in BOOLEAN, TriggerReturns(keep),
         keep \/ \A k \in 1..Len(calls) - 1 : calls[k].timer # Top.timer
  PROVE  TriggersHold' /\ TimersHaveHandles'
<1>1. Top.kind = "trigger" /\ calls' = Pop
  BY TriggerReturnsEffect
<1>2. /\ DOMAIN calls' = 1..Len(calls) - 1
      /\ \A k \in 1..Len(calls) - 1 : calls'[k] = calls[k]
      /\ Len(calls) \in Nat \ {0} /\ DOMAIN calls = 1..Len(calls) /\ Top = calls[Len(calls)]
  BY <1>1, PopCalls, TopFacts
<1>3. CASE keep
  <2>1. UNCHANGED registry /\ UNCHANGED tableVars
    BY <1>3, TriggerReturnsEffect
  <2>2. \A k \in DOMAIN calls : k \in 1..Len(calls) - 1 \/ k = Len(calls)
    BY <1>2
  <2>3. CtorsKept
    BY <1>1, <1>2, <2>2 DEF CtorsKept, Like
  <2>4. TriggersKept
    BY <1>2 DEF TriggersKept, Like
  <2>5. LiveKept /\ Registered' = Registered
    BY <2>1, SameTable, SameRegistry
  <2>6. QED
    BY <2>3, <2>4, <2>5, HoldKept, HandlesKept
<1>4. CASE ~keep
  <2>1. /\ Registered' = Registered \ {Top.timer} /\ Ids' = Ids
        /\ \A i \in Ids \ {Top.id} : handlers'[i] = handlers[i]
    BY <1>4, TriggerReturnsEffect
  <2>2. Len(calls) \in DOMAIN calls /\ \A k \in DOMAIN calls : k \in 1..Len(calls) - 1 \/ k = Len(calls)
    BY <1>2
  <2>3. handlers[Top.id] = Top.timer
    BY <1>1, <1>2, <2>2 DEF TriggersHold
  <2>4. TriggersHold'
    <3> SUFFICES ASSUME NEW k \in 1..Len(calls) - 1, calls[k].kind = "trigger"
                 PROVE  /\ calls[k].id \in Ids /\ calls[k].timer # NULL
                        /\ handlers'[calls[k].id] = calls[k].timer
      BY <1>2, <2>1 DEF TriggersHold
    <3>1. k \in DOMAIN calls /\ calls[k].timer # Top.timer
      BY <1>2, <1>4
    <3>2. calls[k].id \in Ids /\ calls[k].timer # NULL /\ handlers[calls[k].id] = calls[k].timer
      BY <3>1 DEF TriggersHold
    <3>3. calls[k].id # Top.id
      BY <2>3, <3>1, <3>2
    <3>4. QED
      BY <2>1, <3>2, <3>3
  <2>5. ASSUME NEW t \in Registered'
        PROVE  HasHandle(t)'
    <3>1. t \in Registered /\ t # Top.timer
      BY <2>1
    <3>2. HasHandle(t)
      BY <3>1 DEF TimersHaveHandles, HasHandle
    <3>3. ASSUME NEW i \in Ids, handlers[i] = t
          PROVE  HasHandle(t)'
      <4>1. i # Top.id
        BY <2>3, <3>1, <3>3
      <4>2. QED
        BY <2>1, <3>3, <4>1 DEF HasHandle
    <3>4. ASSUME NEW k \in DOMAIN calls, calls[k].kind = "ctor", calls[k].timer = t
          PROVE  HasHandle(t)'
      <4>1. k \in DOMAIN calls' /\ calls'[k] = calls[k]
        BY <1>1, <1>2, <2>2, <3>4
      <4>2. QED
        BY <3>4, <4>1 DEF HasHandle
    <3>5. QED
      BY <3>2, <3>3, <3>4 DEF HasHandle
  <2>6. QED
    BY <2>4, <2>5 DEF TimersHaveHandles, HasHandle
<1>5. QED
  BY <1>3, <1>4

\* The constructor makes the handle it owes.
LEMMA CtorReturnHandles ==
  ASSUME RegistryOK, CallsOK, TableIInv, TriggersHold, TimersHaveHandles,
         calls # <<>>, Top.timer # NULL,
         NEW keep \in BOOLEAN, CtorReturns(keep)
  PROVE  TriggersHold' /\ TimersHaveHandles'
<1>1. Top.kind = "ctor" /\ calls' = Pop /\ LiveKept
  BY CtorReturnsEffect
<1>2. /\ DOMAIN calls' = 1..Len(calls) - 1
      /\ \A k \in 1..Len(calls) - 1 : calls'[k] = calls[k]
      /\ Len(calls) \in Nat \ {0} /\ DOMAIN calls = 1..Len(calls) /\ Top = calls[Len(calls)]
  BY <1>1, PopCalls, TopFacts
<1>3. \A k \in DOMAIN calls : k \in 1..Len(calls) - 1 \/ k = Len(calls)
  BY <1>2
<1>4. TriggersHold'
  <2>1. TriggersKept
    BY <1>2 DEF TriggersKept, Like
  <2>2. QED
    BY <1>1, <2>1, HoldKept
<1>5. ASSUME NEW t \in Registered, t # Top.timer
      PROVE  HasHandle(t)'
  <2>1. HasHandle(t)
    BY DEF TimersHaveHandles, HasHandle
  <2>2. ASSUME NEW id \in Ids, handlers[id] = t
        PROVE  HasHandle(t)'
    <3>1. t # NULL
      BY RegisteredAre, Numbers
    <3>2. QED
      BY <1>1, <2>2, <3>1 DEF LiveKept, HasHandle
  <2>3. ASSUME NEW k \in DOMAIN calls, calls[k].kind = "ctor", calls[k].timer = t
        PROVE  HasHandle(t)'
    <3>1. k \in DOMAIN calls' /\ calls'[k] = calls[k]
      BY <1>2, <1>3, <1>5, <2>3
    <3>2. QED
      BY <2>3, <3>1 DEF HasHandle
  <2>4. QED
    BY <2>1, <2>2, <2>3 DEF HasHandle
<1>6. \A t \in Registered' : HasHandle(t)'
  <2>1. CASE keep
    <3>1. UNCHANGED registry /\ \E id \in Ids' : handlers'[id] = Top.timer
      BY <2>1, CtorReturnsEffect
    <3>2. Registered' = Registered
      BY <3>1, SameRegistry
    <3>3. ASSUME NEW t \in Registered', t = Top.timer PROVE HasHandle(t)'
      BY <3>1, <3>3 DEF HasHandle
    <3>4. QED
      BY <1>5, <3>2, <3>3
  <2>2. CASE ~keep
    <3>1. Registered' = Registered \ {Top.timer}
      BY <2>2, CtorReturnsEffect
    <3>2. QED
      BY <1>5, <3>1
  <2>3. QED
    BY <2>1, <2>2
<1>7. QED
  BY <1>4, <1>6 DEF TimersHaveHandles, HasHandle

LEMMA ReturnHandles ==
  ASSUME "Erase" \notin InCallback, RegistryOK, CallsOK, TableIInv,
         TriggersHold, TimersHaveHandles, NEW keep \in BOOLEAN, CallbackReturns(keep)
  PROVE  TriggersHold' /\ TimersHaveHandles'
<1>1. calls # <<>> /\ Top.timer # NULL
  BY DEF CallbackReturns
<1>2. keep \/ \A k \in 1..Len(calls) - 1 : calls[k].timer # Top.timer
  BY ErasesAhead
<1>3. CASE WalkReturns(keep)
  BY <1>1, <1>3, WalkReturnHandles
<1>4. CASE TriggerReturns(keep)
  BY <1>1, <1>2, <1>4, TriggerReturnHandles
<1>5. CASE CtorReturns(keep)
  BY <1>1, <1>5, CtorReturnHandles
<1>6. QED
  BY <1>3, <1>4, <1>5 DEF CallbackReturns

\* The Remove native takes timer and handle away, of none that is executed.
LEMMA RemoveHandleHandles ==
  ASSUME "Erase" \notin InCallback, RegistryOK, CallsOK, TriggersHold, TimersHaveHandles,
         NEW id \in Ids, RemoveHandle(id)
  PROVE  TriggersHold' /\ TimersHaveHandles'
<1>1. /\ Registered' = Registered \ {handlers[id]} /\ Ids' = Ids
      /\ \A i \in Ids \ {id} : handlers'[i] = handlers[i]
      /\ calls' = calls
  BY RemoveHandleEffect
<1>2. \A k \in DOMAIN calls : calls[k].timer # handlers[id]
  BY DEF RemoveHandle, Executing
<1>3. TriggersHold'
  BY <1>1, <1>2 DEF TriggersHold
<1>4. ASSUME NEW t \in Registered'
      PROVE  HasHandle(t)'
  <2>1. t \in Registered /\ t # handlers[id]
    BY <1>1
  <2>2. HasHandle(t)
    BY <2>1 DEF TimersHaveHandles, HasHandle
  <2>3. QED
    BY <1>1, <2>1, <2>2 DEF HasHandle
<1>5. QED
  BY <1>3, <1>4 DEF TimersHaveHandles, HasHandle

LEMMA NativeHandles ==
  ASSUME "Erase" \notin InCallback, RegistryOK, CallsOK, TableIInv,
         TriggersHold, TimersHaveHandles, NativeStep
  PROVE  TriggersHold' /\ TimersHaveHandles'
<1>1. ASSUME NEW t \in Timer, NEW i \in Interval, NEW exec \in BOOLEAN, NEW pause \in BOOLEAN,
             TimerCtor(t, i, exec, pause)
      PROVE  TriggersHold' /\ TimersHaveHandles'
  <2>1. /\ CallsOK' /\ OldCalls /\ LiveKept /\ Registered' = Registered \cup {t} /\ HasHandle(t)'
        /\ \A k \in DOMAIN calls' : k \in 1..Len(calls) \/ calls'[k].kind = "ctor"
    BY <1>1, CtorEffect
  <2>2. CtorsKept /\ TriggersKept
    BY <2>1, OldCallsKept, SameTriggers
  <2>3. QED
    BY <2>1, <2>2, HoldKept, HandlesKept
<1>2. ASSUME UNCHANGED calls, LiveKept, Registered' = Registered
      PROVE  TriggersHold' /\ TimersHaveHandles'
  <2>1. CallsOK' /\ OldCalls
    BY <1>2, SameCalls
  <2>2. CtorsKept /\ TriggersKept
    BY <1>2, <2>1, OldCallsKept DEF TriggersKept, OldCalls, Like
  <2>3. QED
    BY <1>2, <2>2, HoldKept, HandlesKept
<1>3. CASE TimerCtorBad
  BY <1>2, <1>3, BadEffect, SameRegistry
<1>4. ASSUME NEW id \in Ids, NEW pause \in BOOLEAN, PauseSet(id, pause)
      PROVE  TriggersHold' /\ TimersHaveHandles'
  BY <1>2, <1>4, PauseEffect, SameTable DEF PauseSet
<1>5. ASSUME NEW id \in Ids, NEW i \in Interval, IntervalSet(id, i)
      PROVE  TriggersHold' /\ TimersHaveHandles'
  BY <1>2, <1>5, IntervalEffect, SameTable DEF IntervalSet
<1>6. ASSUME NEW id \in Ids, Trigger(id)
      PROVE  TriggersHold' /\ TimersHaveHandles'
  <2>1. /\ CallsOK' /\ OldCalls /\ Registered' = Registered /\ UNCHANGED tableVars
        /\ \A k \in DOMAIN calls' :
             \/ k \in 1..Len(calls)
             \/ /\ calls'[k].kind = "trigger" /\ calls'[k].id = id
                /\ calls'[k].timer = handlers[id] /\ handlers[id] \in Timer
    BY <1>6, TriggerEffect
  <2>2. LiveKept /\ Ids' = Ids /\ handlers' = handlers
    BY <2>1, SameTable
  <2>3. CtorsKept
    BY <2>1, OldCallsKept
  <2>4. TriggersKept
    <3>1. DOMAIN calls = 1..Len(calls) /\ \A t \in Timer : t # NULL
      BY Numbers DEF CallsOK
    <3>2. QED
      BY <2>1, <2>2, <3>1 DEF TriggersKept, OldCalls
  <2>5. QED
    BY <2>1, <2>2, <2>3, <2>4, HoldKept, HandlesKept
<1>7. ASSUME NEW id \in Ids, RemoveHandle(id)
      PROVE  TriggersHold' /\ TimersHaveHandles'
  BY <1>7, RemoveHandleHandles
<1>8. QED
  BY <1>1, <1>3, <1>4, <1>5, <1>6, <1>7 DEF NativeStep

LEMMA HandlesStep ==
  ASSUME "Erase" \notin InCallback
  PROVE  Sound /\ TriggersHold /\ TimersHaveHandles /\ [Next]_vars
           => TriggersHold' /\ TimersHaveHandles'
<1> SUFFICES ASSUME Sound, TriggersHold, TimersHaveHandles, [Next]_vars
             PROVE  TriggersHold' /\ TimersHaveHandles'
  OBVIOUS
<1>1. RegistryOK /\ CallsOK /\ CooldownOK /\ TableIInv
  BY DEF Sound
<1>2. CASE StartFrame
  <2>1. Registered' = Registered /\ UNCHANGED tableVars /\ calls = <<>>
    BY <1>2 DEF StartFrame, Registered
  <2>2. calls' = <<>> \/ calls' = <<Walk(1)>>
    BY <1>1, <1>2, StartEffect
  <2>3. \A k \in DOMAIN calls' : calls'[k].kind = "walk"
    <3>1. CASE calls' = <<Walk(1)>>
      BY <3>1 DEF Walk
    <3>2. QED
      BY <2>2, <3>1
  <2>4. CtorsKept /\ TriggersKept
    BY <2>1, <2>3 DEF CtorsKept, TriggersKept
  <2>5. QED
    BY <1>1, <2>1, <2>4, SameTable, HoldKept, HandlesKept
<1>3. CASE WalkStep
  BY <1>1, <1>3, WalkStepHandles
<1>4. CASE ChangeMap
  BY <1>1, <1>4, ChangeEffect DEF TriggersHold, TimersHaveHandles
<1>5. ASSUME NEW keep \in BOOLEAN, CallbackReturns(keep)
      PROVE  TriggersHold' /\ TimersHaveHandles'
  BY <1>1, <1>5, ReturnHandles
<1>6. CASE NativeStep
  BY <1>1, <1>6, NativeHandles
<1>7. CASE UNCHANGED vars
  BY <1>7 DEF vars, TriggersHold, TimersHaveHandles, Ids, Registered
<1>8. QED
  BY <1>2, <1>3, <1>4, <1>5, <1>6, <1>7 DEF Next

\* Every registered timer has a handle, unless its constructor is executing it
\* and will make one: a plugin can always pause or remove what it made.
THEOREM TimersAreReachable ==
  ASSUME "Erase" \notin InCallback
  PROVE  Spec => []TimersHaveHandles
<1>1. Init => TriggersHold /\ TimersHaveHandles
  BY DEF Init, TriggersHold, TimersHaveHandles, Registered, Range
<1>2. Sound /\ TriggersHold /\ TimersHaveHandles /\ [Next]_vars
        => (TriggersHold /\ TimersHaveHandles)'
  BY HandlesStep
<1>3. QED
  BY <1>1, <1>2, AlwaysSound, PTL DEF Spec

----------------------------------------------------------------------------
(* Timers: the iterator, while the vector stays where it is.               *)

ValidWalk == \A k \in DOMAIN calls : calls[k].kind = "walk" => calls[k].valid

LEMMA PopIsValid ==
  ASSUME CallsOK, ValidWalk, calls # <<>>, calls' = Pop
  PROVE  ValidWalk'
<1>1. /\ DOMAIN calls' = 1..Len(calls) - 1
      /\ \A k \in 1..Len(calls) - 1 : calls'[k] = calls[k]
      /\ Len(calls) \in Nat \ {0} /\ DOMAIN calls = 1..Len(calls)
  BY PopCalls, TopFacts
<1>2. \A k \in 1..Len(calls) - 1 : k \in DOMAIN calls
  BY <1>1
<1>3. QED
  BY <1>1, <1>2 DEF ValidWalk

LEMMA WalkStepIsValid ==
  ASSUME RegistryOK, CallsOK, ValidWalk, WalkStep
  PROVE  ValidWalk'
<1>1. Walking
  BY DEF WalkStep, WalkSkips, WalkExecutes, WalkEnds
<1>2. Top.valid
  BY <1>1 DEF Walking
<1>3. CASE WalkSkips
  <2>1. DOMAIN calls' = 1..1 /\ calls'[1].valid = Top.valid
    BY <1>3, SkipEffect
  <2>2. \A k \in DOMAIN calls' : k = 1
    BY <2>1
  <2>3. QED
    BY <1>2, <2>1, <2>2 DEF ValidWalk
<1>4. CASE WalkExecutes
  <2>1. DOMAIN calls' = 1..1 /\ calls'[1].valid = Top.valid
    BY <1>4, ExecutesEffect
  <2>2. \A k \in DOMAIN calls' : k = 1
    BY <2>1
  <2>3. QED
    BY <1>2, <2>1, <2>2 DEF ValidWalk
<1>5. CASE WalkEnds
  BY <1>5, EndEffect DEF ValidWalk
<1>6. QED
  BY <1>3, <1>4, <1>5 DEF WalkStep

LEMMA ReturnIsValid ==
  ASSUME RegistryOK, CallsOK, TableIInv, ValidWalk, NEW keep \in BOOLEAN, CallbackReturns(keep)
  PROVE  ValidWalk'
<1>1. calls # <<>> /\ Top.timer # NULL
  BY DEF CallbackReturns
<1>2. CASE WalkReturns(keep)
  <2>1. DOMAIN calls' = 1..1 /\ calls'[1] = Walk(IF keep THEN Top.at + 1 ELSE Top.at)
    BY <1>1, <1>2, WalkReturnsEffect
  <2>2. calls'[1].valid
    BY <2>1 DEF Walk
  <2>3. \A k \in DOMAIN calls' : k = 1
    BY <2>1
  <2>4. QED
    BY <2>2, <2>3 DEF ValidWalk
<1>3. CASE TriggerReturns(keep) \/ CtorReturns(keep)
  BY <1>1, <1>3, PopIsValid DEF TriggerReturns, CtorReturns
<1>4. QED
  BY <1>2, <1>3 DEF CallbackReturns

LEMMA NativeIsValid ==
  ASSUME "Create" \notin InCallback, RegistryOK, CallsOK, TableIInv, ValidWalk, NativeStep
  PROVE  ValidWalk'
<1>1. ASSUME NEW t \in Timer, NEW i \in Interval, NEW exec \in BOOLEAN, NEW pause \in BOOLEAN,
             TimerCtor(t, i, exec, pause)
      PROVE  ValidWalk'
  <2>1. \A k \in DOMAIN calls' : k \in 1..Len(calls) \/ calls'[k].kind = "ctor"
    BY <1>1, CtorEffect
  <2>2. CASE calls = <<>>
    <3>1. \A k \in DOMAIN calls' : calls'[k].kind = "ctor"
      BY <2>1, <2>2
    <3>2. QED
      BY <3>1 DEF ValidWalk
  <2>3. CASE calls # <<>>
    <3>1. Grown = capacity
      BY <1>1, <2>3 DEF TimerCtor, MayCreate
    <3>2. Moved(calls) = calls
      BY <3>1 DEF Moved
    <3>3. PICK c : c = CtorCall(t)
      OBVIOUS
    <3>4. c \in Frame
      BY <3>3, CtorFrame
    <3>5. calls' = calls \/ calls' = Append(calls, c)
      BY <1>1, <3>2, <3>3 DEF TimerCtor, CtorCall
    <3>6. \A k \in 1..Len(calls) : calls'[k] = calls[k]
      <4>1. CASE calls' = Append(calls, c)
        BY <3>4, <4>1, PushEffect DEF CallsOK
      <4>2. QED
        BY <3>5, <4>1
    <3>7. DOMAIN calls = 1..Len(calls)
      BY DEF CallsOK
    <3>8. QED
      BY <2>1, <3>6, <3>7 DEF ValidWalk
  <2>4. QED
    BY <2>2, <2>3
<1>2. ASSUME NEW id \in Ids, Trigger(id)
      PROVE  ValidWalk'
  <2>1. PICK c : c = TriggerCall(handlers[id], id)
    OBVIOUS
  <2>2. handlers[id] \in Timer /\ id \in 0..MaxIds-1
    <3>1. handlers[id] \in Registered
      BY <1>2 DEF Trigger, On, Get
    <3>2. id \in 0..Size-1 /\ Size \in 0..MaxIds
      BY DEF TableIInv, TableTypeOK, Ids
    <3>3. id \in 0..MaxIds-1
      BY <3>2, Numbers
    <3>4. QED
      BY <3>1, <3>3, RegisteredAre
  <2>3. c \in Frame /\ c.kind = "trigger"
    BY <2>1, <2>2, TriggerFrame
  <2>4. calls' = Append(calls, c)
    BY <1>2, <2>1 DEF Trigger, TriggerCall
  <2>5. /\ Len(calls) \in Nat /\ DOMAIN calls = 1..Len(calls) /\ DOMAIN calls' = 1..Len(calls) + 1
        /\ \A k \in 1..Len(calls) : calls'[k] = calls[k]
        /\ calls'[Len(calls) + 1] = c
    BY <2>3, <2>4, PushEffect DEF CallsOK
  <2>6. \A k \in DOMAIN calls' : k \in 1..Len(calls) \/ k = Len(calls) + 1
    BY <2>5
  <2>7. QED
    BY <2>3, <2>5, <2>6 DEF ValidWalk
<1>3. UNCHANGED calls => ValidWalk'
  BY DEF ValidWalk
<1>4. QED
  BY <1>1, <1>2, <1>3 DEF NativeStep, TimerCtorBad, PauseSet, IntervalSet, RemoveHandle

LEMMA ValidStep ==
  ASSUME "Create" \notin InCallback
  PROVE  Sound /\ ValidWalk /\ [Next]_vars => ValidWalk'
<1> SUFFICES ASSUME Sound, ValidWalk, [Next]_vars PROVE ValidWalk'
  OBVIOUS
<1>1. RegistryOK /\ CallsOK /\ CooldownOK /\ TableIInv
  BY DEF Sound
<1>2. CASE StartFrame
  <2>1. calls' = <<>> \/ calls' = <<Walk(1)>>
    BY <1>1, <1>2, StartEffect
  <2>2. CASE calls' = <<Walk(1)>>
    BY <2>2 DEF ValidWalk, Walk
  <2>3. QED
    BY <2>1, <2>2 DEF ValidWalk
<1>3. CASE WalkStep
  BY <1>1, <1>3, WalkStepIsValid
<1>4. CASE ChangeMap
  BY <1>1, <1>4, ChangeEffect DEF ValidWalk
<1>5. ASSUME NEW keep \in BOOLEAN, CallbackReturns(keep) PROVE ValidWalk'
  BY <1>1, <1>5, ReturnIsValid
<1>6. CASE NativeStep
  BY <1>1, <1>6, NativeIsValid
<1>7. CASE UNCHANGED vars
  BY <1>7 DEF vars, ValidWalk
<1>8. QED
  BY <1>2, <1>3, <1>4, <1>5, <1>6, <1>7 DEF Next

\* execTimers() never uses an iterator that a callback made useless, and it is
\* at the timer whose callback it called, however callbacks pause, reset and
\* trigger timers, whatever timers they make while the vector has room, and
\* whatever timers they erase that the walk has yet to come to.
THEOREM IteratorIsSafe ==
  ASSUME "Erase" \notin InCallback, "Create" \notin InCallback
  PROVE  Spec => []IteratorHolds
<1>1. Sound /\ WalkIsSafe /\ ValidWalk => IteratorHolds
  <2> SUFFICES ASSUME Sound, WalkIsSafe, ValidWalk PROVE IteratorHolds
    OBVIOUS
  <2>1. TypeOK /\ WalkStays
    BY Parts, WalkIsFirst DEF Sound
  <2>2. QED
    BY <2>1 DEF IteratorHolds, WalkStays, ValidWalk
<1>2. Sound /\ WalkIsSafe /\ ValidWalk /\ [Next]_vars => (WalkIsSafe /\ ValidWalk)'
  BY SafeStep, ValidStep
<1>3. Init => WalkIsSafe /\ ValidWalk
  BY SafeInit DEF Init, ValidWalk
<1>4. QED
  BY <1>1, <1>2, <1>3, AlwaysSound, PTL DEF Spec

\* Nor does a walk pass a timer that is due on a map whose clock starts far
\* behind m_nextExecution, or when callbacks make timers.
THEOREM WalksPassNoneDue ==
  ASSUME "Erase" \notin InCallback
  PROVE  Spec => [](WalkStays /\ ServedBehind)
<1>1. Sound /\ WalkIsSafe => WalkStays /\ ServedBehind
  BY WalkIsFirst DEF Sound
<1>2. Sound /\ WalkIsSafe /\ [Next]_vars => WalkIsSafe'
  BY SafeStep
<1>3. QED
  BY <1>1, <1>2, SafeInit, AlwaysSound, PTL DEF Spec

----------------------------------------------------------------------------
(* Timers: the inductive invariant as a whole.                             *)

LEMMA IInvParts ==
  IInv <=> Sound /\ WalkIsSafe /\ WaitsFit /\ TriggersHold /\ TimersHaveHandles
<1>1. Sound => RegistryOK /\ CallsOK
  BY DEF Sound
<1>2. TypeOK /\ FreeIdsAreFree <=> Sound
  BY Parts DEF Sound
<1>3. QED
  BY <1>1, <1>2, WalkIsFirst DEF IInv

\* What TLC checks of IInv on a few timers holds of any number: the initial
\* state satisfies it and every step keeps it.
THEOREM InductiveInvariant ==
  ASSUME "Erase" \notin InCallback, MapLength <= Period
  PROVE  (Init => IInv) /\ (IInv /\ [Next]_vars => IInv')
<1>1. Init => IInv
  <2>1. Init => TriggersHold /\ TimersHaveHandles
    BY DEF Init, TriggersHold, TimersHaveHandles, Registered, Range
  <2>2. QED
    BY <2>1, SoundInit, SafeInit, IInvParts
<1>2. IInv' <=> (Sound /\ WalkIsSafe /\ WaitsFit /\ TriggersHold /\ TimersHaveHandles)'
  BY IInvParts, PTL
<1>3. IInv /\ [Next]_vars => IInv'
  BY <1>2, IInvParts, SoundStep, SafeStep, FitStep, HandlesStep
<1>4. QED
  BY <1>1, <1>3

=============================================================================
