-------------------------- MODULE PluginMngr_proofs --------------------------
(***************************************************************************)
(* Proofs about extensions, plugins and natives, for any files, tables of  *)
(* natives, arguments and depth of calls, while plugins of other adapters  *)
(* do not call natives of these and no queued command changes the map      *)
(* under a plugin.                                                         *)
(*                                                                         *)
(* The inductive invariant IInv gives each call its place in the stacks of *)
(* the natives: the number of calls up to it that are on the same stack.   *)
(***************************************************************************)
EXTENDS PluginMngr, FiniteSetTheorems, SequenceTheorems, TLAPS

----------------------------------------------------------------------------
(* The parts of the invariant.                                             *)

ExtTypes ==
  /\ phase \in Phase /\ found \subseteq Ext /\ handles \in Seq(Ext)
  /\ started \in 0..Len(handles) /\ interfaces \subseteq Ext /\ held \subseteq Manager

PluginTypes ==
  /\ unread \subseteq File /\ Loaded \subseteq File /\ list \in Seq(File)
  /\ ids \in [Loaded -> Nat] /\ DOMAIN bound = Loaded
  /\ \A f \in Loaded : bound[f] \in [DOMAIN Imports[f] -> File \cup {None, Core, Elsewhere}]
  /\ proxied \in [Native -> File \cup {None, Elsewhere}]
  /\ pluginNatives \in [Native -> File \cup {None, Elsewhere}]

CallTypes == stack \in Seq(Call) /\ current \in Seq(Native) /\ given \in [Native -> Seq(Given)]

\* Every plugin is in the list at the place its id names.
IdsArePlaces ==
  /\ \A f \in Loaded : ids[f] < Len(list) /\ list[ids[f] + 1] = f
  /\ Len(list) = Cardinality(Loaded)

ExtOK == ExtTypes /\ LibrariesAreOpen

PluginOK == PluginTypes /\ TablesAgree /\ IdsArePlaces

CallOK == CallTypes /\ CallsAreOfPlugins /\ StacksAgree

LEMMA NamesOfCode ==
  /\ None \notin File /\ None \notin Native /\ Core \notin File /\ Elsewhere \notin File
  /\ None # Core /\ None # Elsewhere /\ BuiltIn \subseteq Native /\ IsFiniteSet(File)
  BY PluginsAndNatives

LEMMA CallOfStack ==
  ASSUME CallTypes, NEW k \in DOMAIN stack
  PROVE  /\ stack[k] \in Call /\ stack[k].plugin \in File \cup {Elsewhere}
         /\ stack[k].native \in Native \cup {None} /\ stack[k].caller \in File \cup {None, Elsewhere}
         /\ stack[k].args \in Args \cup {<<>>}
<1>1. stack \in Seq(Call)
  BY DEF CallTypes
<1>2. stack[k] \in Call
  BY <1>1
<1>3. QED
  BY <1>2 DEF Call

LEMMA NamesAndIds == ExtTypes /\ PluginOK /\ CallOK => NamesAndIdsAreUnambiguous
<1> SUFFICES ASSUME ExtTypes, PluginOK, CallOK PROVE NamesAndIdsAreUnambiguous
  OBVIOUS
<1>1. TypeOK
  BY DEF TypeOK, ExtTypes, PluginOK, PluginTypes, CallOK, CallTypes
<1>2. ASSUME PluginTypes, TablesAgree
      PROVE  NamesAreUnambiguous
  <2> SUFFICES ASSUME NEW f \in Loaded, NEW i \in DOMAIN Imports[f]
               PROVE  bound[f][i] \in {None, IF Imports[f][i] \in BuiltIn THEN Core ELSE proxied[Imports[f][i]]}
    BY DEF NamesAreUnambiguous
  <2> DEFINE n == Imports[f][i]
  <2>1. n \in Native
    <3>1. f \in File
      BY <1>2 DEF PluginTypes
    <3>2. Imports[f] \in Seq(Native)
      BY <3>1, PluginsAndNatives
    <3>3. QED
      BY <3>2
  <2>2. bound[f][i] \in IF n \in BuiltIn THEN {Core} ELSE {None, pluginNatives[n]}
    BY <1>2 DEF TablesAgree
  <2>3. pluginNatives[n] \in {None, proxied[n]}
    BY <1>2, <2>1 DEF TablesAgree
  <2> HIDE DEF n
  <2>4. bound[f][i] \in {None, IF n \in BuiltIn THEN Core ELSE proxied[n]}
    BY <2>2, <2>3
  <2>5. QED
    BY <2>4 DEF n
<1>3. ASSUME IdsArePlaces, CallTypes, CallsAreOfPlugins
      PROVE  IdsFindPlugins
  <2>1. ASSUME NEW k \in DOMAIN stack, stack[k].caller \in File
        PROVE  \E f \in Loaded : ids[f] = PluginId(stack[k]) /\ f = stack[k].caller
    <3>1. stack[k].caller \in Loaded
      <4>1. stack[k].caller # None
        BY <2>1, NamesOfCode
      <4>2. QED
        BY <1>3, <4>1 DEF CallsAreOfPlugins
    <3>2. stack[k].caller # Elsewhere
      BY <2>1, NamesOfCode
    <3>3. PluginId(stack[k]) = ids[stack[k].caller]
      BY <3>2 DEF PluginId
    <3>4. QED
      BY <3>1, <3>3
  <2>2. QED
    BY <1>3, <2>1 DEF IdsFindPlugins, IdsArePlaces
<1>4. QED
  BY <1>1, <1>2, <1>3 DEF NamesAndIdsAreUnambiguous, PluginOK, CallOK

LEMMA Parts == IInv <=> ExtOK /\ PluginOK /\ CallOK /\ NothingWhenOff
<1>1. TypeOK <=> ExtTypes /\ PluginTypes /\ CallTypes
  BY DEF TypeOK, ExtTypes, PluginTypes, CallTypes
<1>2. IdsFindPlugins => IdsArePlaces
  BY DEF IdsFindPlugins, IdsArePlaces
<1>3. QED
  BY <1>1, <1>2, NamesAndIds
  DEF IInv, NamesAndIdsAreUnambiguous, ExtOK, PluginOK, CallOK

----------------------------------------------------------------------------
(* Steps that leave a part alone.                                          *)

LEMMA PluginsStay ==
  ASSUME PluginOK, unread' \subseteq File, UNCHANGED <<ids, list, bound, proxied, pluginNatives>>
  PROVE  PluginOK' /\ Loaded' = Loaded
<1>1. Loaded' = Loaded
  BY DEF Loaded
<1>2. PluginTypes'
  BY <1>1 DEF PluginOK, PluginTypes
<1>3. TablesAgree'
  BY <1>1 DEF PluginOK, TablesAgree
<1>4. IdsArePlaces'
  BY <1>1 DEF PluginOK, IdsArePlaces
<1>5. QED
  BY <1>1, <1>2, <1>3, <1>4 DEF PluginOK

LEMMA CallsStay ==
  ASSUME CallOK, UNCHANGED callVars, Loaded \subseteq Loaded'
  PROVE  CallOK'
<1>1. stack' = stack /\ current' = current /\ given' = given
  BY DEF callVars
<1>2. CallTypes'
  BY <1>1 DEF CallOK, CallTypes
<1>3. CallsAreOfPlugins'
  BY <1>1 DEF CallOK, CallsAreOfPlugins
<1>4. StacksAgree'
  BY <1>1 DEF CallOK, StacksAgree
<1>5. QED
  BY <1>2, <1>3, <1>4 DEF CallOK

\* No library is opened, closed or started.
SameLibraries ==
  /\ handles' = handles /\ found' = found /\ started' = started /\ interfaces' = interfaces
  /\ phase' \in Phase /\ held' \subseteq Manager
  /\ phase' \in {"query", "init"} => phase \in {"query", "init"}

LEMMA LibrariesStay ==
  ASSUME SameLibraries
  PROVE  (ExtTypes => ExtTypes') /\ (ExtOK => ExtOK')
<1>1. ExtTypes => ExtTypes'
  BY DEF SameLibraries, ExtTypes
<1>2. LibrariesAreOpen => LibrariesAreOpen'
  BY DEF SameLibraries, LibrariesAreOpen
<1>3. QED
  BY <1>1, <1>2 DEF ExtOK

----------------------------------------------------------------------------
(* Loading the extensions.                                                 *)

\* No code runs while extensions are loaded.
LEMMA QuietWhileLoading ==
  ASSUME NothingWhenOff, phase \in {"off", "query", "init", "load"}
  PROVE  stack = <<>>
  BY DEF NothingWhenOff, RunsCode

\* What an extension registers too early is its own interface.
LEMMA EarlyInterfaces ==
  ASSUME ExtTypes, NEW e \in Ext, RegistersEarly(e)
  PROVE  /\ interfaces' \subseteq Ext /\ held' \subseteq Manager
         /\ interfaces' \ Hasty = interfaces \ Hasty
  BY DEF ExtTypes, RegistersEarly, Manager

LEMMA AppendedLibrary ==
  ASSUME ExtTypes, NEW e \in Ext, Query(e)
  PROVE  ExtTypes' /\ (LibrariesAreOpen => LibrariesAreOpen')
<1> DEFINE len == Len(handles)
<1>1. /\ handles' = Append(handles, e) /\ e \in found /\ found' = found \ {e}
      /\ interfaces' = interfaces \cup ({e} \cap RegistersAtQuery)
      /\ started' = started /\ phase' = phase /\ held' = held
      /\ handles \in Seq(Ext) /\ found \subseteq Ext /\ started \in 0..len
  BY DEF Query, ExtTypes
<1>2. /\ len \in Nat /\ DOMAIN handles = 1..len
      /\ handles' \in Seq(Ext) /\ Len(handles') = len + 1
      /\ \A k \in 1..len : handles'[k] = handles[k]
      /\ handles'[len + 1] = e
  BY <1>1, LenProperties, AppendProperties
<1>3. DOMAIN handles' = 1..len + 1
  BY <1>2, LenProperties
<1> HIDE DEF len
<1>4. ExtTypes'
  <2>1. started' \in 0..len + 1
    BY <1>1, <1>2
  <2>2. QED
    BY <1>1, <1>2, <2>1 DEF ExtTypes
<1> SUFFICES ASSUME LibrariesAreOpen PROVE LibrariesAreOpen'
  BY <1>4
<1>5. \A k \in 1..len : handles[k] \notin found
  BY <1>2 DEF LibrariesAreOpen
<1>6. ASSUME NEW j \in 1..len + 1, NEW k \in 1..len + 1, handles'[j] = handles'[k]
      PROVE  j = k
  <2>1. CASE j \in 1..len /\ k \in 1..len
    BY <1>2, <1>6, <2>1 DEF LibrariesAreOpen
  <2>2. CASE j \in 1..len /\ k \notin 1..len
    <3>1. k = len + 1
      BY <1>2, <2>2
    <3>2. QED
      BY <1>1, <1>2, <1>5, <1>6, <2>2, <3>1
  <2>3. CASE j \notin 1..len /\ k \in 1..len
    <3>1. j = len + 1
      BY <1>2, <2>3
    <3>2. QED
      BY <1>1, <1>2, <1>5, <1>6, <2>3, <3>1
  <2>4. CASE j \notin 1..len /\ k \notin 1..len
    BY <1>2, <2>4
  <2>5. QED
    BY <2>1, <2>2, <2>3, <2>4
<1>7. ASSUME NEW k \in 1..len + 1
      PROVE  handles'[k] \notin found'
  <2>1. CASE k \in 1..len
    BY <1>1, <1>2, <1>5, <2>1
  <2>2. CASE k \notin 1..len
    <3>1. k = len + 1
      BY <1>2, <2>2
    <3>2. QED
      BY <1>1, <1>2, <3>1
  <2>3. QED
    BY <2>1, <2>2
<1>8. ASSUME NEW x \in interfaces'
      PROVE  x \in Hasty
             \/ \E k \in 1..len + 1 :
                  /\ handles'[k] = x
                  /\ phase \in {"query", "init"} => x \in RegistersAtQuery \/ k <= started
  <2>1. CASE x \in interfaces /\ x \notin Hasty
    <3>1. PICK k \in 1..len :
            /\ handles[k] = x
            /\ phase \in {"query", "init"} => x \in RegistersAtQuery \/ k <= started
      BY <1>2, <2>1 DEF LibrariesAreOpen
    <3>2. k \in 1..len + 1 /\ handles'[k] = x
      BY <1>2, <3>1
    <3>3. QED
      BY <3>1, <3>2
  <2>2. CASE x \notin interfaces
    <3>1. x = e /\ x \in RegistersAtQuery
      BY <1>1, <2>2
    <3>2. len + 1 \in 1..len + 1
      BY <1>2
    <3>3. QED
      BY <1>2, <3>1, <3>2
  <2>3. QED
    BY <2>1, <2>2
<1>9. QED
  BY <1>1, <1>3, <1>6, <1>7, <1>8 DEF LibrariesAreOpen

\* An extension whose start fails is taken out: those after it move up.
LEMMA RemovedHandle ==
  ASSUME ExtTypes, StartFails
  PROVE  /\ ExtTypes' /\ Len(handles) \in Nat /\ started \in Nat /\ started < Len(handles)
         /\ DOMAIN handles = 1..Len(handles) /\ DOMAIN handles' = 1..Len(handles) - 1
         /\ \A k \in 1..Len(handles) - 1 :
              handles'[k] = IF k <= started THEN handles[k] ELSE handles[k + 1]
<1> DEFINE len == Len(handles)
           e == handles[started + 1]
           before == SubSeq(handles, 1, started)
           after == SubSeq(handles, started + 2, len)
<1>1. /\ handles' = RemoveAt(handles, started + 1) /\ started' = started
      /\ phase' = phase /\ found' = found /\ RegistersEarly(e)
      /\ started < len /\ e \in MayFail
  BY DEF StartFails, AfterErase
<1>2. /\ handles \in Seq(Ext) /\ len \in Nat /\ DOMAIN handles = 1..len
      /\ started \in 0..len /\ \A k \in 1..len : handles[k] \in Ext
  BY LenProperties, ElementOfSeq DEF ExtTypes
<1>3. started \in Nat
  BY <1>2
<1>4. /\ before \in Seq(Ext) /\ Len(before) = started
      /\ \A k \in 1..started : before[k] = handles[k]
  <2>1. \A k \in 1..started : handles[k] \in Ext
    BY <1>2
  <2>2. /\ before \in Seq(Ext)
        /\ Len(before) = IF 1 <= started THEN started - 1 + 1 ELSE 0
        /\ \A k \in 1..started - 1 + 1 : before[k] = handles[1 + k - 1]
    <3>1. 1 \in Int /\ started \in Int
      BY <1>3
    <3>2. QED
      BY <2>1, <3>1, SubSeqProperties
  <2>3. QED
    BY <1>3, <2>2
<1>5. /\ after \in Seq(Ext) /\ Len(after) = len - started - 1
      /\ \A k \in 1..len - started - 1 : after[k] = handles[started + 1 + k]
  <2>1. \A k \in started + 2..len : handles[k] \in Ext
    BY <1>2, <1>3
  <2>2. /\ after \in Seq(Ext)
        /\ Len(after) = IF started + 2 <= len THEN len - (started + 2) + 1 ELSE 0
        /\ \A k \in 1..len - (started + 2) + 1 : after[k] = handles[started + 2 + k - 1]
    <3>1. started + 2 \in Int /\ len \in Int
      BY <1>2, <1>3
    <3> HIDE DEF len
    <3>2. QED
      BY <2>1, <3>1, SubSeqProperties
  <2>3. Len(after) = len - started - 1
    <3> HIDE DEF len, after
    <3>1. started < len
      BY <1>1 DEF len
    <3>2. CASE started + 2 <= len
      BY <1>2, <1>3, <2>2, <3>2
    <3>3. CASE ~(started + 2 <= len)
      <4>1. len = started + 1
        BY <1>2, <1>3, <3>1, <3>3
      <4>2. Len(after) = 0
        BY <2>2, <3>3
      <4>3. QED
        BY <1>3, <4>1, <4>2
    <3>4. QED
      BY <3>2, <3>3
  <2>4. ASSUME NEW k \in 1..len - started - 1
        PROVE  after[k] = handles[started + 1 + k]
    <3>1. len - started - 1 = len - (started + 2) + 1 /\ started + 2 + k - 1 = started + 1 + k
      BY <1>2, <1>3
    <3>2. k \in 1..len - (started + 2) + 1
      BY <3>1
    <3>3. after[k] = handles[started + 2 + k - 1]
      BY <2>2, <3>2
    <3>4. QED
      BY <3>1, <3>3
  <2>5. QED
    BY <2>2, <2>3, <2>4
<1>6. handles' = before \o after
  <2>1. (started + 1) - 1 = started /\ (started + 1) + 1 = started + 2
    BY <1>3
  <2>2. QED
    BY <1>1, <2>1 DEF RemoveAt
<1> HIDE DEF before, after
<1>7. /\ handles' \in Seq(Ext) /\ Len(handles') = len - 1 /\ DOMAIN handles' = 1..len - 1
      /\ \A k \in 1..len - 1 : handles'[k] = IF k <= started THEN handles[k] ELSE handles[k + 1]
  <2>1. /\ handles' \in Seq(Ext) /\ Len(handles') = Len(before) + Len(after)
        /\ \A k \in 1..Len(before) + Len(after) :
             handles'[k] = IF k <= Len(before) THEN before[k] ELSE after[k - Len(before)]
    BY <1>4, <1>5, <1>6, ConcatProperties
  <2>2. Len(before) + Len(after) = len - 1
    BY <1>2, <1>3, <1>4, <1>5
  <2>3. DOMAIN handles' = 1..len - 1
    BY <2>1, <2>2, LenProperties
  <2>4. ASSUME NEW k \in 1..len - 1
        PROVE  handles'[k] = IF k <= started THEN handles[k] ELSE handles[k + 1]
    <3>1. handles'[k] = IF k <= started THEN before[k] ELSE after[k - started]
      BY <1>4, <2>1, <2>2
    <3>2. CASE k <= started
      <4>1. k \in 1..started
        BY <1>2, <1>3, <3>2
      <4>2. QED
        BY <1>4, <3>1, <3>2, <4>1
    <3>3. CASE ~(k <= started)
      <4>1. k - started \in 1..len - started - 1 /\ started + 1 + (k - started) = k + 1
        BY <1>2, <1>3, <3>3
      <4>2. QED
        BY <1>5, <3>1, <3>3, <4>1
    <3>4. QED
      BY <3>2, <3>3
  <2>5. QED
    BY <2>1, <2>2, <2>3, <2>4
<1> HIDE DEF len, e
<1>8. ExtTypes'
  <2>1. started' \in 0..Len(handles')
    BY <1>1, <1>2, <1>3, <1>7
  <2>2. interfaces' \subseteq Ext /\ held' \subseteq Manager
    BY <1>1, EarlyInterfaces, ExtensionsAreKnown
  <2>3. QED
    BY <1>1, <1>7, <2>1, <2>2 DEF ExtTypes
<1>9. QED
  BY <1>1, <1>2, <1>3, <1>7, <1>8 DEF len

\* It has registered nothing, or does so too early.
LEMMA RemovedLibrary ==
  ASSUME ExtOK, StartFails
  PROVE  ExtOK'
<1> DEFINE len == Len(handles)
           e == handles[started + 1]
<1>1. /\ started' = started /\ found' = found /\ phase' = phase /\ phase = "init"
      /\ e \in MayFail /\ interfaces' \ Hasty = interfaces \ Hasty
  <2>1. RegistersEarly(e) /\ e \in MayFail
    BY DEF StartFails
  <2>2. interfaces' \ Hasty = interfaces \ Hasty
    BY <2>1, EarlyInterfaces, ExtensionsAreKnown DEF ExtOK
  <2>3. QED
    BY <2>1, <2>2 DEF StartFails, AfterErase
<1>2. /\ ExtTypes' /\ len \in Nat /\ started \in Nat /\ started < len
      /\ DOMAIN handles = 1..len /\ DOMAIN handles' = 1..len - 1
      /\ \A k \in 1..len - 1 : handles'[k] = IF k <= started THEN handles[k] ELSE handles[k + 1]
  BY RemovedHandle DEF ExtOK
<1> HIDE DEF len, e
\* Where each library was before.
<1> DEFINE was == [k \in 1..len - 1 |-> IF k <= started THEN k ELSE k + 1]
<1>3. ASSUME NEW k \in 1..len - 1
      PROVE  was[k] \in 1..len /\ handles'[k] = handles[was[k]]
  BY <1>2
<1>4. ASSUME NEW j \in 1..len - 1, NEW k \in 1..len - 1, handles'[j] = handles'[k]
       PROVE  j = k
  <2>1. was[j] = was[k]
    <3> HIDE DEF was
    <3>1. QED
      BY <1>2, <1>3, <1>4 DEF ExtOK, LibrariesAreOpen
  <2>2. QED
    BY <1>2, <2>1
<1>5. ASSUME NEW k \in 1..len - 1
       PROVE  handles'[k] \notin found'
  <2> HIDE DEF was
  <2>1. QED
    BY <1>1, <1>2, <1>3 DEF ExtOK, LibrariesAreOpen
<1>6. ASSUME NEW x \in interfaces' \ Hasty
       PROVE  \E k \in 1..len - 1 : handles'[k] = x /\ (x \in RegistersAtQuery \/ k <= started)
  <2>1. PICK k \in 1..len : handles[k] = x /\ (x \in RegistersAtQuery \/ k <= started)
    BY <1>1, <1>2, <1>6 DEF ExtOK, LibrariesAreOpen
  <2>2. k # started + 1
    <3>1. CASE x \in RegistersAtQuery
      BY <1>1, <1>6, <2>1, <3>1, ExtensionsAreKnown DEF e
    <3>2. CASE k <= started
      BY <1>2, <3>2
    <3>3. QED
      BY <2>1, <3>1, <3>2
  <2>3. CASE k <= started
    <3>1. k \in 1..len - 1
      BY <1>1, <1>2, <2>3
    <3>2. QED
      BY <1>2, <2>1, <2>3, <3>1
  <2>4. CASE ~(k <= started)
    <3>1. k - 1 \in 1..len - 1 /\ ~(k - 1 <= started) /\ (k - 1) + 1 = k
      BY <1>2, <2>2, <2>4
    <3>2. handles'[k - 1] = x
      BY <1>2, <2>1, <3>1
    <3>3. QED
      BY <2>1, <2>4, <3>1, <3>2
  <2>5. QED
    BY <2>3, <2>4
<1>7. LibrariesAreOpen'
  BY <1>1, <1>2, <1>4, <1>5, <1>6 DEF LibrariesAreOpen
<1>8. QED
  BY <1>2, <1>7 DEF ExtOK

LEMMA StartedLibrary ==
  ASSUME ExtTypes, Start
  PROVE  ExtTypes' /\ (LibrariesAreOpen => LibrariesAreOpen')
<1> DEFINE len == Len(handles)
           e == handles[started + 1]
<1>1. /\ handles' = handles /\ started' = started + 1 /\ found' = found /\ phase' = phase
      /\ interfaces' = interfaces \cup {e} /\ held' = held \cup {"forwards", "vtable"}
      /\ started < len
  BY DEF Start
<1>2. /\ handles \in Seq(Ext) /\ len \in Nat /\ DOMAIN handles = 1..len
      /\ started \in 0..len /\ \A k \in 1..len : handles[k] \in Ext
  BY LenProperties, ElementOfSeq DEF ExtTypes
<1>3. started \in Nat /\ started + 1 \in 1..len /\ started + 1 \in 0..len
  BY <1>1, <1>2
<1>4. e \in Ext
  BY <1>2, <1>3
<1>5. held' \subseteq Manager
  BY <1>1 DEF ExtTypes, Manager
<1>6. ExtTypes'
  BY <1>1, <1>3, <1>4, <1>5 DEF ExtTypes
<1>7. ASSUME LibrariesAreOpen, NEW x \in interfaces' \ Hasty
      PROVE  \E k \in DOMAIN handles :
               /\ handles[k] = x
               /\ phase \in {"query", "init"} => x \in RegistersAtQuery \/ k <= started + 1
  <2>1. CASE x \in interfaces
    <3>1. PICK k \in DOMAIN handles :
            /\ handles[k] = x
            /\ phase \in {"query", "init"} => x \in RegistersAtQuery \/ k <= started
      BY <1>7, <2>1 DEF LibrariesAreOpen
    <3>2. k \in 1..len
      BY <1>2, <3>1
    <3>3. phase \in {"query", "init"} => x \in RegistersAtQuery \/ k <= started + 1
      BY <1>3, <3>1, <3>2
    <3>4. QED
      BY <3>1, <3>3
  <2>2. CASE x = e
    BY <1>2, <1>3, <2>2
  <2>3. QED
    BY <1>1, <1>7, <2>1, <2>2
<1>8. QED
  BY <1>1, <1>6, <1>7 DEF LibrariesAreOpen

LEMMA ClosedLibraries ==
  ASSUME ExtTypes, Close
  PROVE  ExtOK'
<1>1. /\ phase' = "off" /\ found' = found /\ handles' = <<>> /\ started' = 0
      /\ interfaces' = {} /\ held' \subseteq Manager
  BY DEF Close, ExtTypes
<1>2. /\ <<>> \in Seq(Ext) /\ 0 \in 0..Len(<<>>) /\ DOMAIN <<>> = {} /\ "off" \in Phase
  BY DEF Phase
<1>3. ExtTypes'
  BY <1>1, <1>2 DEF ExtTypes
<1>4. LibrariesAreOpen'
  BY <1>1, <1>2 DEF LibrariesAreOpen
<1>5. QED
  BY <1>3, <1>4 DEF ExtOK

\* SPMod_End() of each registers interfaces of open libraries.
LEMMA EndedLibraries ==
  ASSUME ExtTypes, EndExts
  PROVE  ExtTypes' /\ (LibrariesAreOpen => LibrariesAreOpen')
<1>1. /\ phase' = "ended" /\ found' = found /\ handles' = handles /\ started' = started
      /\ held' \subseteq Manager /\ handles \in Seq(Ext)
  BY ExtensionsAreKnown DEF EndExts, ExtTypes
<1>2. PICK who \in SUBSET ToSet(handles) : interfaces' = interfaces \cup who
  BY DEF EndExts
<1>3. ToSet(handles) \subseteq Ext /\ ToSet(handles) = {handles[k] : k \in DOMAIN handles}
  BY <1>1, LenProperties, ElementOfSeq DEF ToSet
<1>4. ExtTypes'
  BY <1>1, <1>2, <1>3 DEF ExtTypes, Phase
<1>5. ASSUME LibrariesAreOpen, NEW x \in interfaces' \ Hasty
      PROVE  \E k \in DOMAIN handles : handles[k] = x
  BY <1>2, <1>3, <1>5 DEF LibrariesAreOpen
<1>6. QED
  BY <1>1, <1>4, <1>5 DEF LibrariesAreOpen

\* What a step does to the libraries.
LEMMA LibrarySteps ==
  ASSUME ExtTypes, [Next]_vars
  PROVE  \/ SameLibraries \/ Activate \/ Start \/ StartFails \/ EndExts \/ Close
         \/ \E e \in Ext : Reject(e) \/ Query(e)
<1> USE DEF SameLibraries, ExtTypes, Phase, Manager, extVars
<1>1. CASE UNCHANGED vars
  BY <1>1 DEF vars
<1>2. CASE LoadExts
  BY <1>2 DEF LoadExts, QueryDone
<1>3. CASE LoadPlugins \/ AskForNatives \/ BindPluginsNatives \/ Play
  BY <1>3 DEF LoadPlugins, StartDone, AskForNatives, BindPluginsNatives, Play
<1>4. CASE \E f \in File : OmitPlugin(f) \/ LoadPlugin(f) \/ RunFunction(f)
  BY <1>4 DEF OmitPlugin, LoadPlugin, RunFunction
<1>5. CASE \E n \in Native : NativeRegister(n) \/ RegisterElsewhere(n)
  BY <1>5 DEF NativeRegister, RegisterElsewhere
<1>6. CASE \E n \in Native, args \in Args : Invoke(n, args)
  BY <1>6 DEF Invoke
<1>7. CASE Return \/ UsesManager
  BY <1>7 DEF Return, UsesManager, Uses
<1>8. CASE MapEnds
  BY <1>8 DEF MapEnds, End
<1>9. CASE MapCleared \/ UnloadExts
  BY <1>9 DEF MapCleared, UnloadExts, Clear, Cleared
<1>10. QED
  BY <1>1, <1>2, <1>3, <1>4, <1>5, <1>6, <1>7, <1>8, <1>9 DEF Next

LEMMA ExtTypesKept ==
  ASSUME ExtTypes, [Next]_vars
  PROVE  ExtTypes'
<1>1. CASE Activate
  BY <1>1 DEF Activate, ExtTypes, Phase
<1>2. CASE \E e \in Ext : Reject(e)
  BY <1>2, EarlyInterfaces DEF Reject, ExtTypes
<1>3. CASE SameLibraries \/ Start \/ StartFails \/ EndExts \/ Close \/ \E e \in Ext : Query(e)
  BY <1>3, LibrariesStay, StartedLibrary, RemovedHandle, EndedLibraries, ClosedLibraries,
     AppendedLibrary
  DEF ExtOK
<1>4. QED
  BY <1>1, <1>2, <1>3, LibrarySteps

\* Before anything is found no library is open.
LEMMA LibrariesKept ==
  ASSUME ExtOK, NothingWhenOff, [Next]_vars
  PROVE  LibrariesAreOpen'
<1>1. CASE Activate
  <2>1. handles = <<>> /\ handles' = handles /\ interfaces = {} /\ interfaces' = interfaces
    BY <1>1 DEF Activate, NothingWhenOff
  <2>2. DOMAIN <<>> = {}
    OBVIOUS
  <2>3. QED
    BY <2>1, <2>2 DEF LibrariesAreOpen
<1>2. CASE \E e \in Ext : Reject(e)
  <2>1. PICK e \in Ext : Reject(e)
    BY <1>2
  <2>2. /\ handles' = handles /\ started' = started /\ phase' = phase /\ found' \subseteq found
        /\ RegistersEarly(e)
    BY <2>1 DEF Reject
  <2>3. interfaces' \ Hasty = interfaces \ Hasty
    BY <2>2, EarlyInterfaces DEF ExtOK
  <2>4. QED
    BY <2>2, <2>3 DEF ExtOK, LibrariesAreOpen
<1>3. CASE SameLibraries \/ Start \/ StartFails \/ EndExts \/ Close \/ \E e \in Ext : Query(e)
  BY <1>3, LibrariesStay, StartedLibrary, RemovedLibrary, EndedLibraries, ClosedLibraries,
     AppendedLibrary
  DEF ExtOK
<1>4. QED
  BY <1>1, <1>2, <1>3, LibrarySteps DEF ExtOK

----------------------------------------------------------------------------
(* Loading plugins and registering natives.                                *)

LEMMA TableOf ==
  ASSUME PluginTypes, NEW f \in File, NEW i \in DOMAIN Imports[f]
  PROVE  Imports[f][i] \in Native
<1>1. Imports[f] \in Seq(Native)
  BY PluginsAndNatives
<1>2. QED
  BY <1>1

\* The next id is the next place in the list.
LEMMA LoadPluginKeeps ==
  ASSUME PluginOK, NEW f \in File, LoadPlugin(f)
  PROVE  PluginOK' /\ Loaded' = Loaded \cup {f}
<1> DEFINE len == Len(list)
<1>1. /\ PluginTypes /\ TablesAgree /\ IdsArePlaces
      /\ list \in Seq(File) /\ len \in Nat /\ Loaded \subseteq File /\ f \notin Loaded
      /\ ids \in [Loaded -> Nat] /\ DOMAIN bound = Loaded
  BY LenProperties DEF PluginOK, PluginTypes, LoadPlugin
<1>2. /\ unread' \subseteq File /\ list' = Append(list, f)
      /\ ids' = [g \in Loaded \cup {f} |-> IF g = f THEN NextId ELSE ids[g]]
      /\ bound' = [g \in Loaded \cup {f} |-> IF g = f THEN BoundAtLoad(f) ELSE bound[g]]
      /\ proxied' = proxied /\ pluginNatives' = pluginNatives
  BY <1>1 DEF LoadPlugin, PluginTypes
<1>3. Loaded' = Loaded \cup {f}
  BY <1>2 DEF Loaded
<1>4. NextId = len /\ Cardinality(Loaded \cup {f}) = len + 1
  <2>1. IsFiniteSet(Loaded)
    BY <1>1, NamesOfCode, FS_Subset
  <2>2. Cardinality(Loaded \cup {f}) = Cardinality(Loaded) + 1
    BY <1>1, <2>1, FS_AddElement
  <2>3. Cardinality(Loaded) = len
    BY <1>1 DEF IdsArePlaces
  <2>4. QED
    BY <2>2, <2>3 DEF NextId
<1>5. /\ list' \in Seq(File) /\ Len(list') = len + 1 /\ list'[len + 1] = f
      /\ \A k \in 1..len : list'[k] = list[k]
  BY <1>1, <1>2, AppendProperties
<1> HIDE DEF len
<1>6. IdsArePlaces'
  <2>1. ASSUME NEW g \in Loaded \cup {f}
        PROVE  ids'[g] < Len(list') /\ list'[ids'[g] + 1] = g
    <3>1. CASE g = f
      <4>1. ids'[g] = len
        BY <1>2, <1>4, <3>1
      <4>2. QED
        BY <1>1, <1>5, <3>1, <4>1
    <3>2. CASE g # f
      <4>1. g \in Loaded /\ ids'[g] = ids[g]
        BY <1>2, <3>2
      <4>2. ids[g] \in Nat /\ ids[g] < len /\ list[ids[g] + 1] = g
        BY <1>1, <4>1 DEF IdsArePlaces, len
      <4>3. ids[g] + 1 \in 1..len
        BY <1>1, <4>2
      <4>4. QED
        BY <1>1, <1>5, <4>1, <4>2, <4>3
    <3>3. QED
      BY <3>1, <3>2
  <2>2. QED
    BY <1>3, <1>4, <1>5, <2>1 DEF IdsArePlaces
<1>7. PluginTypes'
  <2>1. ids' \in [Loaded' -> Nat]
    BY <1>1, <1>2, <1>3, <1>4
  <2>2. BoundAtLoad(f) \in [DOMAIN Imports[f] -> File \cup {None, Core, Elsewhere}]
    BY DEF BoundAtLoad
  <2>3. \A g \in Loaded' : bound'[g] \in [DOMAIN Imports[g] -> File \cup {None, Core, Elsewhere}]
    BY <1>1, <1>2, <1>3, <2>2 DEF PluginTypes
  <2>4. DOMAIN bound' = Loaded' /\ Loaded' \subseteq File
    BY <1>1, <1>2, <1>3
  <2>5. QED
    BY <1>1, <1>2, <1>5, <2>1, <2>3, <2>4 DEF PluginTypes
<1>8. TablesAgree'
  <2>1. ASSUME NEW g \in Loaded', NEW i \in DOMAIN Imports[g]
        PROVE  bound'[g][i] \in IF Imports[g][i] \in BuiltIn THEN {Core}
                                ELSE {None, pluginNatives[Imports[g][i]]}
    <3>1. CASE g = f
      BY <1>2, <3>1 DEF BoundAtLoad
    <3>2. CASE g # f
      <4>1. g \in Loaded /\ bound'[g] = bound[g]
        BY <1>2, <1>3, <3>2
      <4>2. QED
        BY <1>1, <4>1 DEF TablesAgree
    <3>3. QED
      BY <3>1, <3>2
  <2>2. QED
    BY <1>1, <1>2, <1>3, <2>1 DEF TablesAgree
<1>9. QED
  BY <1>3, <1>6, <1>7, <1>8 DEF PluginOK

\* Registering changes whose a native is only if nobody has its name; no table
\* leads to such a native.
LEMMA RegisteringKeeps ==
  ASSUME PluginOK, NEW n \in Native, NEW who \in Loaded \cup {Elsewhere},
         UNCHANGED <<unread, ids, list, bound>>, proxied' = Registered(n, who),
         \/ pluginNatives' = pluginNatives
         \/ proxied[n] = None /\ pluginNatives' = [pluginNatives EXCEPT ![n] = who]
  PROVE  PluginOK'
<1>1. /\ PluginTypes /\ TablesAgree /\ IdsArePlaces /\ Loaded' = Loaded
      /\ proxied \in [Native -> File \cup {None, Elsewhere}]
      /\ pluginNatives \in [Native -> File \cup {None, Elsewhere}]
      /\ Loaded \subseteq File
  BY DEF PluginOK, PluginTypes, Loaded
<1>2. /\ \A m \in Native : proxied'[m] = IF m = n /\ proxied[n] = None THEN who ELSE proxied[m]
      /\ proxied' \in [Native -> File \cup {None, Elsewhere}]
  BY <1>1 DEF Registered
<1>3. /\ \A m \in Native : \/ pluginNatives'[m] = pluginNatives[m]
                           \/ m = n /\ proxied[n] = None /\ pluginNatives'[m] = who
      /\ pluginNatives' \in [Native -> File \cup {None, Elsewhere}]
  BY <1>1
<1>4. PluginTypes'
  BY <1>1, <1>2, <1>3 DEF PluginTypes
<1>5. proxied[n] = None => pluginNatives[n] = None
  BY <1>1 DEF TablesAgree
<1>6. \A m \in Native : pluginNatives'[m] \in {None, proxied'[m]}
  BY <1>1, <1>2, <1>3, <1>5 DEF TablesAgree
<1>7. \A m \in Native : proxied'[m] \in Loaded' \cup {None, Elsewhere}
  BY <1>1, <1>2 DEF TablesAgree
<1>8. ASSUME NEW f \in Loaded, NEW i \in DOMAIN Imports[f]
      PROVE  bound[f][i] \in IF Imports[f][i] \in BuiltIn THEN {Core}
                             ELSE {None, pluginNatives'[Imports[f][i]]}
  <2> DEFINE m == Imports[f][i]
  <2>1. m \in Native
    BY <1>1, TableOf
  <2>2. bound[f][i] \in IF m \in BuiltIn THEN {Core} ELSE {None, pluginNatives[m]}
    BY <1>1 DEF TablesAgree
  <2> HIDE DEF m
  <2>3. bound[f][i] \in IF m \in BuiltIn THEN {Core} ELSE {None, pluginNatives'[m]}
    BY <1>3, <1>5, <2>1, <2>2
  <2>4. QED
    BY <2>3 DEF m
<1>9. TablesAgree'
  BY <1>1, <1>6, <1>7, <1>8 DEF TablesAgree
<1>10. IdsArePlaces'
  BY <1>1 DEF IdsArePlaces
<1>11. QED
  BY <1>4, <1>9, <1>10 DEF PluginOK

\* Binding leads entries that led nowhere to the natives there are.
LEMMA BindingKeeps ==
  ASSUME PluginOK, BindPluginsNatives
  PROVE  PluginOK' /\ Loaded' = Loaded
<1>1. /\ PluginTypes /\ TablesAgree /\ IdsArePlaces /\ Loaded \subseteq File
      /\ UNCHANGED <<unread, ids, list, proxied>> /\ Loaded' = Loaded
      /\ proxied \in [Native -> File \cup {None, Elsewhere}]
      /\ pluginNatives \in [Native -> File \cup {None, Elsewhere}]
  BY DEF PluginOK, PluginTypes, Loaded, BindPluginsNatives
<1>2. /\ pluginNatives' \in [Native -> File \cup {None, Elsewhere}]
      /\ \A m \in Native : /\ pluginNatives'[m] \in {None, proxied[m]}
                           /\ pluginNatives[m] \in {None, pluginNatives'[m]}
  <2>1. CASE pluginNatives' = Adopted
    BY <1>1, <2>1 DEF Adopted, TablesAgree
  <2>2. CASE pluginNatives' = pluginNatives
    BY <1>1, <2>2 DEF TablesAgree
  <2>3. QED
    BY <2>1, <2>2 DEF BindPluginsNatives
<1>3. bound' = [f \in Loaded |-> Bound(f, pluginNatives')]
  BY DEF BindPluginsNatives
<1>4. ASSUME NEW f \in Loaded
      PROVE  /\ bound'[f] \in [DOMAIN Imports[f] -> File \cup {None, Core, Elsewhere}]
             /\ \A i \in DOMAIN Imports[f] :
                  \/ bound'[f][i] = bound[f][i]
                  \/ bound[f][i] = None /\ bound'[f][i] = pluginNatives'[Imports[f][i]]
  <2>1. bound[f] \in [DOMAIN Imports[f] -> File \cup {None, Core, Elsewhere}]
    BY <1>1 DEF PluginTypes
  <2>2. \A i \in DOMAIN Imports[f] : pluginNatives'[Imports[f][i]] \in File \cup {None, Elsewhere}
    BY <1>1, <1>2, TableOf
  <2> DEFINE old == bound[f]
             natives == [i \in DOMAIN Imports[f] |-> pluginNatives'[Imports[f][i]]]
             missing == {i \in DOMAIN Imports[f] :
                           bound[f][i] = None /\ pluginNatives'[Imports[f][i]] = None}
  <2>3. bound'[f] = [i \in DOMAIN Imports[f] |->
                       IF old[i] = None /\ \A m \in missing : i < m THEN natives[i] ELSE old[i]]
    BY <1>3 DEF Bound
  <2>4. natives \in [DOMAIN Imports[f] -> File \cup {None, Elsewhere}]
    BY <2>2
  <2> HIDE DEF missing
  <2>5. \A i \in DOMAIN Imports[f] :
          \/ bound'[f][i] = old[i]
          \/ old[i] = None /\ bound'[f][i] = natives[i]
    BY <2>3
  <2>6. bound'[f] \in [DOMAIN Imports[f] -> File \cup {None, Core, Elsewhere}]
    <3> HIDE DEF natives, old
    <3>1. old \in [DOMAIN Imports[f] -> File \cup {None, Core, Elsewhere}]
      BY <2>1 DEF old
    <3>2. QED
      BY <2>3, <2>4, <3>1
  <2>7. QED
    BY <2>5, <2>6
<1>5. PluginTypes'
  <2>1. DOMAIN bound' = Loaded'
    BY <1>1, <1>3
  <2>2. QED
    BY <1>1, <1>2, <1>4, <2>1 DEF PluginTypes
<1>6. ASSUME NEW f \in Loaded, NEW i \in DOMAIN Imports[f]
      PROVE  bound'[f][i] \in IF Imports[f][i] \in BuiltIn THEN {Core}
                              ELSE {None, pluginNatives'[Imports[f][i]]}
  <2> DEFINE m == Imports[f][i]
  <2>1. m \in Native
    BY <1>1, TableOf
  <2>2. bound[f][i] \in IF m \in BuiltIn THEN {Core} ELSE {None, pluginNatives[m]}
    BY <1>1 DEF TablesAgree
  <2>3. \/ bound'[f][i] = bound[f][i]
        \/ bound[f][i] = None /\ bound'[f][i] = pluginNatives'[m]
    BY <1>4
  <2> HIDE DEF m
  <2>4. bound'[f][i] \in IF m \in BuiltIn THEN {Core} ELSE {None, pluginNatives'[m]}
    BY <1>2, <2>1, <2>2, <2>3, NamesOfCode
  <2>5. QED
    BY <2>4 DEF m
<1>7. TablesAgree'
  BY <1>1, <1>2, <1>6 DEF TablesAgree
<1>8. IdsArePlaces'
  BY <1>1 DEF IdsArePlaces
<1>9. QED
  BY <1>1, <1>5, <1>7, <1>8 DEF PluginOK

----------------------------------------------------------------------------
(* Places in the stacks of the natives.                                    *)

LEMMA UnderType ==
  ASSUME NEW frames, NEW ns, NEW k \in Nat
  PROVE  /\ Under(frames, ns, k) \in Nat
         /\ IsFiniteSet({j \in 1..k : frames[j].native \in ns})
<1>1. IsFiniteSet(1..k)
  BY FS_Interval
<1>2. {j \in 1..k : frames[j].native \in ns} \in SUBSET (1..k)
  OBVIOUS
<1>3. QED
  BY <1>1, <1>2, FS_Subset, FS_CardinalityType DEF Under

LEMMA UnderNone == \A frames, ns : Under(frames, ns, 0) = 0
<1> SUFFICES ASSUME NEW frames, NEW ns PROVE Under(frames, ns, 0) = 0
  OBVIOUS
<1>1. {j \in 1..0 : frames[j].native \in ns} = {}
  OBVIOUS
<1>2. QED
  BY <1>1, FS_EmptySet DEF Under

LEMMA UnderNext ==
  ASSUME NEW frames, NEW ns, NEW k \in Nat
  PROVE  Under(frames, ns, k + 1)
           = Under(frames, ns, k) + IF frames[k + 1].native \in ns THEN 1 ELSE 0
<1> DEFINE S == {j \in 1..k : frames[j].native \in ns}
           T == {j \in 1..k + 1 : frames[j].native \in ns}
<1>1. IsFiniteSet(S) /\ Cardinality(S) \in Nat
  BY UnderType, FS_CardinalityType
<1>2. k + 1 \notin S
  OBVIOUS
<1>3. CASE frames[k + 1].native \in ns
  <2>1. T = S \cup {k + 1}
    BY <1>3
  <2>2. Cardinality(S \cup {k + 1}) = Cardinality(S) + 1
    <3> HIDE DEF S
    <3>1. QED
      BY <1>1, <1>2, FS_AddElement
  <2>3. QED
    BY <1>3, <2>1, <2>2 DEF Under
<1>4. CASE frames[k + 1].native \notin ns
  <2>1. T = S
    BY <1>4
  <2>2. Cardinality(T) = Cardinality(S) + 0
    <3> HIDE DEF S, T
    <3>1. QED
      BY <1>1, <2>1
  <2>3. QED
    BY <1>4, <2>2 DEF Under
<1>5. QED
  BY <1>3, <1>4

LEMMA UnderGrows ==
  ASSUME NEW frames, NEW ns, NEW j \in Nat, NEW k \in Nat, j <= k
  PROVE  /\ Under(frames, ns, j) <= Under(frames, ns, k)
         /\ j < k /\ frames[k].native \in ns => Under(frames, ns, j) < Under(frames, ns, k)
<1> DEFINE S == {i \in 1..j : frames[i].native \in ns}
           T == {i \in 1..k : frames[i].native \in ns}
<1>1. IsFiniteSet(S) /\ IsFiniteSet(T) /\ Cardinality(S) \in Nat /\ Cardinality(T) \in Nat
  BY UnderType, FS_CardinalityType
<1>2. S \in SUBSET T
  OBVIOUS
<1>3. j < k /\ frames[k].native \in ns => S # T
  <2> SUFFICES ASSUME j < k, frames[k].native \in ns PROVE k \in T /\ k \notin S
    OBVIOUS
  <2>1. QED
    OBVIOUS
<1>4. Cardinality(S) <= Cardinality(T) /\ (S # T => Cardinality(S) # Cardinality(T))
  <2> HIDE DEF S, T
  <2>1. QED
    BY <1>1, <1>2, FS_Subset
<1>5. QED
  BY <1>1, <1>3, <1>4 DEF Under

LEMMA UnderSame ==
  ASSUME NEW frames, NEW other, NEW ns, NEW k \in Nat, \A j \in 1..k : frames[j] = other[j]
  PROVE  Under(frames, ns, k) = Under(other, ns, k)
<1>1. {j \in 1..k : frames[j].native \in ns} = {j \in 1..k : other[j].native \in ns}
  OBVIOUS
<1>2. QED
  BY <1>1 DEF Under

\* A stack `kept' has an element for each function of a native in ns, and what
\* that function is worth at its place.
KeptFor(frames, ns, worth, kept) ==
  /\ Len(kept) = Under(frames, ns, Len(frames))
  /\ \A k \in 1..Len(frames) :
       frames[k].native \in ns => kept[Under(frames, ns, k)] = worth[k]

\* The place of a function is one that the stack has.
LEMMA PlaceIs ==
  ASSUME NEW frames, Len(frames) \in Nat, NEW ns, NEW k \in 1..Len(frames),
         frames[k].native \in ns
  PROVE  Under(frames, ns, k) \in 1..Under(frames, ns, Len(frames))
<1>1. k \in Nat /\ 0 < k /\ k <= Len(frames)
  OBVIOUS
<1>2. Under(frames, ns, 0) < Under(frames, ns, k)
  BY <1>1, UnderGrows
<1>3. Under(frames, ns, k) <= Under(frames, ns, Len(frames))
  BY <1>1, UnderGrows
<1>4. Under(frames, ns, k) \in Nat /\ Under(frames, ns, Len(frames)) \in Nat
  BY <1>1, UnderType
<1>5. QED
  BY <1>2, <1>3, <1>4, UnderNone

LEMMA KeptPush ==
  ASSUME NEW S, NEW T, NEW frames \in Seq(S), NEW kept \in Seq(T), NEW ns, NEW worth, NEW other,
         NEW frame \in S, NEW v, KeptFor(frames, ns, worth, kept),
         \A k \in 1..Len(frames) : other[k] = worth[k],
         frame.native \in ns => v \in T /\ other[Len(frames) + 1] = v
  PROVE  KeptFor(Append(frames, frame), ns, other,
                 IF frame.native \in ns THEN Append(kept, v) ELSE kept)
<1> DEFINE len == Len(frames)
           more == Append(frames, frame)
           now == IF frame.native \in ns THEN Append(kept, v) ELSE kept
<1>1. /\ len \in Nat /\ Len(more) = len + 1 /\ more[len + 1] = frame
      /\ \A k \in 1..len : more[k] = frames[k]
  BY LenProperties, AppendProperties
<1>2. /\ Len(kept) \in Nat /\ Len(now) = Len(kept) + IF frame.native \in ns THEN 1 ELSE 0
      /\ \A i \in 1..Len(kept) : now[i] = kept[i]
      /\ frame.native \in ns => now[Len(kept) + 1] = v
  <2>1. Len(kept) \in Nat
    BY LenProperties
  <2>2. CASE frame.native \in ns
    <3>1. v \in T /\ now = Append(kept, v)
      BY <2>2
    <3>2. /\ Len(now) = Len(kept) + 1 /\ now[Len(kept) + 1] = v
          /\ \A i \in 1..Len(kept) : now[i] = kept[i]
      BY <3>1, AppendProperties
    <3>3. QED
      BY <2>1, <2>2, <3>2
  <2>3. CASE frame.native \notin ns
    BY <2>1, <2>3
  <2>4. QED
    BY <2>2, <2>3
<1>3. Len(kept) = Under(frames, ns, len)
  BY DEF KeptFor
<1> HIDE DEF len, more, now
<1>4. \A k \in 0..len : Under(more, ns, k) = Under(frames, ns, k)
  <2> SUFFICES ASSUME NEW k \in 0..len PROVE Under(more, ns, k) = Under(frames, ns, k)
    OBVIOUS
  <2>1. k \in Nat /\ \A j \in 1..k : more[j] = frames[j]
    BY <1>1
  <2>2. QED
    BY <2>1, UnderSame
<1>5. Under(more, ns, len + 1) = Len(kept) + IF frame.native \in ns THEN 1 ELSE 0
  <2>1. Under(more, ns, len) = Len(kept)
    BY <1>1, <1>3, <1>4
  <2>2. Under(more, ns, len + 1)
          = Under(more, ns, len) + IF more[len + 1].native \in ns THEN 1 ELSE 0
    BY <1>1, UnderNext
  <2>3. QED
    BY <1>1, <2>1, <2>2
<1>6. Len(now) = Under(more, ns, len + 1)
  BY <1>2, <1>5
<1>7. ASSUME NEW k \in 1..len + 1, more[k].native \in ns
      PROVE  now[Under(more, ns, k)] = other[k]
  <2>1. CASE k \in 1..len
    <3>1. frames[k].native \in ns /\ Under(more, ns, k) = Under(frames, ns, k)
      BY <1>1, <1>4, <1>7, <2>1
    <3>2. Under(frames, ns, k) \in 1..Len(kept)
      BY <1>1, <1>3, <2>1, <3>1, PlaceIs DEF len
    <3>3. kept[Under(frames, ns, k)] = other[k]
      BY <2>1, <3>1 DEF KeptFor, len
    <3>4. QED
      BY <1>2, <3>1, <3>2, <3>3
  <2>2. CASE k \notin 1..len
    <3>1. k = len + 1
      BY <1>1, <2>2
    <3>2. frame.native \in ns
      BY <1>1, <1>7, <3>1
    <3>3. Under(more, ns, k) = Len(kept) + 1
      BY <1>5, <3>1, <3>2
    <3>4. QED
      BY <1>2, <3>1, <3>2, <3>3 DEF len
  <2>3. QED
    BY <2>1, <2>2
<1> HIDE DEF now
<1>8. KeptFor(more, ns, other, now)
  BY <1>1, <1>6, <1>7 DEF KeptFor
<1>9. QED
  BY <1>8 DEF more, now

\* A stack without its last element.
LEMMA FrontEffect ==
  ASSUME NEW S, NEW s \in Seq(S), s # <<>>
  PROVE  /\ Front(s) \in Seq(S) /\ Len(Front(s)) = Len(s) - 1 /\ Len(s) \in Nat \ {0}
         /\ \A k \in 1..Len(s) - 1 : Front(s)[k] = s[k]
<1>1. Len(s) \in Nat \ {0} /\ Len(s) - 1 \in Nat
  OBVIOUS
<1>2. Front(s) = SubSeq(s, 1, Len(s) - 1)
  BY DEF Front
<1>3. ASSUME NEW n \in Nat, n = Len(s) - 1
      PROVE  Len(SubSeq(s, 1, n)) = n
  BY <1>1, <1>3
<1>4. Front(s) \in Seq(S) /\ Len(Front(s)) = Len(s) - 1
  <2>1. SubSeq(s, 1, Len(s) - 1) \in Seq(S)
    BY <1>1
  <2>2. QED
    BY <1>1, <1>2, <1>3, <2>1
<1>5. \A k \in 1..Len(s) - 1 : Front(s)[k] = s[k]
  BY <1>1, <1>2
<1>6. QED
  BY <1>1, <1>4, <1>5

LEMMA KeptPop ==
  ASSUME NEW S, NEW T, NEW frames \in Seq(S), NEW kept \in Seq(T), NEW ns, NEW worth, NEW other,
         frames # <<>>, KeptFor(frames, ns, worth, kept),
         \A k \in 1..Len(frames) - 1 : other[k] = worth[k]
  PROVE  /\ KeptFor(Front(frames), ns, other,
                    IF frames[Len(frames)].native \in ns THEN Front(kept) ELSE kept)
         /\ frames[Len(frames)].native \in ns =>
              kept # <<>> /\ kept[Len(kept)] = worth[Len(frames)]
<1> DEFINE len == Len(frames)
           less == Front(frames)
           top == frames[len]
           now == IF top.native \in ns THEN Front(kept) ELSE kept
<1>1. /\ len \in Nat \ {0} /\ Len(less) = len - 1 /\ \A k \in 1..len - 1 : less[k] = frames[k]
  BY FrontEffect
<1>2. Len(kept) \in Nat /\ Len(kept) = Under(frames, ns, len)
  BY LenProperties DEF KeptFor
<1> HIDE DEF len, less
<1>3. /\ len - 1 \in Nat /\ len \in Nat /\ (len - 1) + 1 = len /\ len \in 1..len
  BY <1>1
<1>4. Len(kept) = Under(frames, ns, len - 1) + IF top.native \in ns THEN 1 ELSE 0
  BY <1>2, <1>3, UnderNext
<1>5. Under(frames, ns, len - 1) \in Nat
  BY <1>3, UnderType
<1>6. top.native \in ns => kept # <<>> /\ kept[Len(kept)] = worth[len]
  <2> SUFFICES ASSUME top.native \in ns PROVE kept # <<>> /\ kept[Len(kept)] = worth[len]
    OBVIOUS
  <2>1. Len(kept) # 0
    BY <1>4, <1>5
  <2>2. kept # <<>>
    BY <2>1
  <2>3. kept[Under(frames, ns, len)] = worth[len]
    BY <1>3 DEF KeptFor, len
  <2>4. QED
    BY <1>2, <2>2, <2>3
<1>7. \A k \in 0..len - 1 : Under(less, ns, k) = Under(frames, ns, k)
  <2> SUFFICES ASSUME NEW k \in 0..len - 1 PROVE Under(less, ns, k) = Under(frames, ns, k)
    OBVIOUS
  <2>1. k \in Nat /\ \A j \in 1..k : less[j] = frames[j]
    BY <1>1
  <2>2. QED
    BY <2>1, UnderSame
<1>8. Len(now) = Under(less, ns, len - 1)
  <2>1. Under(less, ns, len - 1) = Under(frames, ns, len - 1)
    BY <1>3, <1>7
  <2>2. CASE top.native \in ns
    <3>1. Len(Front(kept)) = Len(kept) - 1
      BY <1>6, <2>2, FrontEffect
    <3>2. QED
      BY <1>4, <1>5, <2>1, <2>2, <3>1
  <2>3. CASE top.native \notin ns
    BY <1>4, <1>5, <2>1, <2>3
  <2>4. QED
    BY <2>2, <2>3
<1>9. \A i \in 1..Len(now) : now[i] = kept[i]
  <2>1. CASE top.native \in ns
    BY <1>6, <2>1, FrontEffect
  <2>2. CASE top.native \notin ns
    BY <2>2
  <2>3. QED
    BY <2>1, <2>2
<1>10. ASSUME NEW k \in 1..len - 1, less[k].native \in ns
       PROVE  now[Under(less, ns, k)] = other[k]
  <2>1. k \in 1..len /\ frames[k].native \in ns /\ k \in 0..len - 1
    BY <1>1, <1>10
  <2>2. kept[Under(frames, ns, k)] = other[k]
    BY <2>1 DEF KeptFor, len
  <2>3. Under(less, ns, k) \in 1..Len(now)
    <3>1. Under(less, ns, k) \in 1..Under(less, ns, Len(less))
      BY <1>1, <1>3, <1>10, PlaceIs
    <3>2. QED
      BY <1>1, <1>8, <3>1
  <2>4. QED
    BY <1>7, <1>9, <2>1, <2>2, <2>3
<1> HIDE DEF now
<1>11. KeptFor(less, ns, other, now)
  BY <1>1, <1>8, <1>10 DEF KeptFor
<1>12. QED
  BY <1>6, <1>11 DEF less, now, len

----------------------------------------------------------------------------
(* Calls.                                                                  *)

NativesOf(frames) == [k \in DOMAIN frames |-> frames[k].native]

PassedTo(frames) ==
  [k \in DOMAIN frames |-> [ctx |-> frames[k].caller, params |-> frames[k].args]]

\* The stacks of the natives, each kept for the functions that it is for.
StacksAreKept ==
  /\ KeptFor(stack, Native, NativesOf(stack), current)
  /\ \A n \in Native : KeptFor(stack, {n}, PassedTo(stack), given[n])

LEMMA AgreeIfKept == CallTypes => (StacksAgree <=> StacksAreKept)
<1> SUFFICES ASSUME CallTypes PROVE StacksAgree <=> StacksAreKept
  OBVIOUS
<1>1. DOMAIN stack = 1..Len(stack)
  BY LenProperties DEF CallTypes
<1>2. \A k \in DOMAIN stack : stack[k].native # None <=> stack[k].native \in Native
  BY CallOfStack, NamesOfCode
<1>3. ASSUME NEW k \in 1..Len(stack)
      PROVE  /\ NativesOf(stack)[k] = stack[k].native
             /\ PassedTo(stack)[k] = [ctx |-> stack[k].caller, params |-> stack[k].args]
  BY <1>1 DEF NativesOf, PassedTo
<1>4. ASSUME NEW n \in Native
      PROVE  KeptFor(stack, {n}, PassedTo(stack), given[n]) <=>
               /\ Len(given[n]) = Under(stack, {n}, Len(stack))
               /\ \A k \in DOMAIN stack :
                    stack[k].native = n =>
                      given[n][Under(stack, {n}, k)]
                        = [ctx |-> stack[k].caller, params |-> stack[k].args]
  BY <1>1, <1>3 DEF KeptFor
<1>5. KeptFor(stack, Native, NativesOf(stack), current) <=>
        /\ Len(current) = Under(stack, Native, Len(stack))
        /\ \A k \in DOMAIN stack :
             stack[k].native # None => current[Under(stack, Native, k)] = stack[k].native
  BY <1>1, <1>2, <1>3 DEF KeptFor
<1>6. QED
  BY <1>4, <1>5 DEF StacksAgree, StacksAreKept

\* The code on top.
LEMMA TopIs ==
  ASSUME CallTypes, CallsAreOfPlugins, stack # <<>>
  PROVE  /\ Len(stack) \in DOMAIN stack /\ Len(stack) \in Nat \ {0} /\ Top = stack[Len(stack)]
         /\ Top \in Call /\ Top.plugin \in Loaded \cup {Elsewhere}
         /\ Top.native # None => Top.native \in Native /\ Top.caller \in Loaded
<1>1. /\ Len(stack) \in DOMAIN stack /\ Len(stack) \in Nat \ {0} /\ Top = stack[Len(stack)]
  BY DEF CallTypes, Top
<1>2. /\ stack[Len(stack)] \in Call /\ stack[Len(stack)].native \in Native \cup {None}
  BY <1>1, CallOfStack
<1>3. QED
  BY <1>1, <1>2 DEF CallsAreOfPlugins

\* A function starts.  That of a native has a caller, and one place more in
\* the stacks.
LEMMA PushKeeps ==
  ASSUME CallOK, Loaded' = Loaded, NEW frame \in Call, stack' = Append(stack, frame),
         frame.plugin \in Loaded \cup {Elsewhere}, frame.native \in Native \cup {None},
         frame.native = None => frame.caller = None,
         frame.native # None =>
           frame.caller \in Loaded /\ [ctx |-> frame.caller, params |-> frame.args] \in Given,
         current' = IF frame.native \in Native THEN Append(current, frame.native) ELSE current,
         given' = [n \in Native |->
                     IF frame.native \in {n}
                     THEN Append(given[n], [ctx |-> frame.caller, params |-> frame.args])
                     ELSE given[n]]
  PROVE  CallOK'
<1> DEFINE len == Len(stack)
           now == [ctx |-> frame.caller, params |-> frame.args]
<1>1. /\ CallTypes /\ CallsAreOfPlugins /\ StacksAreKept
      /\ stack \in Seq(Call) /\ current \in Seq(Native) /\ given \in [Native -> Seq(Given)]
  BY AgreeIfKept DEF CallOK, CallTypes
<1>2. /\ len \in Nat /\ stack' \in Seq(Call) /\ Len(stack') = len + 1 /\ stack'[len + 1] = frame
      /\ \A k \in 1..len : stack'[k] = stack[k]
      /\ DOMAIN stack' = 1..len + 1 /\ DOMAIN stack = 1..len
  <2>1. len \in Nat /\ DOMAIN stack = 1..len
    BY <1>1, LenProperties
  <2>2. /\ stack' \in Seq(Call) /\ Len(stack') = len + 1 /\ stack'[len + 1] = frame
        /\ \A k \in 1..len : stack'[k] = stack[k]
    BY <1>1, AppendProperties
  <2>3. DOMAIN stack' = 1..len + 1
    BY <2>2, LenProperties
  <2>4. QED
    BY <2>1, <2>2, <2>3
<1>3. CallTypes'
  <2>1. current' \in Seq(Native)
    BY <1>1, AppendProperties
  <2>2. given' \in [Native -> Seq(Given)]
    <3>1. ASSUME NEW n \in Native
          PROVE  (IF frame.native \in {n} THEN Append(given[n], now) ELSE given[n]) \in Seq(Given)
      <4>1. CASE frame.native = n
        <5>1. now \in Given
          BY <3>1, <4>1, NamesOfCode
        <5> HIDE DEF now
        <5>2. QED
          BY <1>1, <4>1, <5>1, AppendProperties
      <4>2. CASE frame.native # n
        BY <1>1, <4>2
      <4>3. QED
        BY <4>1, <4>2
    <3>2. QED
      BY <3>1
  <2>3. QED
    BY <1>2, <2>1, <2>2 DEF CallTypes
<1>4. \A k \in 1..len : stack'[k] = stack[k] /\ stack[k].plugin \in Loaded \cup {Elsewhere}
  BY <1>1, <1>2 DEF CallsAreOfPlugins
<1> HIDE DEF len, now
<1>5. CallsAreOfPlugins'
  <2>1. ASSUME NEW k \in 1..len + 1
        PROVE  /\ stack'[k].plugin \in Loaded \cup {Elsewhere}
               /\ IF stack'[k].native = None THEN stack'[k].caller = None
                  ELSE stack'[k].caller \in Loaded
    <3>1. CASE k \in 1..len
      BY <1>1, <1>2, <3>1 DEF CallsAreOfPlugins
    <3>2. CASE k \notin 1..len
      <4>1. k = len + 1
        BY <1>2, <3>2
      <4>2. QED
        BY <1>2, <4>1
    <3>3. QED
      BY <3>1, <3>2
  <2>2. QED
    BY <1>2, <2>1 DEF CallsAreOfPlugins
<1>6. /\ \A k \in 1..Len(stack) : NativesOf(stack')[k] = NativesOf(stack)[k]
      /\ NativesOf(stack')[Len(stack) + 1] = frame.native
      /\ \A k \in 1..Len(stack) : PassedTo(stack')[k] = PassedTo(stack)[k]
      /\ PassedTo(stack')[Len(stack) + 1] = now
  BY <1>2 DEF NativesOf, PassedTo, len, now
<1>7. KeptFor(stack', Native, NativesOf(stack'), current')
  <2>1. KeptFor(stack, Native, NativesOf(stack), current)
    BY <1>1 DEF StacksAreKept
  <2> DEFINE name == frame.native
  <2>2. /\ \A k \in 1..Len(stack) : NativesOf(stack')[k] = NativesOf(stack)[k]
        /\ name \in Native => name \in Native /\ NativesOf(stack')[Len(stack) + 1] = name
    BY <1>6
  <2>3. KeptFor(Append(stack, frame), Native, NativesOf(stack'),
                IF name \in Native THEN Append(current, name) ELSE current)
    BY <1>1, <2>1, <2>2, KeptPush, Zenon
  <2>4. QED
    BY <2>3
<1>8. ASSUME NEW n \in Native
      PROVE  KeptFor(stack', {n}, PassedTo(stack'), given'[n])
  <2>1. KeptFor(stack, {n}, PassedTo(stack), given[n])
    BY <1>1 DEF StacksAreKept
  <2>2. given'[n] = IF frame.native \in {n} THEN Append(given[n], now) ELSE given[n]
    BY DEF now
  <2>3. given[n] \in Seq(Given) /\ (frame.native \in {n} => now \in Given)
    BY <1>1, NamesOfCode DEF now
  <2>4. KeptFor(Append(stack, frame), {n}, PassedTo(stack'),
                IF frame.native \in {n} THEN Append(given[n], now) ELSE given[n])
    <3> DEFINE ns == {n}
               kept == given[n]
    <3>1. /\ kept \in Seq(Given) /\ KeptFor(stack, ns, PassedTo(stack), kept) /\ stack \in Seq(Call)
          /\ frame.native \in ns => now \in Given /\ PassedTo(stack')[Len(stack) + 1] = now
      BY <1>1, <1>6, <2>1, <2>3
    <3> HIDE DEF ns, kept
    <3>2. KeptFor(Append(stack, frame), ns, PassedTo(stack'),
                  IF frame.native \in ns THEN Append(kept, now) ELSE kept)
      BY <1>6, <3>1, KeptPush
    <3>3. QED
      BY <3>2 DEF ns, kept
  <2>5. QED
    BY <2>2, <2>4
<1>9. StacksAreKept'
  BY <1>7, <1>8 DEF StacksAreKept
<1>10. StacksAgree'
  BY <1>3, <1>9, AgreeIfKept, PTL
<1>11. QED
  BY <1>3, <1>5, <1>10 DEF CallOK

\* The function on top ends, and its native forgets its parameters.
LEMMA ReturnKeeps ==
  ASSUME CallOK, Return, Loaded' = Loaded, Loaded \subseteq File
  PROVE  CallOK'
<1> DEFINE len == Len(stack)
<1>1. /\ CallTypes /\ CallsAreOfPlugins /\ StacksAreKept /\ stack # <<>>
      /\ stack \in Seq(Call) /\ current \in Seq(Native) /\ given \in [Native -> Seq(Given)]
      /\ stack' = Front(stack)
  BY AgreeIfKept DEF CallOK, CallTypes, Return
<1>2. /\ Top = stack[len] /\ len \in DOMAIN stack
      /\ Top.native # None => Top.native \in Native /\ Top.caller # Elsewhere
  BY <1>1, TopIs, NamesOfCode
<1>3. /\ len \in Nat \ {0} /\ stack' \in Seq(Call) /\ Len(stack') = len - 1
      /\ \A k \in 1..len - 1 : stack'[k] = stack[k]
      /\ DOMAIN stack' = 1..len - 1 /\ DOMAIN stack = 1..len
  <2>1. /\ len \in Nat \ {0} /\ stack' \in Seq(Call) /\ Len(stack') = len - 1
        /\ \A k \in 1..len - 1 : stack'[k] = stack[k]
    BY <1>1, FrontEffect
  <2>2. DOMAIN stack' = 1..len - 1 /\ DOMAIN stack = 1..len
    BY <1>1, <2>1, LenProperties
  <2>3. QED
    BY <2>1, <2>2
<1>4. /\ \A k \in 1..len - 1 : NativesOf(stack')[k] = NativesOf(stack)[k]
      /\ \A k \in 1..len - 1 : PassedTo(stack')[k] = PassedTo(stack)[k]
  <2>1. \A k \in 1..len - 1 : k \in DOMAIN stack /\ k \in DOMAIN stack'
    BY <1>3
  <2> HIDE DEF len
  <2>2. QED
    BY <1>3, <2>1 DEF NativesOf, PassedTo
<1>5. /\ KeptFor(stack', Native, NativesOf(stack'),
                 IF stack[len].native \in Native THEN Front(current) ELSE current)
      /\ stack[len].native \in Native => current # <<>>
  <2>1. KeptFor(stack, Native, NativesOf(stack), current)
    BY <1>1 DEF StacksAreKept
  <2>2. QED
    BY <1>1, <1>4, <2>1, KeptPop
<1>6. ASSUME NEW n \in Native
      PROVE  /\ KeptFor(stack', {n}, PassedTo(stack'),
                        IF stack[len].native \in {n} THEN Front(given[n]) ELSE given[n])
             /\ stack[len].native \in {n} => given[n] # <<>>
  <2>1. KeptFor(stack, {n}, PassedTo(stack), given[n]) /\ given[n] \in Seq(Given)
    BY <1>1 DEF StacksAreKept
  <2>2. QED
    BY <1>1, <1>4, <2>1, KeptPop
<1> HIDE DEF len
<1>7. /\ current' = IF stack[len].native \in Native THEN Front(current) ELSE current
      /\ \A n \in Native :
           given'[n] = IF stack[len].native \in {n} THEN Front(given[n]) ELSE given[n]
      /\ DOMAIN given' = Native
  <2>1. CASE Top.native = None
    <3>1. stack[len].native \notin Native /\ current' = current /\ given' = given
      BY <1>2, <2>1, NamesOfCode DEF Return
    <3>2. QED
      BY <1>1, <3>1
  <2>2. CASE Top.native # None
    <3>1. /\ stack[len].native \in Native /\ current' = Front(current)
          /\ given' = [given EXCEPT ![stack[len].native] = Front(@)]
      BY <1>2, <2>2 DEF Return, Popped
    <3>2. QED
      BY <1>1, <3>1
  <2>3. QED
    BY <2>1, <2>2
<1>8. CallTypes'
  <2>1. current' \in Seq(Native)
    BY <1>1, <1>5, <1>7, FrontEffect
  <2>2. ASSUME NEW n \in Native
        PROVE  given'[n] \in Seq(Given)
    <3>1. given[n] \in Seq(Given)
      BY <1>1
    <3>2. CASE stack[len].native = n
      <4>1. given[n] # <<>> /\ given'[n] = Front(given[n])
        BY <1>6, <1>7, <3>2
      <4>2. QED
        BY <3>1, <4>1, FrontEffect
    <3>3. CASE stack[len].native # n
      BY <1>7, <3>1, <3>3
    <3>4. QED
      BY <3>2, <3>3
  <2>3. given' \in [Native -> Seq(Given)]
    <3>1. given' = [n \in Native |-> given'[n]]
      BY <1>1, <1>2, <1>7 DEF Return, Popped
    <3>2. QED
      BY <2>2, <3>1
  <2>4. QED
    BY <1>3, <2>1, <2>3 DEF CallTypes
<1>9. CallsAreOfPlugins'
  <2>1. \A k \in 1..len - 1 : k \in DOMAIN stack
    BY <1>3
  <2>2. QED
    BY <1>1, <1>3, <2>1 DEF CallsAreOfPlugins
<1>10. StacksAreKept'
  BY <1>5, <1>6, <1>7 DEF StacksAreKept
<1>11. StacksAgree'
  BY <1>8, <1>10, AgreeIfKept, PTL
<1>12. QED
  BY <1>8, <1>9, <1>11 DEF CallOK

\* A function that is not that of a native has no place.
LEMMA RunFunctionKeeps ==
  ASSUME CallOK, NEW f \in Loaded, Loaded \subseteq File, RunFunction(f), Loaded' = Loaded
  PROVE  CallOK'
<1> DEFINE frame == Frame(f, None, None, <<>>)
<1>1. /\ frame \in Call /\ frame.plugin = f /\ frame.native = None /\ frame.caller = None
      /\ stack' = Append(stack, frame) /\ current' = current /\ given' = given
  BY DEF RunFunction, Frame, Call
<1> HIDE DEF frame
<1>2. None \notin Native /\ given \in [Native -> Seq(Given)]
  BY NamesOfCode DEF CallOK, CallTypes
<1>3. given' = [n \in Native |->
                  IF frame.native \in {n}
                  THEN Append(given[n], [ctx |-> frame.caller, params |-> frame.args])
                  ELSE given[n]]
  <2>1. \A n \in Native : frame.native \notin {n}
    BY <1>1, <1>2
  <2>2. QED
    BY <1>1, <1>2, <2>1
<1>4. current' = IF frame.native \in Native THEN Append(current, frame.native) ELSE current
  BY <1>1, <1>2
<1>5. QED
  BY <1>1, <1>3, <1>4, PushKeeps

\* A plugin calls the function that an entry of its table leads to.
LEMMA InvokeKeeps ==
  ASSUME CallOK, PluginOK, ~ElsewhereCalls, NEW n \in Native, NEW args \in Args,
         Invoke(n, args), Loaded' = Loaded
  PROVE  CallOK'
<1> DEFINE who == Top.plugin
           frame == Frame(pluginNatives[n], n, who, args)
<1>1. /\ Loaded \subseteq File /\ PluginTypes /\ TablesAgree
      /\ given \in [Native -> Seq(Given)] /\ n # None /\ n \in Native
  BY NamesOfCode DEF PluginOK, PluginTypes, CallOK, CallTypes
<1>2. who \in File /\ who \in Loaded /\ who # Elsewhere
  <2>1. who \in File
    BY DEF Invoke, CanCall
  <2>2. who \in Loaded \cup {Elsewhere}
    BY TopIs DEF CallOK, Invoke
  <2>3. QED
    BY <2>1, <2>2, NamesOfCode
<1>3. pluginNatives[n] \in Loaded \cup {Elsewhere}
  <2>1. PICK i \in DOMAIN Imports[who] : Imports[who][i] = n /\ bound[who][i] \notin {None, Core}
    BY <1>2 DEF Invoke, CanCall
  <2>2. bound[who][i] \in IF n \in BuiltIn THEN {Core} ELSE {None, pluginNatives[n]}
    BY <1>1, <1>2, <2>1 DEF TablesAgree
  <2>3. pluginNatives[n] # None
    BY <2>1, <2>2
  <2>4. QED
    BY <1>1, <2>3 DEF TablesAgree
<1>4. /\ frame \in Call /\ frame.plugin = pluginNatives[n] /\ frame.native = n
      /\ frame.caller = who /\ frame.args = args
      /\ [ctx |-> who, params |-> args] \in Given
  BY <1>1, <1>2, <1>3 DEF Frame, Call, Given
<1>5. /\ stack' = Append(stack, frame) /\ current' = Append(current, n)
      /\ given' = [given EXCEPT ![n] = Append(@, [ctx |-> who, params |-> args])]
  BY <1>2 DEF Invoke
<1> HIDE DEF frame, who
<1>6. given' = [m \in Native |->
                  IF frame.native \in {m}
                  THEN Append(given[m], [ctx |-> frame.caller, params |-> frame.args])
                  ELSE given[m]]
  BY <1>1, <1>4, <1>5
<1>7. current' = IF frame.native \in Native THEN Append(current, frame.native) ELSE current
  BY <1>1, <1>4, <1>5
<1>8. frame.native # None =>
        frame.caller \in Loaded /\ [ctx |-> frame.caller, params |-> frame.args] \in Given
  BY <1>2, <1>4
<1>9. frame.plugin \in Loaded \cup {Elsewhere} /\ frame.native \in Native \cup {None}
      /\ (frame.native = None => frame.caller = None)
  BY <1>1, <1>3, <1>4
<1>10. QED
  BY <1>4, <1>5, <1>6, <1>7, <1>8, <1>9, PushKeeps

----------------------------------------------------------------------------
(* Every step keeps the inductive invariant.                               *)

\* The invariant but for the libraries, for which more is assumed.
PluginsAndCalls == ExtTypes /\ PluginOK /\ CallOK /\ NothingWhenOff

\* Nothing runs while libraries are loaded or closed.
LEMMA QuietKept ==
  ASSUME PluginsAndCalls, ~ExecChangesMap, [Next]_vars
  PROVE  NothingWhenOff'
<1> USE DEF NothingWhenOff, RunsCode
<1>1. NothingWhenOff /\ held \subseteq Manager
  BY DEF PluginsAndCalls, ExtTypes
<1>2. CASE UNCHANGED vars
  BY <1>1, <1>2 DEF vars, extVars, pluginVars, callVars, Loaded
<1>3. CASE LoadExts
  BY <1>1, <1>3 DEF LoadExts, Activate, QueryDone, Start, StartFails, Reject, Query, callVars
<1>4. CASE LoadPlugins \/ AskForNatives \/ BindPluginsNatives \/ Play
  BY <1>1, <1>4 DEF LoadPlugins, StartDone, AskForNatives, BindPluginsNatives, Play, callVars
<1>5. CASE \E f \in File : OmitPlugin(f) \/ LoadPlugin(f) \/ RunFunction(f)
  BY <1>1, <1>5 DEF OmitPlugin, LoadPlugin, RunFunction, extVars, pluginVars, callVars
<1>6. CASE \E n \in Native : NativeRegister(n) \/ RegisterElsewhere(n)
  BY <1>1, <1>6 DEF NativeRegister, RegisterElsewhere, callVars
<1>7. CASE \E n \in Native, args \in Args : Invoke(n, args)
  BY <1>1, <1>7 DEF Invoke, extVars, pluginVars
<1>8. CASE Return \/ UsesManager
  BY <1>1, <1>8 DEF Return, UsesManager, Uses, extVars, pluginVars, callVars
<1>9. CASE MapEnds
  BY <1>1, <1>9 DEF MapEnds, End, pluginVars, callVars
<1>10. CASE MapCleared
  <2>1. stack' = <<>> /\ phase' = "cleared"
    BY <1>10 DEF MapCleared, MapMayEnd, Clear, callVars
  <2>2. held' = {}
    BY <1>1, <1>10 DEF MapCleared, Clear, Cleared, Manager
  <2>3. Loaded' = {} /\ list' = <<>> /\ \A n \in Native : proxied'[n] = None
    BY <1>10 DEF MapCleared, Loaded
  <2>4. QED
    BY <2>1, <2>2, <2>3
<1>11. CASE UnloadExts
  BY <1>1, <1>11 DEF UnloadExts, EndExts, Close, pluginVars, callVars, Loaded
<1>12. QED
  BY <1>2, <1>3, <1>4, <1>5, <1>6, <1>7, <1>8, <1>9, <1>10, <1>11 DEF Next

\* No plugin is loaded.
NoPlugins ==
  /\ unread \subseteq File /\ ids = <<>> /\ list = <<>> /\ bound = <<>>
  /\ proxied = [n \in Native |-> None] /\ pluginNatives = [n \in Native |-> None]

LEMMA NoPluginsIsOK == NoPlugins => PluginOK
<1> SUFFICES ASSUME NoPlugins PROVE PluginOK
  OBVIOUS
<1>1. /\ unread \subseteq File /\ ids = <<>> /\ list = <<>> /\ bound = <<>>
      /\ proxied = [n \in Native |-> None] /\ pluginNatives = [n \in Native |-> None]
  BY DEF NoPlugins
<1>2. DOMAIN <<>> = {} /\ Len(<<>>) = 0 /\ <<>> \in Seq(File) /\ <<>> \in [{} -> Nat]
  OBVIOUS
<1>3. Loaded = {}
  BY <1>1, <1>2 DEF Loaded
<1>4. PluginTypes
  BY <1>1, <1>2, <1>3 DEF PluginTypes
<1>5. TablesAgree
  BY <1>1, <1>3 DEF TablesAgree
<1>6. IdsArePlaces
  BY <1>1, <1>2, <1>3, FS_EmptySet DEF IdsArePlaces
<1>7. QED
  BY <1>4, <1>5, <1>6 DEF PluginOK

LEMMA InitIsOK == Init => PluginsAndCalls /\ IInv
<1> SUFFICES ASSUME Init PROVE PluginsAndCalls /\ IInv
  OBVIOUS
<1>1. /\ <<>> \in Seq(Ext) /\ <<>> \in Seq(Call) /\ <<>> \in Seq(Native) /\ <<>> \in Seq(Given)
      /\ DOMAIN <<>> = {} /\ Len(<<>>) = 0 /\ 0 \in 0..0
  OBVIOUS
<1>2. ExtOK
  <2>1. ExtTypes
    BY <1>1 DEF Init, ExtInit, ExtTypes, Phase
  <2>2. LibrariesAreOpen
    BY <1>1 DEF Init, ExtInit, LibrariesAreOpen
  <2>3. QED
    BY <2>1, <2>2 DEF ExtOK
<1>3. PluginOK
  BY NoPluginsIsOK DEF Init, NoPlugins
<1>4. CallOK
  <2>1. CallTypes
    BY <1>1 DEF Init, CallTypes
  <2>2. CallsAreOfPlugins
    BY <1>1 DEF Init, CallsAreOfPlugins
  <2>3. StacksAgree
    BY <1>1, UnderNone DEF Init, StacksAgree
  <2>4. QED
    BY <2>1, <2>2, <2>3 DEF CallOK
<1>5. NothingWhenOff
  BY <1>1 DEF Init, ExtInit, NothingWhenOff, Loaded
<1>6. QED
  BY <1>2, <1>3, <1>4, <1>5, Parts DEF PluginsAndCalls, ExtOK

LEMMA PluginsAndCallsKept ==
  ASSUME ~ElsewhereCalls, ~ExecChangesMap, PluginsAndCalls, [Next]_vars
  PROVE  PluginsAndCalls'
<1>1. /\ ExtTypes /\ PluginOK /\ CallOK /\ NothingWhenOff /\ CallTypes /\ CallsAreOfPlugins
      /\ unread \subseteq File /\ Loaded \subseteq File
  BY DEF PluginsAndCalls, PluginOK, CallOK, PluginTypes
<1>2. ExtTypes'
  BY <1>1, ExtTypesKept
<1>3. NothingWhenOff'
  BY QuietKept
<1>4. ASSUME UNCHANGED <<ids, list, bound, proxied, pluginNatives, callVars>>,
             unread' \subseteq File
      PROVE  PluginOK' /\ CallOK'
  BY <1>1, <1>4, PluginsStay, CallsStay
<1>5. ASSUME UNCHANGED pluginVars
      PROVE  PluginOK' /\ Loaded' = Loaded
  BY <1>1, <1>5, PluginsStay DEF pluginVars
<1>6. PluginOK' /\ CallOK'
  <2>1. CASE UNCHANGED vars \/ LoadExts \/ AskForNatives \/ Play \/ UsesManager \/ MapEnds \/ UnloadExts
    BY <1>1, <1>4, <2>1
    DEF vars, pluginVars, LoadExts, AskForNatives, Play, UsesManager, MapEnds, UnloadExts
  <2>2. CASE LoadPlugins
    BY <1>4, <2>2 DEF LoadPlugins
  <2>3. CASE \E f \in File : OmitPlugin(f)
    BY <1>1, <1>4, <2>3 DEF OmitPlugin
  <2>4. CASE \E f \in File : LoadPlugin(f)
    <3>1. PICK f \in File : LoadPlugin(f)
      BY <2>4
    <3>2. PluginOK' /\ Loaded' = Loaded \cup {f}
      BY <1>1, <3>1, LoadPluginKeeps
    <3>3. UNCHANGED callVars
      BY <3>1 DEF LoadPlugin
    <3>4. QED
      BY <1>1, <3>2, <3>3, CallsStay
  <2>5. CASE \E f \in File : RunFunction(f)
    <3>1. PICK f \in File : RunFunction(f)
      BY <2>5
    <3>2. f \in Loaded /\ UNCHANGED pluginVars
      BY <3>1 DEF RunFunction
    <3>3. QED
      BY <1>1, <1>5, <3>1, <3>2, RunFunctionKeeps
  <2>6. CASE \E n \in Native : NativeRegister(n)
    <3>1. PICK n \in Native : NativeRegister(n)
      BY <2>6
    <3>2. /\ UNCHANGED <<unread, ids, list, bound, callVars>>
          /\ proxied' = Registered(n, Top.plugin) /\ stack # <<>> /\ Top.plugin \in File
      BY <3>1 DEF NativeRegister
    <3>3. Top.plugin \in Loaded
      BY <1>1, <3>2, TopIs, NamesOfCode
    <3>4. \/ pluginNatives' = pluginNatives
          \/ proxied[n] = None /\ pluginNatives' = [pluginNatives EXCEPT ![n] = Top.plugin]
      BY <1>1, <3>1, <3>2 DEF NativeRegister, Registered, PluginOK, PluginTypes
    <3>5. PluginOK' /\ Loaded' = Loaded
      BY <1>1, <3>2, <3>3, <3>4, RegisteringKeeps DEF Loaded
    <3>6. QED
      BY <1>1, <3>2, <3>5, CallsStay
  <2>7. CASE \E n \in Native : RegisterElsewhere(n)
    <3>1. PICK n \in Native : RegisterElsewhere(n)
      BY <2>7
    <3>2. /\ UNCHANGED <<unread, ids, list, bound, pluginNatives, callVars>>
          /\ proxied' = Registered(n, Elsewhere)
      BY <3>1 DEF RegisterElsewhere
    <3>3. PluginOK' /\ Loaded' = Loaded
      BY <1>1, <3>2, RegisteringKeeps DEF Loaded
    <3>4. QED
      BY <1>1, <3>2, <3>3, CallsStay
  <2>8. CASE BindPluginsNatives
    <3>1. UNCHANGED callVars
      BY <2>8 DEF BindPluginsNatives
    <3>2. QED
      BY <1>1, <2>8, <3>1, BindingKeeps, CallsStay
  <2>9. CASE \E n \in Native, args \in Args : Invoke(n, args)
    <3>1. PICK n \in Native, args \in Args : Invoke(n, args)
      BY <2>9
    <3>2. UNCHANGED pluginVars
      BY <3>1 DEF Invoke
    <3>3. QED
      BY <1>1, <1>5, <3>1, <3>2, InvokeKeeps
  <2>10. CASE Return
    <3>1. UNCHANGED pluginVars
      BY <2>10 DEF Return
    <3>2. QED
      BY <1>1, <1>5, <2>10, <3>1, ReturnKeeps
  <2>11. CASE MapCleared
    <3>1. NoPlugins'
      BY <1>1, <2>11 DEF MapCleared, NoPlugins
    <3>2. PluginOK'
      BY <3>1, NoPluginsIsOK, PTL
    <3>3. stack = <<>> /\ UNCHANGED callVars
      BY <2>11 DEF MapCleared, MapMayEnd
    <3>4. stack' = <<>> /\ current' = current /\ given' = given /\ DOMAIN <<>> = {}
      BY <3>3 DEF callVars
    <3>5. CallTypes' /\ CallsAreOfPlugins' /\ StacksAgree'
      BY <1>1, <3>3, <3>4 DEF CallOK, CallTypes, CallsAreOfPlugins, StacksAgree
    <3>6. QED
      BY <3>2, <3>5 DEF CallOK
  <2>12. QED
    BY <2>1, <2>2, <2>3, <2>4, <2>5, <2>6, <2>7, <2>8, <2>9, <2>10, <2>11 DEF Next
<1>7. QED
  BY <1>2, <1>3, <1>6 DEF PluginsAndCalls

----------------------------------------------------------------------------
(* What the invariant says.                                                *)

\* The natives under way and their arguments are on top of their stacks.
LEMMA CallsAreSeen == CallOK => NativesSeeTheirCall
<1> SUFFICES ASSUME CallOK PROVE NativesSeeTheirCall
  OBVIOUS
<1> DEFINE len == Len(stack)
<1>1. /\ CallTypes /\ CallsAreOfPlugins /\ StacksAreKept
      /\ stack \in Seq(Call) /\ current \in Seq(Native) /\ given \in [Native -> Seq(Given)]
      /\ KeptFor(stack, Native, NativesOf(stack), current)
      /\ DOMAIN stack = 1..len /\ len \in Nat
  BY AgreeIfKept, LenProperties DEF CallOK, CallTypes, StacksAreKept
<1>2. ASSUME \A k \in DOMAIN stack : stack[k].native = None
      PROVE  NativeGet(0) = Error
  <2>1. {j \in 1..len : stack[j].native \in Native} = {}
    BY <1>1, <1>2, NamesOfCode
  <2>2. Len(current) = 0
    BY <1>1, <2>1, FS_EmptySet DEF KeptFor, Under
  <2>3. current = <<>>
    BY <1>1, <2>2
  <2>4. QED
    BY <2>3 DEF NativeGet
<1>3. ASSUME stack # <<>>, Top.native # None, Top.plugin \in File
      PROVE  /\ NativeGet(0) = Len(Top.args)
             /\ \A i \in 1..Len(Top.args) : NativeGet(i) = Top.args[i]
             /\ NativeGet(Len(Top.args) + 1) = Error
             /\ NativeSet = Top.caller
  <2> DEFINE n == Top.native
             passed == [ctx |-> Top.caller, params |-> Top.args]
  <2>1. /\ Top = stack[len] /\ len \in DOMAIN stack /\ n \in Native /\ Top \in Call
    BY <1>1, <1>3, TopIs
  <2>2. current # <<>> /\ current[Len(current)] = n
    <3>1. stack[len].native \in Native => current # <<>> /\ current[Len(current)] = NativesOf(stack)[len]
      BY <1>1, <1>3, KeptPop
    <3>2. QED
      BY <2>1, <3>1 DEF NativesOf
  <2>3. given[n] # <<>> /\ given[n][Len(given[n])] = passed
    <3>1. KeptFor(stack, {n}, PassedTo(stack), given[n]) /\ given[n] \in Seq(Given)
      BY <1>1, <2>1 DEF StacksAreKept
    <3>2. stack[len].native \in {n} =>
            given[n] # <<>> /\ given[n][Len(given[n])] = PassedTo(stack)[len]
      BY <1>1, <1>3, <3>1, KeptPop
    <3>3. QED
      BY <2>1, <3>2 DEF PassedTo
  <2>4. Last(current) = n /\ Last(given[n]) = passed
    BY <2>2, <2>3 DEF Last
  <2>5. passed.params = Top.args /\ passed.ctx = Top.caller
    OBVIOUS
  <2>6. Len(Top.args) \in Nat
    <3>1. Top.args \in Args \cup {<<>>}
      BY <2>1 DEF Call
    <3>2. QED
      BY <3>1, PluginsAndNatives
  <2> HIDE DEF n, passed
  <2>7. ASSUME NEW i \in Nat
        PROVE  NativeGet(i) = IF i > Len(Top.args) THEN Error
                              ELSE IF i = 0 THEN Len(Top.args) ELSE Top.args[i]
    BY <2>2, <2>3, <2>4, <2>5 DEF NativeGet
  <2>8. NativeSet = Top.caller
    BY <2>3, <2>4, <2>5 DEF NativeSet
  <2>9. QED
    BY <2>6, <2>7, <2>8
<1>4. QED
  BY <1>2, <1>3 DEF NativesSeeTheirCall

\* Everything the proofs rest on holds after any steps, as long as plugins of
\* other adapters do not call natives of these and no queued command changes
\* the map under a plugin.
THEOREM InductiveInvariant ==
  ASSUME ~ElsewhereCalls, ~ExecChangesMap
  PROVE  Spec => []IInv
<1>1. Init => IInv
  BY InitIsOK
<1>2. IInv /\ [Next]_vars => IInv'
  <2> SUFFICES ASSUME IInv, [Next]_vars PROVE IInv'
    OBVIOUS
  <2>1. PluginsAndCalls /\ ExtOK /\ NothingWhenOff
    BY Parts DEF PluginsAndCalls, ExtOK
  <2>2. PluginsAndCalls'
    BY <2>1, PluginsAndCallsKept
  <2>3. LibrariesAreOpen'
    BY <2>1, LibrariesKept
  <2>4. ExtOK' /\ PluginOK' /\ CallOK' /\ NothingWhenOff'
    BY <2>2, <2>3 DEF PluginsAndCalls, ExtOK
  <2>5. QED
    BY <2>4, Parts, PTL
<1>3. QED
  BY <1>1, <1>2, PTL DEF Spec

\* What a native gets and sets is what the call that started it passed,
\* however deep calls nest and whatever ran since (currentPluginNative, m_ctx
\* and m_params of NativeCallback.cpp).
THEOREM ArgumentsAreOfTheCall ==
  ASSUME ~ElsewhereCalls, ~ExecChangesMap
  PROVE  Spec => []NativesSeeTheirCall
<1>1. IInv => NativesSeeTheirCall
  BY CallsAreSeen, Parts
<1>2. QED
  BY <1>1, InductiveInvariant, PTL

\* Every plugin is in the list at its id, the id a native is told is that of
\* its caller, and a name leads to the same native from every table that has it
\* (_loadPlugin(), bindPluginsNatives()).
THEOREM NamesAndIdsAreOfOne ==
  ASSUME ~ElsewhereCalls, ~ExecChangesMap
  PROVE  Spec => []NamesAndIdsAreUnambiguous
<1>1. IInv => NamesAndIdsAreUnambiguous
  BY DEF IInv
<1>2. QED
  BY <1>1, InductiveInvariant, PTL

\* An interface of a library that is not open is one an extension registered
\* before it was refused, none is left between two maps, and all that managers
\* hold then was put there by SPMod_End() (unloadExts()).
THEOREM LibrariesOutliveTheirPointers ==
  ASSUME ~ElsewhereCalls, ~ExecChangesMap
  PROVE  Spec => []NothingOutlivesItsLibrary
<1>1. IInv => NothingOutlivesItsLibrary
  <2> SUFFICES ASSUME IInv PROVE NothingOutlivesItsLibrary
    OBVIOUS
  <2>1. interfaces \subseteq ToSet(handles) \cup Hasty
    BY Parts DEF ExtOK, LibrariesAreOpen, ToSet
  <2>2. /\ phase \in {"ended", "off"} =>
             held \subseteq AtEnd /\ stack = <<>> /\ \A n \in Native : proxied[n] = None
        /\ phase = "off" => interfaces = {}
    BY Parts DEF NothingWhenOff, RunsCode
  <2>3. QED
    BY <2>1, <2>2 DEF NothingOutlivesItsLibrary
<1>2. QED
  BY <1>1, InductiveInvariant, PTL
=============================================================================
