--------------------------- MODULE CvarMngr_proofs ---------------------------
(***************************************************************************)
(* Proofs about the console variables, for any variables, values, depth of *)
(* nesting and any finite set of functions.  The inductive invariant IInv  *)
(* says of the changes under way what the properties need of them: their   *)
(* variables are cached, their old values are those of the engine, and     *)
(* there are none when the engine sets variables past the hook.            *)
(***************************************************************************)
EXTENDS CvarMngr, FiniteSetTheorems, SequenceTheorems, TLAPS

----------------------------------------------------------------------------
(* The stack of changes.                                                   *)

\* Assigning to the string of a variable only touches the old values that its
\* own changes under way pass on.
LEMMA ViewsLostEffect ==
  ASSUME NEW c \in Cvar, NEW stack \in Seq(Change)
  PROVE  /\ ViewsLost(c, stack) \in Seq(Change) /\ Len(ViewsLost(c, stack)) = Len(stack)
         /\ \A k \in DOMAIN stack :
              /\ ViewsLost(c, stack)[k].cvar = stack[k].cvar
              /\ stack[k].cvar = c => ViewsLost(c, stack)[k].old = Undefined
              /\ stack[k].cvar # c => ViewsLost(c, stack)[k] = stack[k]
<1> DEFINE new == ViewsLost(c, stack)
<1>1. new = [k \in 1..Len(stack) |->
               IF stack[k].cvar = c THEN [stack[k] EXCEPT !.old = Undefined] ELSE stack[k]]
  BY DEF ViewsLost
<1>2. \A x \in Change : /\ [x EXCEPT !.old = Undefined] \in Change
                        /\ [x EXCEPT !.old = Undefined].cvar = x.cvar
                        /\ [x EXCEPT !.old = Undefined].old = Undefined
  BY DEF Change
<1>3. \A k \in 1..Len(stack) :
        /\ stack[k] \in Change /\ new[k] \in Change
        /\ new[k].cvar = stack[k].cvar
        /\ stack[k].cvar = c => new[k].old = Undefined
        /\ stack[k].cvar # c => new[k] = stack[k]
  BY <1>1, <1>2
<1>4. new \in [1..Len(stack) -> Change]
  BY <1>1, <1>3
<1>5. new \in Seq(Change) /\ Len(new) = Len(stack)
  <2> HIDE DEF new
  <2>1. QED
    BY <1>4
<1>6. QED
  BY <1>3, <1>5

\* A change that has callbacks is put on top of the others.
LEMMA PushEffect ==
  ASSUME TypeOK, NEW c \in Cvar, NEW v \in Text, cache[c] # None, hooks[c] # {}, SetValue(c, v)
  PROVE  /\ calls' \in Seq(Change) /\ Len(calls') <= MaxNesting
         /\ \A k \in DOMAIN calls' :
              \/ k \in DOMAIN calls /\ calls'[k] = calls[k]
              \/ calls'[k].cvar = c /\ calls'[k].old = cache[c]
         /\ UNCHANGED <<cache, engine, missed>>
<1> DEFINE change == [cvar |-> c, new |-> v, old |-> cache[c], round |-> 1, told |-> {}]
<1>1. calls \in Seq(Change) /\ Len(calls) \in Nat
  BY DEF TypeOK
<1>2. 1 \in 1..Cardinality(Function)
  <2>1. PICK f \in Function : f \in hooks[c]
    BY DEF TypeOK
  <2>2. Cardinality(Function) \in Nat /\ Cardinality(Function) # 0
    BY <2>1, FunctionsAreFinite, FS_CardinalityType, FS_EmptySet
  <2>3. QED
    BY <2>2
<1>3. change \in Change
  BY <1>2 DEF Change, TypeOK
<1>4. calls' = Append(calls, change) /\ Len(calls) < MaxNesting /\ UNCHANGED <<cache, engine, missed>>
  BY DEF SetValue
<1>5. change.cvar = c /\ change.old = cache[c]
  OBVIOUS
<1>6. /\ calls' \in Seq(Change) /\ Len(calls') = Len(calls) + 1
      /\ \A k \in DOMAIN calls : calls'[k] = calls[k]
      /\ calls'[Len(calls) + 1] = change
  <2> HIDE DEF change
  <2>1. QED
    BY <1>1, <1>3, <1>4, AppendProperties
<1>7. \A k \in DOMAIN calls' : k \in DOMAIN calls \/ k = Len(calls) + 1
  <2> HIDE DEF change
  <2>1. QED
    BY <1>1, <1>6
<1>8. Len(calls') <= MaxNesting
  BY <1>1, <1>4, <1>6, NestingIsBounded
<1>9. QED
  <2> HIDE DEF change
  <2>1. QED
    BY <1>4, <1>5, <1>6, <1>7, <1>8

\* A step of the change on top leaves its variable and its old value alone.
LEMMA OnTopEffect ==
  ASSUME TypeOK, calls # <<>>, NEW change \in Change, change.cvar = Top.cvar, change.old = Top.old,
         calls' = OnTop(change)
  PROVE  /\ calls' \in Seq(Change) /\ Len(calls') <= MaxNesting /\ calls' # <<>>
         /\ DOMAIN calls' = DOMAIN calls
         /\ \A k \in DOMAIN calls : calls'[k].cvar = calls[k].cvar /\ calls'[k].old = calls[k].old
<1>1. Len(calls) \in DOMAIN calls /\ calls \in Seq(Change)
  BY DEF TypeOK
<1>2. calls' = [calls EXCEPT ![Len(calls)] = change]
  BY DEF OnTop
<1>3. calls' \in Seq(Change) /\ Len(calls') = Len(calls) /\ calls' # <<>>
  BY <1>1, <1>2
<1>4. QED
  BY <1>1, <1>2, <1>3 DEF Top, TypeOK

\* The changes below the one on top.
LEMMA FrontEffect ==
  ASSUME TypeOK, calls # <<>>
  PROVE  /\ Front(calls) \in Seq(Change) /\ Len(Front(calls)) <= MaxNesting
         /\ \A k \in DOMAIN Front(calls) : k \in DOMAIN calls /\ Front(calls)[k] = calls[k]
<1>1. calls \in Seq(Change) /\ Len(calls) \in Nat \ {0} /\ Len(calls) - 1 \in Nat
  BY DEF TypeOK
<1>2. Front(calls) = SubSeq(calls, 1, Len(calls) - 1)
  BY DEF Front
<1>3. ASSUME NEW n \in Nat, n = Len(calls) - 1
      PROVE  Len(SubSeq(calls, 1, n)) = n
  BY <1>1, <1>3
<1>4. Front(calls) \in Seq(Change) /\ Len(Front(calls)) = Len(calls) - 1
  <2>1. SubSeq(calls, 1, Len(calls) - 1) \in Seq(Change)
    BY <1>1
  <2>2. QED
    BY <1>1, <1>2, <1>3, <2>1
<1>5. \A k \in 1..Len(calls) - 1 : Front(calls)[k] = calls[k]
  BY <1>1, <1>2
<1>6. QED
  BY <1>1, <1>4, <1>5, NestingIsBounded DEF TypeOK

\* The change on top.
LEMMA TopType ==
  ASSUME TypeOK, calls # <<>>
  PROVE  Top \in Change /\ Len(calls) \in DOMAIN calls /\ Top = calls[Len(calls)]
BY DEF TypeOK, Top

\* The changes under way are changes.
LEMMA ChangeOfStack ==
  ASSUME NEW stack \in Seq(Change), NEW k \in DOMAIN stack
  PROVE  stack[k] \in Change /\ stack[k].cvar \in Cvar
<1>1. stack[k] \in Change
  OBVIOUS
<1>2. QED
  BY <1>1 DEF Change

----------------------------------------------------------------------------
(* Every action keeps the inductive invariant.                             *)

\* The program starts with nothing cached, hooked or under way.
LEMMA InitIInv == Init => IInv
<1> SUFFICES ASSUME Init PROVE IInv
  OBVIOUS
<1>1. calls = <<>> /\ <<>> \in Seq(Change) /\ Len(<<>>) = 0 /\ DOMAIN calls = {}
  BY DEF Init
<1>2. TypeOK
  BY <1>1, NestingIsBounded DEF Init, TypeOK
<1>3. QED
  BY <1>1, <1>2 DEF Init, IInv, CacheAgrees, OldIsOld, Read, FoundAreCached, ChangesAreCached,
                    QuietWhenAway

\* A variable that was not cached is cached with the value of the engine; a
\* cached one is left as it was.
LEMMA FindCvarKeepsIInv ==
  ASSUME IInv, NEW c \in Cvar, FindCvar(c)
  PROVE  IInv'
<1> USE NoValues DEF FindCvar, CachedByEngine, Registered
<1>1. TypeOK /\ engine[c] \in Text /\ cache[c] \in Text \cup {None}
  BY DEF IInv, CacheAgrees, TypeOK
<1>2. TypeOK'
  BY <1>1 DEF TypeOK
<1>3. /\ cache'[c] = IF cache[c] = None THEN engine[c] ELSE cache[c]
      /\ \A d \in Cvar : d # c => cache'[d] = cache[d]
  BY <1>1 DEF TypeOK
<1>4. \A d \in Cvar : cache[d] # None \/ d = c => cache'[d] # None
  BY <1>1, <1>3
<1>5. CacheAgrees'
  BY <1>1, <1>2, <1>3, <1>4 DEF IInv, CacheAgrees, Read, FoundAreCached, Cached
<1>6. FoundAreCached'
  BY <1>1, <1>4 DEF IInv, TypeOK, FoundAreCached, Cached
<1>7. ChangesAreCached'
  <2>1. calls \in Seq(Change)
    BY <1>1 DEF TypeOK
  <2>2. QED
    BY <1>4, <2>1, ChangeOfStack DEF IInv, ChangesAreCached, Cached
<1>8. OldIsOld' /\ QuietWhenAway'
  BY DEF IInv, OldIsOld, QuietWhenAway
<1>9. QED
  BY <1>5, <1>6, <1>7, <1>8 DEF IInv

\* m_value and the engine get one value.  The changes under way of the variable
\* lost their old value before it.
LEMMA StoredKeepsIInv ==
  ASSUME IInv, NEW c \in Cvar, NEW v \in Text, NEW stack \in Seq(Change), Stored(c, v),
         Len(stack) <= MaxNesting,
         \A k \in DOMAIN stack : k \in DOMAIN calls /\ stack[k] = calls[k],
         calls' = ViewsLost(c, stack),
         UNCHANGED <<hooks, found, phase>>, phase = "away" => stack = <<>>
  PROVE  IInv'
<1> USE NoValues
<1>1. /\ calls' \in Seq(Change) /\ Len(calls') = Len(stack) /\ DOMAIN calls' = DOMAIN stack
      /\ \A k \in DOMAIN stack :
           /\ calls'[k].cvar = stack[k].cvar
           /\ stack[k].cvar = c => calls'[k].old = Undefined
           /\ stack[k].cvar # c => calls'[k] = stack[k]
  BY ViewsLostEffect
<1>2. TypeOK /\ missed \subseteq Cvar /\ found \subseteq Cvar
  BY DEF IInv, CacheAgrees, TypeOK
<1>3. TypeOK'
  BY <1>1, <1>2 DEF TypeOK, Stored
<1>4. /\ cache'[c] = v /\ engine'[c] = v
      /\ \A d \in Cvar : d # c => cache'[d] = cache[d] /\ engine'[d] = engine[d]
  BY <1>2 DEF TypeOK, Stored
<1>5. \A d \in Cvar : cache[d] # None => cache'[d] # None
  BY <1>4
<1>6. CacheAgrees'
  BY <1>2, <1>3, <1>4 DEF IInv, CacheAgrees, Read, Stored
<1>7. \A k \in DOMAIN calls' : calls'[k].cvar \in Cvar
  BY <1>1, ChangeOfStack
<1>8. FoundAreCached'
  BY <1>2, <1>5 DEF IInv, FoundAreCached, Cached
<1>9. ChangesAreCached'
  <2> SUFFICES ASSUME NEW k \in DOMAIN calls' PROVE cache'[calls'[k].cvar] # None
    BY DEF ChangesAreCached, Cached
  <2>1. k \in DOMAIN calls /\ calls'[k].cvar = calls[k].cvar
    BY <1>1
  <2>2. cache[calls[k].cvar] # None
    BY <2>1 DEF IInv, ChangesAreCached, Cached
  <2>3. QED
    BY <1>5, <1>7, <2>1, <2>2
<1>10. OldIsOld'
  <2> SUFFICES ASSUME NEW k \in DOMAIN calls', calls'[k].cvar \notin missed', calls'[k].old # Undefined
               PROVE  calls'[k].old = engine'[calls'[k].cvar]
    BY DEF OldIsOld
  <2>1. stack[k].cvar # c /\ calls'[k] = calls[k] /\ k \in DOMAIN calls
    BY <1>1
  <2>2. calls[k].old = engine[calls[k].cvar]
    BY <1>1, <2>1 DEF IInv, OldIsOld, Stored
  <2>3. QED
    BY <1>1, <1>4, <1>7, <2>1, <2>2
<1>11. QuietWhenAway'
  <2> SUFFICES ASSUME phase = "away" PROVE calls' = <<>>
    BY DEF QuietWhenAway
  <2>1. Len(stack) = 0
    OBVIOUS
  <2>2. QED
    BY <1>1, <2>1
<1>12. QED
  BY <1>6, <1>8, <1>9, <1>10, <1>11 DEF IInv

\* setValue() up to its first callback, of a cached variable.
LEMMA SetValueKeepsIInv ==
  ASSUME IInv, NEW c \in Cvar, NEW v \in Text, Cached(c), SetValue(c, v), phase # "away",
         UNCHANGED <<hooks, found, phase>>
  PROVE  IInv'
<1>1. TypeOK /\ calls \in Seq(Change)
  BY DEF IInv, CacheAgrees, TypeOK
<1>2. CASE hooks[c] = {}
  <2>1. Stored(c, v) /\ calls' = ViewsLost(c, calls) /\ Len(calls) <= MaxNesting
    BY <1>1, <1>2 DEF SetValue, TypeOK
  <2>2. QED
    BY <1>1, <2>1, StoredKeepsIInv
<1>3. CASE hooks[c] # {}
  <2>1. /\ calls' \in Seq(Change) /\ Len(calls') <= MaxNesting
        /\ \A k \in DOMAIN calls' : \/ k \in DOMAIN calls /\ calls'[k] = calls[k]
                                    \/ calls'[k].cvar = c /\ calls'[k].old = cache[c]
        /\ UNCHANGED <<cache, engine, missed>>
    BY <1>1, <1>3, PushEffect DEF Cached
  <2>2. TypeOK' /\ CacheAgrees'
    BY <1>1, <2>1 DEF IInv, TypeOK, CacheAgrees, Read
  <2>3. c \notin missed => cache[c] = engine[c]
    BY DEF IInv, CacheAgrees, Cached
  <2>4. OldIsOld'
    BY <2>1, <2>3 DEF IInv, OldIsOld
  <2>5. FoundAreCached' /\ ChangesAreCached' /\ QuietWhenAway'
    BY <2>1 DEF IInv, FoundAreCached, ChangesAreCached, QuietWhenAway, Cached
  <2>6. QED
    BY <2>2, <2>4, <2>5 DEF IInv
<1>4. QED
  BY <1>2, <1>3

\* registerCvar() of a variable that nobody has: no change of it can be under
\* way.
LEMMA RegisterCvarKeepsIInv ==
  ASSUME IInv, NEW c \in Cvar, NEW v \in Text, RegisterCvar(c, v)
  PROVE  IInv'
<1> USE NoValues DEF RegisterCvar
<1>1. TypeOK /\ v # None
  BY DEF IInv, CacheAgrees
<1>2. TypeOK'
  BY <1>1 DEF TypeOK
<1>3. /\ cache'[c] = v /\ engine'[c] = v
      /\ \A d \in Cvar : d # c => cache'[d] = cache[d] /\ engine'[d] = engine[d]
  BY <1>1 DEF TypeOK
<1>4. CacheAgrees'
  BY <1>1, <1>2, <1>3 DEF IInv, CacheAgrees, Read
<1>5. FoundAreCached'
  BY <1>1, <1>3 DEF IInv, TypeOK, FoundAreCached, Cached
<1>6. \A k \in DOMAIN calls : calls[k].cvar \in Cvar \ {c} /\ cache[calls[k].cvar] # None
  <2>1. calls \in Seq(Change)
    BY <1>1 DEF TypeOK
  <2>2. QED
    BY <2>1, ChangeOfStack DEF IInv, ChangesAreCached, Cached
<1>7. ChangesAreCached' /\ OldIsOld' /\ QuietWhenAway'
  BY <1>3, <1>6 DEF IInv, ChangesAreCached, OldIsOld, QuietWhenAway, Cached
<1>8. QED
  BY <1>4, <1>5, <1>7 DEF IInv

\* A step that leaves the values, the cache and the stack alone.
LEMMA OthersKeepIInv ==
  ASSUME IInv, UNCHANGED <<engine, cache, missed, calls>>, found' \subseteq found,
         hooks' \in [Cvar -> SUBSET Function],
         phase' \in {"away", "loading", "playing"}, phase' = "away" => phase = "away" \/ calls = <<>>
  PROVE  IInv'
<1>1. TypeOK'
  BY DEF IInv, CacheAgrees, TypeOK
<1>2. CacheAgrees'
  BY <1>1 DEF IInv, CacheAgrees, Read
<1>3. OldIsOld' /\ FoundAreCached' /\ ChangesAreCached' /\ QuietWhenAway'
  BY DEF IInv, OldIsOld, FoundAreCached, ChangesAreCached, QuietWhenAway, Cached
<1>4. QED
  BY <1>2, <1>3 DEF IInv

\* AddHookOnChange().
LEMMA AddHookKeepsIInv ==
  ASSUME IInv, NEW c \in Cvar, NEW f \in Function, AddHookOnChange(c, f)
  PROVE  IInv'
<1>1. hooks' \in [Cvar -> SUBSET Function] /\ phase \in {"away", "loading", "playing"}
  BY DEF AddHookOnChange, IInv, CacheAgrees, TypeOK
<1>2. QED
  BY <1>1, OthersKeepIInv DEF AddHookOnChange

\* SetString, SetInt and SetFloat.
LEMMA PluginSetsKeepsIInv ==
  ASSUME IInv, NEW c \in Cvar, NEW v \in Text, PluginSets(c, v)
  PROVE  IInv'
<1>1. Cached(c) /\ phase # "away" /\ SetValue(c, v) /\ UNCHANGED <<hooks, found, phase>>
  BY DEF PluginSets, PluginRuns, IInv, FoundAreCached
<1>2. QED
  BY <1>1, SetValueKeepsIInv

\* The hook tells the functions of a cached variable; one that is not cached,
\* or has the value already, is set at once, and no change is under way.
LEMMA EngineSetsKeepsIInv ==
  ASSUME IInv, NEW c \in Cvar, NEW v \in Text, EngineSets(c, v)
  PROVE  IInv'
<1> USE NoValues
<1>1. TypeOK /\ calls = <<>> /\ phase = "playing" /\ UNCHANGED <<hooks, found, phase>>
  BY DEF EngineSets, IInv, CacheAgrees
<1>2. CASE cache[c] \in {None, v}
  <2>1. engine' = [engine EXCEPT ![c] = v] /\ missed' = missed \ {c} /\ UNCHANGED <<cache, calls>>
    BY <1>2 DEF EngineSets, DirectSetHook
  <2>2. TypeOK'
    BY <1>1, <2>1 DEF TypeOK
  <2>3. engine'[c] = v /\ \A d \in Cvar : d # c => engine'[d] = engine[d]
    BY <1>1, <2>1 DEF TypeOK
  <2>4. CacheAgrees'
    BY <1>1, <1>2, <2>1, <2>2, <2>3 DEF IInv, CacheAgrees, Read, FoundAreCached, Cached
  <2>5. OldIsOld' /\ FoundAreCached' /\ ChangesAreCached' /\ QuietWhenAway'
    BY <1>1, <2>1 DEF IInv, OldIsOld, FoundAreCached, ChangesAreCached, QuietWhenAway, Cached
  <2>6. QED
    BY <2>4, <2>5 DEF IInv
<1>3. CASE cache[c] \notin {None, v}
  <2>1. SetValue(c, v) /\ Cached(c)
    BY <1>3 DEF EngineSets, DirectSetHook, Cached
  <2>2. QED
    BY <1>1, <2>1, SetValueKeepsIInv
<1>4. QED
  BY <1>2, <1>3

\* A variable the engine sets past the hook is recorded as missed.
LEMMA EngineSetsUnseenKeepsIInv ==
  ASSUME IInv, NEW c \in Cvar, NEW v \in Text, EngineSetsUnseen(c, v)
  PROVE  IInv'
<1> USE NoValues DEF EngineSetsUnseen
<1>1. TypeOK /\ calls = <<>>
  BY DEF IInv, CacheAgrees, QuietWhenAway
<1>2. TypeOK'
  BY <1>1 DEF TypeOK
<1>3. engine'[c] = v /\ \A d \in Cvar : d # c => engine'[d] = engine[d]
  BY <1>1 DEF TypeOK
<1>4. \A d \in Cvar \ missed' : d \notin missed /\ (d = c => cache[d] \in {None, v})
  BY <1>1
<1>5. CacheAgrees'
  BY <1>1, <1>2, <1>3, <1>4 DEF IInv, CacheAgrees, Read, FoundAreCached, Cached, TypeOK
<1>6. OldIsOld' /\ FoundAreCached' /\ ChangesAreCached' /\ QuietWhenAway'
  BY <1>1 DEF IInv, OldIsOld, FoundAreCached, ChangesAreCached, QuietWhenAway, Cached
<1>7. QED
  BY <1>5, <1>6 DEF IInv

\* A step of the callbacks of the change on top.
LEMMA OnTopKeepsIInv ==
  ASSUME IInv, calls # <<>>, NEW change \in Change, change.cvar = Top.cvar, change.old = Top.old,
         calls' = OnTop(change), UNCHANGED <<engine, cache, hooks, found, phase, missed>>
  PROVE  IInv'
<1>1. TypeOK
  BY DEF IInv, CacheAgrees
<1>2. /\ calls' \in Seq(Change) /\ Len(calls') <= MaxNesting /\ calls' # <<>>
      /\ DOMAIN calls' = DOMAIN calls
      /\ \A k \in DOMAIN calls : calls'[k].cvar = calls[k].cvar /\ calls'[k].old = calls[k].old
  BY <1>1, OnTopEffect
<1>3. TypeOK'
  BY <1>1, <1>2 DEF TypeOK
<1>4. CacheAgrees'
  BY <1>3 DEF IInv, CacheAgrees, Read
<1>5. OldIsOld' /\ FoundAreCached' /\ ChangesAreCached' /\ QuietWhenAway'
  BY <1>2 DEF IInv, OldIsOld, FoundAreCached, ChangesAreCached, QuietWhenAway, Cached
<1>6. QED
  BY <1>4, <1>5 DEF IInv

\* The next function of the range is called.
LEMMA TellNextKeepsIInv ==
  ASSUME IInv, NEW f \in Function, TellNext(f)
  PROVE  IInv'
<1>1. TypeOK /\ calls # <<>>
  BY DEF TellNext, IInv, CacheAgrees
<1>2. Top \in Change
  BY <1>1, TopType
<1> DEFINE change == [Top EXCEPT !.told = @ \cup {f}]
<1>4. change \in Change /\ change.cvar = Top.cvar /\ change.old = Top.old
  BY <1>2 DEF Change
<1>5. calls' = OnTop(change) /\ UNCHANGED <<engine, cache, hooks, found, phase, missed>>
  BY DEF TellNext
<1>6. QED
  <2> HIDE DEF change
  <2>1. QED
    BY <1>1, <1>4, <1>5, OnTopKeepsIInv

\* The callbacks that a variable has are as many as its functions.
LEMMA NextCallbackKeepsIInv == IInv /\ NextCallback => IInv'
<1> SUFFICES ASSUME IInv, NextCallback PROVE IInv'
  OBVIOUS
<1>1. TypeOK /\ calls # <<>> /\ Top.round < Cardinality(hooks[Top.cvar])
  BY DEF NextCallback, IInv, CacheAgrees
<1>2. Top \in Change
  BY <1>1, TopType
<1>3. Top.round + 1 \in 1..Cardinality(Function)
  <2>1. hooks[Top.cvar] \subseteq Function
    BY <1>1, <1>2 DEF TypeOK, Change
  <2>2. /\ Cardinality(hooks[Top.cvar]) \in Nat /\ Cardinality(Function) \in Nat
        /\ Cardinality(hooks[Top.cvar]) <= Cardinality(Function)
    BY <2>1, FunctionsAreFinite, FS_Subset, FS_CardinalityType
  <2>3. QED
    BY <1>1, <1>2, <2>2 DEF Change
<1> DEFINE change == [Top EXCEPT !.round = @ + 1, !.told = {}]
<1>5. change \in Change /\ change.cvar = Top.cvar /\ change.old = Top.old
  BY <1>2, <1>3 DEF Change
<1>6. calls' = OnTop(change) /\ UNCHANGED <<engine, cache, hooks, found, phase, missed>>
  BY DEF NextCallback
<1>7. QED
  <2> HIDE DEF change
  <2>1. QED
    BY <1>1, <1>5, <1>6, OnTopKeepsIInv

\* The value is stored when the last callback is done.
LEMMA SetValueEndsKeepsIInv == IInv /\ SetValueEnds => IInv'
<1> SUFFICES ASSUME IInv, SetValueEnds PROVE IInv'
  OBVIOUS
<1>1. TypeOK /\ calls # <<>>
  BY DEF SetValueEnds, IInv, CacheAgrees
<1>2. Top.cvar \in Cvar /\ Top.new \in Text
  BY <1>1, TopType DEF Change
<1>3. /\ Front(calls) \in Seq(Change) /\ Len(Front(calls)) <= MaxNesting
      /\ \A k \in DOMAIN Front(calls) : k \in DOMAIN calls /\ Front(calls)[k] = calls[k]
  BY <1>1, FrontEffect
<1>4. /\ Stored(Top.cvar, Top.new) /\ calls' = ViewsLost(Top.cvar, Front(calls))
      /\ UNCHANGED <<hooks, found, phase>>
  BY DEF SetValueEnds
<1>5. phase # "away"
  BY <1>1 DEF IInv, QuietWhenAway
<1>6. QED
  BY <1>2, <1>3, <1>4, <1>5, StoredKeepsIInv

\* Maps come and go.
LEMMA MapsKeepIInv == IInv /\ (Load \/ InstallHooks \/ Deactivate) => IInv'
<1> SUFFICES ASSUME IInv, Load \/ InstallHooks \/ Deactivate PROVE IInv'
  OBVIOUS
<1>1. hooks \in [Cvar -> SUBSET Function]
  BY DEF IInv, CacheAgrees, TypeOK
<1>2. CASE Load
  BY <1>1, <1>2, OthersKeepIInv DEF Load
<1>3. CASE InstallHooks
  BY <1>1, <1>3, OthersKeepIInv DEF InstallHooks
<1>4. CASE Deactivate
  BY <1>4, OthersKeepIInv DEF Deactivate
<1>5. QED
  BY <1>2, <1>3, <1>4

\* Every step keeps the inductive invariant.
LEMMA StepKeepsIInv == IInv /\ [Next]_vars => IInv'
<1> SUFFICES ASSUME IInv, [Next]_vars PROVE IInv'
  OBVIOUS
<1>1. ASSUME NEW c \in Cvar, FindCvar(c) PROVE IInv'
  BY <1>1, FindCvarKeepsIInv
<1>2. ASSUME NEW c \in Cvar, NEW f \in Function, AddHookOnChange(c, f) PROVE IInv'
  BY <1>2, AddHookKeepsIInv
<1>3. ASSUME NEW c \in Cvar, NEW v \in Text, RegisterCvar(c, v) PROVE IInv'
  BY <1>3, RegisterCvarKeepsIInv
<1>4. ASSUME NEW c \in Cvar, NEW v \in Text, PluginSets(c, v) PROVE IInv'
  BY <1>4, PluginSetsKeepsIInv
<1>5. ASSUME NEW c \in Cvar, NEW v \in Text, EngineSets(c, v) PROVE IInv'
  BY <1>5, EngineSetsKeepsIInv
<1>6. ASSUME NEW c \in Cvar, NEW v \in Text, EngineSetsUnseen(c, v) PROVE IInv'
  BY <1>6, EngineSetsUnseenKeepsIInv
<1>7. ASSUME NEW f \in Function, TellNext(f) PROVE IInv'
  BY <1>7, TellNextKeepsIInv
<1>8. CASE NextCallback \/ SetValueEnds
  BY <1>8, NextCallbackKeepsIInv, SetValueEndsKeepsIInv
<1>9. CASE Load \/ InstallHooks \/ Deactivate
  BY <1>9, MapsKeepIInv
<1>10. CASE UNCHANGED vars
  BY <1>10, OthersKeepIInv DEF vars, IInv, CacheAgrees, TypeOK
<1>11. QED
  BY <1>1, <1>2, <1>3, <1>4, <1>5, <1>6, <1>7, <1>8, <1>9, <1>10 DEF Next

----------------------------------------------------------------------------
\* The cache, the handles and the changes under way agree in every behaviour.
THEOREM InductiveInvariant == Spec => []IInv
<1>1. QED
  BY InitIInv, StepKeepsIInv, PTL DEF Spec

\* Whatever functions set from within a change, however deep, plugins read the
\* value the engine has, but for variables set while no hook was installed.
THEOREM CacheAgreesWithEngine == Spec => []CacheAgrees
<1>1. IInv => CacheAgrees
  BY DEF IInv
<1>2. QED
  BY <1>1, InductiveInvariant, PTL

\* The old value a function is told is the engine's until a nested change of
\* the same variable assigns to the string it is a view of.
THEOREM OldValuesAreOld == Spec => []OldIsOld
<1>1. IInv => OldIsOld
  BY DEF IInv
<1>2. QED
  BY <1>1, InductiveInvariant, PTL

----------------------------------------------------------------------------
(* Who is told of a change.                                                *)

\* A value that is stored differs for one variable only.
LEMMA StoredChangesOne ==
  ASSUME NEW c \in Cvar, NEW d \in Cvar, NEW v \in Text, TypeOK, Stored(c, v), cache'[d] # cache[d]
  PROVE  d = c
BY DEF Stored, TypeOK

\* setValue() stores at once only what nobody hooked.
LEMMA SetValueTells ==
  ASSUME NEW c \in Cvar, NEW d \in Cvar, NEW v \in Text, TypeOK, SetValue(c, v), cache'[d] # cache[d]
  PROVE  hooks[d] = {}
<1>1. CASE hooks[c] = {}
  BY <1>1, StoredChangesOne DEF SetValue
<1>2. CASE hooks[c] # {}
  BY <1>2 DEF SetValue
<1>3. QED
  BY <1>1, <1>2

\* No function hooked on a variable hears of a change late or not at all: the
\* value is stored when each has been called, for every order in which the
\* functions run and set variables themselves.
THEOREM EveryoneIsTold == Spec => NobodyMissesAChange
<1> DEFINE Told(c) == hooks[c] = {} \/ (calls # <<>> /\ Top.cvar = c /\ Top.told = hooks[c])
<1>1. ASSUME IInv, [Next]_vars, NEW c \in Cvar, cache[c] # None, cache'[c] # cache[c]
      PROVE  Told(c)
  <2>1. TypeOK
    BY <1>1 DEF IInv, CacheAgrees
  <2>2. ASSUME NEW d \in Cvar, FindCvar(d) PROVE FALSE
    BY <1>1, <2>1, <2>2 DEF FindCvar, CachedByEngine, TypeOK
  <2>3. ASSUME NEW d \in Cvar, NEW v \in Text, RegisterCvar(d, v) PROVE FALSE
    BY <1>1, <2>1, <2>3 DEF RegisterCvar, TypeOK
  <2>4. ASSUME NEW d \in Cvar, NEW v \in Text, PluginSets(d, v) PROVE Told(c)
    BY <1>1, <2>1, <2>4, SetValueTells DEF PluginSets
  <2>5. ASSUME NEW d \in Cvar, NEW v \in Text, EngineSets(d, v) PROVE Told(c)
    BY <1>1, <2>1, <2>5, SetValueTells DEF EngineSets, DirectSetHook
  <2>6. ASSUME SetValueEnds PROVE Told(c)
    <3>1. calls # <<>> /\ Top.told = hooks[Top.cvar] /\ Stored(Top.cvar, Top.new)
      BY <2>6 DEF SetValueEnds, TellsEnough, AllTold
    <3>2. Top.cvar \in Cvar /\ Top.new \in Text
      BY <2>1, <3>1, TopType DEF Change
    <3>3. c = Top.cvar
      BY <1>1, <2>1, <3>1, <3>2, StoredChangesOne
    <3>4. QED
      BY <3>1, <3>3
  <2>7. ASSUME UNCHANGED cache PROVE FALSE
    BY <1>1, <2>7
  <2>8. QED
    BY <1>1, <2>2, <2>3, <2>4, <2>5, <2>6, <2>7
       DEF Next, vars, AddHookOnChange, EngineSetsUnseen, TellNext, NextCallback, Load, InstallHooks,
           Deactivate
<1>2. IInv /\ [Next]_vars =>
        [\A c \in Cvar : cache[c] # None /\ cache'[c] # cache[c] => Told(c)]_vars
  BY <1>1
<1>3. QED
  BY <1>2, InductiveInvariant, PTL DEF Spec, NobodyMissesAChange
=============================================================================
