------------------------------ MODULE CvarMngr ------------------------------
(***************************************************************************)
(* Console variables: the cache of src/CvarSystem.cpp, the hook that keeps *)
(* it level with the engine (Cvar_DirectSetHook of src/RehldsApi.cpp), the *)
(* natives of CvarsNatives.cpp and the functions plugins hook on changes.  *)
(*                                                                         *)
(* setValue() runs plugin code before it stores the value, so `calls' is   *)
(* the stack of the changes under way.  A value is the text of a variable; *)
(* SetInt and SetFloat go through the text of their number.                *)
(***************************************************************************)
EXTENDS Naturals, Sequences, FiniteSets, SequencesExt

CONSTANTS
  Cvar,        \* names of variables
  Text,        \* values
  Function,    \* functions of plugins
  None,        \* no value: the variable does not exist, or is not cached
  Undefined,   \* what a view of a changed string shows
  MaxNesting   \* bound on the length of calls

ASSUME NestingIsBounded == MaxNesting \in Nat \ {0}
ASSUME NoValues == {None, Undefined} \cap Text = {} /\ None # Undefined
ASSUME FunctionsAreFinite == IsFiniteSet(Function)

VARIABLES
  engine,      \* the engine: the value of each variable
  cache,       \* m_cvars: m_value of each cached variable
  hooks,       \* gCvarPluginsCallbacks, with as many entries in m_callbacks
  found,       \* gCvarsHandlers: variables plugins have a handle of
  phase,       \* "away" between two maps, "loading", "playing"
  calls,       \* the changes whose callbacks are running
  missed       \* history: variables the engine set past the cache

vars == <<engine, cache, hooks, found, phase, calls, missed>>

Init ==
  /\ engine \in [Cvar -> Text \cup {None}]
  /\ cache = [c \in Cvar |-> None]
  /\ hooks = [c \in Cvar |-> {}] /\ found = {}
  /\ phase = "away" /\ calls = <<>> /\ missed = {}

----------------------------------------------------------------------------
(* Finding and registering: CvarFind and CvarRegister.                     *)

Top == calls[Len(calls)]

\* A plugin loads or hears of an event, or the function called last runs.
PluginRuns == phase # "away" /\ (calls # <<>> => Top.told # {})

Registered(c) == engine[c] # None

CachedByEngine(c) == IF cache[c] = None THEN engine[c] ELSE cache[c]

\* findCvar() and the handle, the same one for a variable that has one.
FindCvar(c) ==
  /\ PluginRuns /\ Registered(c)
  /\ cache' = [cache EXCEPT ![c] = CachedByEngine(c)]
  /\ found' = found \cup {c}
  /\ UNCHANGED <<engine, hooks, phase, calls, missed>>

\* registerCvar() of a variable nobody has.  The hook finds nothing cached yet.
RegisterCvar(c, v) ==
  /\ PluginRuns /\ engine[c] = None /\ cache[c] = None
  /\ engine' = [engine EXCEPT ![c] = v]
  /\ cache' = [cache EXCEPT ![c] = v]
  /\ found' = found \cup {c}
  /\ UNCHANGED <<hooks, phase, calls, missed>>

\* AddHookOnChange().  The callback it adds runs all functions of the variable,
\* whoever hooked them.  It moves the vector and the table that a change of the
\* same variable walks: plugins are assumed not to call it from there.
AddHookOnChange(c, f) ==
  /\ PluginRuns /\ c \in found /\ f \notin hooks[c]
  /\ \A k \in DOMAIN calls : calls[k].cvar # c
  /\ hooks' = [hooks EXCEPT ![c] = @ \cup {f}]
  /\ UNCHANGED <<engine, cache, found, phase, calls, missed>>

----------------------------------------------------------------------------
(* A change: Cvar::setValue().                                             *)

\* The views of the old value that outer changes of c pass on show a string
\* that has been assigned to.
ViewsLost(c, stack) ==
  [k \in DOMAIN stack |->
     IF stack[k].cvar = c THEN [stack[k] EXCEPT !.old = Undefined] ELSE stack[k]]

NotForwarded(c, v) ==                \* mutant: the engine is not told
  cache' = [cache EXCEPT ![c] = v] /\ missed' = missed \ {c} /\ engine' = engine

\* m_value is assigned, then pfnCvar_DirectSet() comes back to the hook, which
\* sees the value it is to set and goes on to the engine.
Stored(c, v) ==
  /\ cache' = [cache EXCEPT ![c] = v]
  /\ engine' = [engine EXCEPT ![c] = v]
  /\ missed' = missed \ {c}

StoredBeforeTelling(c, v) ==         \* mutant: the value is stored first
  /\ Stored(c, v)
  /\ Len(calls) < MaxNesting
  /\ calls' = IF hooks[c] = {} THEN calls
              ELSE Append(calls, [cvar |-> c, new |-> v, old |-> cache[c], round |-> 1, told |-> {}])

\* setValue() up to its first callback; without callbacks all of it.
SetValue(c, v) ==
  IF hooks[c] = {}
  THEN Stored(c, v) /\ calls' = ViewsLost(c, calls)
  ELSE /\ Len(calls) < MaxNesting
       /\ calls' = Append(calls, [cvar |-> c, new |-> v, old |-> cache[c], round |-> 1, told |-> {}])
       /\ UNCHANGED <<cache, engine, missed>>

\* SetString, SetInt, SetFloat.
PluginSets(c, v) ==
  /\ PluginRuns /\ c \in found
  /\ SetValue(c, v)
  /\ UNCHANGED <<hooks, found, phase>>

\* Cvar_DirectSetHook(): only a cached variable with another value is set.
DirectSetHook(c, v) ==
  IF cache[c] \in {None, v}
  THEN engine' = [engine EXCEPT ![c] = v] /\ missed' = missed \ {c} /\ UNCHANGED <<cache, calls>>
  ELSE SetValue(c, v)

\* The console, a configuration file or the game sets a variable.
EngineSets(c, v) ==
  /\ phase = "playing" /\ calls = <<>> /\ engine[c] # None
  /\ DirectSetHook(c, v)
  /\ UNCHANGED <<hooks, found, phase>>

\* The same while the hook is not installed.
EngineSetsUnseen(c, v) ==
  /\ phase = "away" /\ engine[c] # None
  /\ engine' = [engine EXCEPT ![c] = v]
  /\ missed' = IF cache[c] \in {None, v} THEN missed ELSE missed \cup {c}
  /\ UNCHANGED <<cache, hooks, found, phase, calls>>

----------------------------------------------------------------------------
(* The callbacks of the change on top.                                     *)

OnTop(frame) == [calls EXCEPT ![Len(calls)] = frame]

\* A function of the range is called; the one before it has returned.
TellNext(f) ==
  /\ calls # <<>> /\ f \in hooks[Top.cvar] \ Top.told
  /\ calls' = OnTop([Top EXCEPT !.told = @ \cup {f}])
  /\ UNCHANGED <<engine, cache, hooks, found, phase, missed>>

AllTold == Top.told = hooks[Top.cvar]

\* The next callback of the variable runs all functions again.
NextCallback ==
  /\ calls # <<>> /\ AllTold /\ Top.round < Cardinality(hooks[Top.cvar])
  /\ calls' = OnTop([Top EXCEPT !.round = @ + 1, !.told = {}])
  /\ UNCHANGED <<engine, cache, hooks, found, phase, missed>>

TellsOne == Top.told # {}            \* mutant: one function for each callback

TellsEnough == AllTold

\* The rest of setValue(), and of the hook that may have called it.
SetValueEnds ==
  /\ calls # <<>> /\ TellsEnough /\ Top.round = Cardinality(hooks[Top.cvar])
  /\ Stored(Top.cvar, Top.new)
  /\ calls' = ViewsLost(Top.cvar, Front(calls))
  /\ UNCHANGED <<hooks, found, phase>>

\* GetString, GetInt and GetFloat, which take a handle.
Read(c) == IF c \in found THEN cache[c] ELSE None

----------------------------------------------------------------------------
(* Maps: the plugins load, then installRehldsHooks(); ServerDeactivatePost *)
(* drops the callbacks and keeps the cache.                                *)

Load ==
  /\ phase = "away" /\ phase' = "loading"
  /\ UNCHANGED <<engine, cache, hooks, found, calls, missed>>

InstallHooks ==
  /\ phase = "loading" /\ calls = <<>> /\ phase' = "playing"
  /\ UNCHANGED <<engine, cache, hooks, found, calls, missed>>

Deactivate ==
  /\ phase = "playing" /\ calls = <<>> /\ phase' = "away"
  /\ hooks' = [c \in Cvar |-> {}] /\ found' = {}
  /\ UNCHANGED <<engine, cache, calls, missed>>

Next ==
  \/ \E c \in Cvar :
       \/ FindCvar(c)
       \/ \E f \in Function : AddHookOnChange(c, f)
       \/ \E v \in Text :
            RegisterCvar(c, v) \/ PluginSets(c, v) \/ EngineSets(c, v) \/ EngineSetsUnseen(c, v)
  \/ \E f \in Function : TellNext(f)
  \/ NextCallback \/ SetValueEnds
  \/ Load \/ InstallHooks \/ Deactivate

Spec == Init /\ [][Next]_vars

----------------------------------------------------------------------------
(* Properties.                                                             *)

\* A change under way: the views handed to the callbacks, the callback that
\* runs, and the functions it has called.
Change == [cvar: Cvar, new: Text, old: Text \cup {Undefined},
           round: 1..Cardinality(Function), told: SUBSET Function]

\* Types and bounds of the variables.
TypeOK ==
  /\ engine \in [Cvar -> Text \cup {None}] /\ cache \in [Cvar -> Text \cup {None}]
  /\ hooks \in [Cvar -> SUBSET Function] /\ found \subseteq Cvar /\ missed \subseteq Cvar
  /\ phase \in {"away", "loading", "playing"}
  /\ calls \in Seq(Change) /\ Len(calls) <= MaxNesting

\* Whatever functions set while a change is under way, plugins read the value
\* the engine has, except of a variable the engine set while the hook of
\* RehldsApi.cpp was not installed and nobody has set since.
CacheAgrees ==
  /\ TypeOK
  /\ \A c \in Cvar \ missed : cache[c] \in {None, engine[c]}
  /\ \A c \in found \ missed : Read(c) = engine[c]

\* A change takes effect after the functions hooked on the variable have heard
\* of it, all of them, whether a plugin or the engine makes it
\* (Cvar::setValue, Cvar_DirectSetHook).
NobodyMissesAChange ==
  [][\A c \in Cvar :
       cache[c] # None /\ cache'[c] # cache[c] =>
         hooks[c] = {} \/ (calls # <<>> /\ Top.cvar = c /\ Top.told = hooks[c])]_vars

\* The old value a function is told is what the engine still has, also under
\* nested changes, until a nested change of the same variable.
OldIsOld ==
  \A k \in DOMAIN calls :
    calls[k].cvar \notin missed /\ calls[k].old # Undefined => calls[k].old = engine[calls[k].cvar]

\* What the proofs rest on: a variable with a handle or a change under way is
\* cached, and no change is under way between two maps.
Cached(c) == cache[c] # None

FoundAreCached == \A c \in found : Cached(c)

ChangesAreCached == \A k \in DOMAIN calls : Cached(calls[k].cvar)

QuietWhenAway == phase = "away" => calls = <<>>

IInv == CacheAgrees /\ OldIsOld /\ FoundAreCached /\ ChangesAreCached /\ QuietWhenAway
=============================================================================
