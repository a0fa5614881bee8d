--------------------------- MODULE VTableHookMngr ---------------------------
(***************************************************************************)
(* Hooks on virtual functions of game classes                              *)
(* (src/VTableHookManager.cpp), the natives of VTableNatives.cpp and the   *)
(* callback of ExtMain.cpp that runs the functions of plugins.             *)
(*                                                                         *)
(* A call of a patched entry runs the functions hooked before, the         *)
(* original and the functions hooked after it.  All of them may make the   *)
(* game call the same function again, so `calls' is the stack of the calls *)
(* under way, while each hook keeps the parameters and returns of its own  *)
(* calls in `stacks'.                                                      *)
(***************************************************************************)
EXTENDS Naturals, Sequences, FiniteSets, SequencesExt

CONSTANTS
  Vfunc,         \* the functions in offsets.yml
  Class,         \* classes of entities
  Damage,        \* values of the float parameter
  None,          \* no class, no value
  MaxFunctions,  \* bound on the functions of plugins for a hook
  MaxNesting,    \* bound on the length of calls
  MaxStack       \* bound on what a hook keeps in its stacks

ASSUME KnownFunctions == Vfunc \subseteq {"Spawn", "TakeDamage", "TraceAttack"}
ASSUME VTableBounds == MaxFunctions \in Nat /\ MaxNesting \in Nat \ {0} /\ MaxStack \in Nat
ASSUME NoDamage == None \notin Damage \cup Class

VARIABLES
  hooked,   \* m_hooks: the class whose table each hook has patched
  entries,  \* the game: entries of virtual tables that lead to a handler
  before,   \* gVTableHook: how many functions each hook runs first
  after,    \* gVTableHookPost
  stacks,   \* m_params, m_return and m_originalReturn of each hook
  calls,    \* handlers under way
  lost      \* history: superceded calls that kept their stacks

vars == <<hooked, entries, before, after, stacks, calls, lost>>
hookVars == <<hooked, entries, before, after>>

\* Return, in the order the code compares answers by.
Ignored == 0
Handled == 1
Override == 2
Supercede == 3
Return == Ignored..Supercede

Larger(r, s) == IF r > s THEN r ELSE s

Init ==
  /\ hooked = [v \in Vfunc |-> None] /\ entries = {}
  /\ before = [v \in Vfunc |-> 0] /\ after = [v \in Vfunc |-> 0]
  /\ stacks = [v \in Vfunc |-> <<>>] /\ calls = <<>>
  /\ lost = [v \in Vfunc |-> 0]

----------------------------------------------------------------------------
(* Registration.                                                           *)

PatchedByBoth(v, c) ==                 \* mutant: the destructor restores nothing
  entries \cup {<<v, c>>}

\* A hook for a second class patches its table; m_hooks has one for the
\* function already, emplace() fails and the destructor restores the entry.
Patched(v, c) == IF hooked[v] = None THEN entries \cup {<<v, c>>} ELSE entries

\* registerHook() answers the hook of the function, whatever its class, and the
\* native adds its function there.  Plugins are assumed not to register while a
\* handler walks the table of functions.
RegisterHook(v, c) ==
  /\ calls = <<>>
  /\ hooked' = [hooked EXCEPT ![v] = IF @ = None THEN c ELSE @]
  /\ entries' = Patched(v, c)
  /\ \/ before[v] < MaxFunctions /\ before' = [before EXCEPT ![v] = @ + 1] /\ UNCHANGED after
     \/ after[v] < MaxFunctions /\ after' = [after EXCEPT ![v] = @ + 1] /\ UNCHANGED before
  /\ UNCHANGED <<stacks, calls, lost>>

\* clearHooks() destroys the hooks; the tables of functions go with the library.
ServerDeactivatePost ==
  /\ calls = <<>>
  /\ hooked' = [v \in Vfunc |-> None]
  /\ entries' = entries \ {<<v, hooked[v]>> : v \in Vfunc}
  /\ before' = [v \in Vfunc |-> 0] /\ after' = [v \in Vfunc |-> 0]
  /\ stacks' = [v \in Vfunc |-> <<>>] /\ lost' = [v \in Vfunc |-> 0]
  /\ UNCHANGED calls

----------------------------------------------------------------------------
(* A call: vSpawnHook(), vTakeDamageHook(), vTraceAttack().                *)

Top == calls[Len(calls)]

OnTop(frame) == [calls EXCEPT ![Len(calls)] = frame]

TopOf(v) == stacks[v][Len(stacks[v])]

\* getParams(), getReturn() and setReturn() of an empty stack have no effect.
SetTop(v, entry) == IF stacks[v] = <<>> THEN stacks ELSE [stacks EXCEPT ![v] = Front(@) \o <<entry>>]

\* The float parameter of a function; a Spawn has none.
Float(v) == IF v = "Spawn" THEN {None} ELSE Damage

\* prepareForCall() and packParams(); `mine' is what the functions of this call
\* have made of its parameter and `ran' what the original was called with.
GameCalls(v, c, d) ==
  /\ <<v, c>> \in entries /\ Len(calls) < MaxNesting /\ Len(stacks[v]) < MaxStack
  /\ stacks' = [stacks EXCEPT ![v] = Append(@, [param |-> d, ret |-> FALSE, original |-> FALSE])]
  /\ calls' = Append(calls, [vfunc |-> v, given |-> d, step |-> "pre", told |-> 0, result |-> Ignored,
                             mine |-> d, ran |-> None, spoiled |-> FALSE])
  /\ UNCHANGED <<hookVars, lost>>

ToTell == IF Top.step = "pre" THEN before[Top.vfunc] ELSE after[Top.vfunc]

Telling == calls # <<>> /\ Top.step \in {"pre", "post"}

\* A function of a plugin answers; Supercede keeps the rest from being told.
FunctionAnswers(r) ==
  /\ Telling /\ Top.told < ToTell
  /\ calls' = OnTop([Top EXCEPT !.told = IF r = Supercede THEN ToTell ELSE @ + 1,
                                !.result = Larger(@, r)])
  /\ UNCHANGED <<hookVars, stacks, lost>>

Innermost(v) == CHOOSE k \in DOMAIN calls :
  calls[k].vfunc = v /\ \A n \in DOMAIN calls : calls[n].vfunc = v => n <= k

\* Some call is under way, and its parameter is a float.
Settable(v) == stacks[v] # <<>> /\ TopOf(v).param # None

\* VTHook.SetFloat() of any hook, from a function that is being told.
SetFloat(v, d) ==
  /\ Telling /\ Top.told < ToTell
  /\ Settable(v)
  /\ stacks' = SetTop(v, [TopOf(v) EXCEPT !.param = d])
  /\ calls' = IF \E k \in DOMAIN calls : calls[k].vfunc = v
              THEN [calls EXCEPT ![Innermost(v)].mine = d] ELSE calls
  /\ UNCHANGED <<hookVars, lost>>

OriginalTakesGiven(r) == Top.given     \* mutant: changes of plugins are dropped

\* The parameter of the original: as the game gave it, or as functions left it.
OriginalTakes(r) ==
  IF r = Ignored THEN Top.given ELSE TopOf(Top.vfunc).param

\* The callback of another extension may come last and call setReturn(); it is
\* taken to answer Ignored.
PreEnds(sets) ==
  /\ Telling /\ Top.step = "pre" /\ Top.told = ToTell
  /\ calls' = OnTop(IF Top.result = Supercede
                    THEN [Top EXCEPT !.step = "post", !.told = 0, !.result = Ignored]
                    ELSE [Top EXCEPT !.step = "original", !.ran = OriginalTakes(Top.result)])
  /\ stacks' = IF sets /\ stacks[Top.vfunc] # <<>>
               THEN SetTop(Top.vfunc, [TopOf(Top.vfunc) EXCEPT !.ret = TRUE]) ELSE stacks
  /\ UNCHANGED <<hookVars, lost>>

\* execOriginalFunc() stores what the original returned, if it returns anything.
OriginalReturns ==
  /\ calls # <<>> /\ Top.step = "original"
  /\ stacks' = IF Top.vfunc = "TakeDamage" /\ stacks[Top.vfunc] # <<>>
               THEN SetTop(Top.vfunc, [TopOf(Top.vfunc) EXCEPT !.original = TRUE]) ELSE stacks
  /\ calls' = OnTop([Top EXCEPT !.step = "post", !.told = 0, !.result = Ignored, !.ran = None])
  /\ UNCHANGED <<hookVars, lost>>

\* Only the answers after the original decide whether setReturn() counts.
HasReturn(status) ==
  \/ Top.vfunc # "TakeDamage"
  \/ status >= Override /\ TopOf(Top.vfunc).ret
  \/ TopOf(Top.vfunc).original

KeptByOverride(status) ==              \* mutant: an overridden return skips cleanup()
  HasReturn(status) /\ (Top.vfunc = "TakeDamage" => ~(status >= Override /\ TopOf(Top.vfunc).ret))

CleansUp(status) == HasReturn(status)

Spoil(v, outer) ==
  [k \in DOMAIN outer |-> IF outer[k].vfunc = v THEN [outer[k] EXCEPT !.spoiled = TRUE] ELSE outer[k]]

\* The rest of the handler.  A superceded TakeDamage without a return answers 0
\* and leaves its stacks behind, where calls around it take them for theirs.
PostEnds ==
  /\ Telling /\ Top.step = "post" /\ Top.told = ToTell
  /\ stacks[Top.vfunc] # <<>>
  /\ LET v == Top.vfunc IN
     /\ stacks' = IF CleansUp(Top.result) THEN [stacks EXCEPT ![v] = Front(@)] ELSE stacks
     /\ calls' = IF HasReturn(Top.result) THEN Front(calls) ELSE Spoil(v, Front(calls))
     /\ lost' = IF HasReturn(Top.result) THEN lost ELSE [lost EXCEPT ![v] = @ + 1]
  /\ UNCHANGED hookVars

Next ==
  \/ \E v \in Vfunc :
       \/ \E c \in Class : RegisterHook(v, c) \/ \E d \in Float(v) : GameCalls(v, c, d)
       \/ \E d \in Damage : SetFloat(v, d)
  \/ \E r \in Return : FunctionAnswers(r)
  \/ \E sets \in BOOLEAN : PreEnds(sets)
  \/ OriginalReturns \/ PostEnds \/ ServerDeactivatePost

Spec == Init /\ [][Next]_vars

----------------------------------------------------------------------------
(* Properties.                                                             *)

\* A handler under way: its step, how many functions it has told and the
\* largest answer, and whether a superceded call inside it left its stacks.
Call == [vfunc: Vfunc, given: Damage \cup {None}, step: {"pre", "original", "post"},
         told: 0..MaxFunctions, result: Return, mine: Damage \cup {None},
         ran: Damage \cup {None}, spoiled: BOOLEAN]

\* What a hook keeps of a call: its parameter, and whether setReturn() and the
\* original have left a return value.
Entry == [param: Damage \cup {None}, ret: BOOLEAN, original: BOOLEAN]

\* Types and bounds of the variables.
TypeOK ==
  /\ hooked \in [Vfunc -> Class \cup {None}] /\ entries \subseteq Vfunc \X Class
  /\ before \in [Vfunc -> 0..MaxFunctions] /\ after \in [Vfunc -> 0..MaxFunctions]
  /\ stacks \in [Vfunc -> Seq(Entry)]
  /\ \A v \in Vfunc : Len(stacks[v]) <= MaxStack
  /\ \A v \in Vfunc : \A i \in DOMAIN stacks[v] : stacks[v][i].param \in Float(v)
  /\ calls \in Seq(Call) /\ Len(calls) <= MaxNesting
  /\ lost \in [Vfunc -> 0..MaxStack]

\* The game's tables lead to a handler exactly where a hook of m_hooks can be
\* found by it (getHook throws otherwise), and are as the game made them once
\* the hooks are cleared.
EntriesLeadToHooks ==
  /\ TypeOK
  /\ entries = {<<v, hooked[v]>> : v \in {u \in Vfunc : hooked[u] # None}}

\* With calls nested in callbacks and originals, the parameters a hook shows
\* and changes are those of the innermost call, unless a superceded TakeDamage
\* inside it has left its own, and calls that are over leave nothing else.
ParamsAreMine ==
  \A v \in Vfunc :
    LET open == {k \in DOMAIN calls : calls[k].vfunc = v} IN
    /\ Len(stacks[v]) = Cardinality(open) + lost[v]
    /\ open # {} /\ ~calls[Innermost(v)].spoiled => TopOf(v).param = calls[Innermost(v)].mine

\* The original runs with what the functions of its own call made of the
\* parameter if one of them answered Handled or more, with what the game gave
\* otherwise, and not at all if one answered Supercede.
OriginalRunsAsAsked ==
  [][calls # <<>> /\ Top.step = "pre" /\ Top'.step = "original" /\ ~Top.spoiled =>
       /\ Top'.ran = IF Top'.result = Ignored THEN Top.given ELSE Top.mine
       /\ Top.result # Supercede]_vars

----------------------------------------------------------------------------
(* What the proofs rest on.                                                *)

\* How many of the k oldest calls of a stack are of function v.
CountIn(stack, v, k) == Cardinality({i \in 1..k : stack[i].vfunc = v})

\* Where the hook of call k keeps what is k's own: above what superceded calls
\* have left and what the calls around k have put there.
OwnPlace(k) == CountIn(calls, calls[k].vfunc, k) + lost[calls[k].vfunc]

StacksAreCounted ==
  \A v \in Vfunc : Len(stacks[v]) = CountIn(calls, v, Len(calls)) + lost[v]

OwnParams ==
  \A k \in DOMAIN calls :
    ~calls[k].spoiled => stacks[calls[k].vfunc][OwnPlace(k)].param = calls[k].mine

\* What is left behind is above everything that calls around it own.
SpoiledBelow ==
  \A i, k \in DOMAIN calls :
    i < k /\ calls[i].vfunc = calls[k].vfunc /\ calls[k].spoiled => calls[i].spoiled

IInv == EntriesLeadToHooks /\ StacksAreCounted /\ OwnParams /\ SpoiledBelow
=============================================================================
