---------------------------- MODULE ForwardMngr ----------------------------
(***************************************************************************)
(* The forward system (src/ForwardSystem.cpp): named events that engine    *)
(* handlers, extensions and plugins execute in the loaded plugins.         *)
(* Everything runs on one thread, so the only concurrency is re-entrancy:  *)
(* execFunc() calls the adapters' listeners, these call plugin functions,  *)
(* and a plugin function may create, delete, push to or execute forwards   *)
(* before it returns.  `calls' is the stack of execFunc() activations.     *)
(*                                                                         *)
(* m_forwards is an unordered_multimap: forwards of equal names are        *)
(* adjacent, everything else about its order is unspecified.  A walk from  *)
(* find(name) to end() visits the forwards of that name, in some order,    *)
(* and then an arbitrary part of the others.                               *)
(***************************************************************************)
EXTENDS Integers, Sequences, Functions

CONSTANTS
  Fwd,           \* addresses of Forward objects
  Name,          \* forward names
  Default,       \* the names addDefaultsForwards() registers
  Plugin,        \* plugins of all adapters
  NoPlugin,      \* nullptr: the forward runs in every plugin
  Listeners,     \* m_callbacks: for each adapter the sequence of its plugins
  Value,         \* values of parameters
  NoValue,       \* the content of a parameter that was never pushed
  Types,         \* exec types in use
  Answers,       \* answers plugins give
  MaxDepth,      \* bound on nested execFunc() calls
  Reentrant      \* may a forward being executed be executed or reset again?

ASSUME DefaultIsName   == Default \subseteq Name
ASSUME NoPluginIsNone  == NoPlugin \notin Plugin
ASSUME ListenersType   == Listeners \in Seq(Seq(Plugin))
ASSUME TypesAreTypes   == Types \subseteq SUBSET {"Stop", "Highest"} /\ Types # {}
ASSUME AnswersAre      == Answers \subseteq -1..2
ASSUME MaxDepthIsNat   == MaxDepth \in Nat
ASSUME ReentrantIsBool == Reentrant \in BOOLEAN

VARIABLES
  forwards,      \* m_forwards: a function from the addresses of the objects
                 \* it owns to their fields
  calls          \* stack of execFunc() activations, innermost last

vars == <<forwards, calls>>

\* IForward::ReturnValue; a plugin may also lack the function or fail in it.
Ignored == 0
Stop    == 1
Handled == 2
ReturnValue == {Ignored, Stop, Handled}
NoAnswer == -1
Answer == ReturnValue \cup {NoAnswer}

\* IForward::ExecType is a bit set; Ignore is the empty one.
ExecType == SUBSET {"Stop", "Highest"}

Object ==
  [name:   Name,                       \* m_name
   plugin: Plugin \cup {NoPlugin},     \* m_plugin of a SingleForward
   type:   ExecType,                   \* m_execType of a MultiForward
   params: 0..1,                       \* m_paramsNum, a list counted as one
   pos:    0..1,                       \* m_currentPos
   arg:    Value \cup {NoValue},        \* what m_params hold
   exec:   BOOLEAN,                    \* m_exec
   own:    BOOLEAN]                    \* does a plugin have a handle to it?

Frame ==
  [fwd:      Fwd,                          \* the forward being executed
   listener: 0..Len(Listeners),            \* the callback the loop is at
   rest:     Seq(Plugin),                  \* the plugins it has still to call
   done:     Seq(Plugin),                  \* the plugins called so far
   answer:   Seq(Answer),                  \* and their answers
   result:   ReturnValue,                  \* returnValue
   want:     Value \cup {NoValue},          \* the argument the caller means
   had:      Value \cup {NoValue}]          \* the argument in place at the start

live == DOMAIN forwards

SameName(n) == {f \in live : forwards[f].name = n}

IsGlobal(f) == forwards[f].plugin = NoPlugin

Running(f) == \E i \in DOMAIN calls : calls[i].fwd = f

\* Forwards a plugin has a handle to: those the Forward native created.
Owned == {f \in live : forwards[f].own}

Init ==
  /\ forwards = [f \in {} |-> {}]
  /\ calls = <<>>

----------------------------------------------------------------------------
(* Registration.                                                           *)

\* Who registers a forward: a plugin, which gets a handle to it, or the server.
ByPlugin == TRUE
ByServer == FALSE

\* A constructed Forward.  m_exec has no initialiser and starts with any
\* value; m_params hold no data yet.
New(n, p, t, k, o) ==
  [name: {n}, plugin: {p}, type: {t}, params: {k}, pos: {0},
   arg: {NoValue}, exec: BOOLEAN, own: {o}]

Emplace(f, object) ==
  /\ forwards' = [g \in live \cup {f} |-> IF g = f THEN object ELSE forwards[g]]
  /\ UNCHANGED calls

\* An address is free when no object and no activation uses it.
Unused == {f \in Fwd : f \notin live /\ ~Running(f)}

\* createForward() without a plugin refuses any name already in use.
NameTaken(n) == SameName(n) # {}

CreateGlobal(f, n) ==
  /\ ~NameTaken(n)
  /\ \E t \in Types, k \in 0..1 :
       \E object \in New(n, NoPlugin, t, k, ByPlugin) : Emplace(f, object)

PluginTakenNever(n, p) == FALSE    \* mutant: the walk is left out

\* createForward() for plugin p: the walk over m_forwards meets the forwards
\* named n first ...
PluginTaken(n, p) == \E g \in SameName(n) : forwards[g].plugin = p

\* ... and, as nothing stops it at the last of them, perhaps other ones: it
\* may refuse though n is new to p.
MayRefuse(n, p) ==
  SameName(n) # {} /\ \E g \in live : forwards[g].plugin = p

CreateSingle(f, n, p) ==
  /\ ~PluginTaken(n, p)
  /\ \E k \in 0..1 : \E object \in New(n, p, {}, k, ByPlugin) : Emplace(f, object)

\* addDefaultsForwards(), from ServerActivatePost on an empty registry.
AddDefaultsForwards ==
  /\ live = {} /\ calls = <<>>
  /\ \E at \in Injection(Default, Fwd), t \in Types, k \in 0..1 :
       forwards' \in {g \in [Range(at) -> UNION {New(n, NoPlugin, t, k, ByServer) : n \in Default}] :
                        \A n \in Default : g[at[n]].name = n}
  /\ UNCHANGED calls

ErasableEvenIfExecuted(f) ==       \* mutant: isExecuted() is not asked
  {g \in live : IsGlobal(f) \/ forwards[g].plugin = forwards[f].plugin}

\* The forwards deleteForward(f) may erase: those not being executed and, when
\* f belongs to a plugin, of that plugin.
Erasable(f) ==
  {g \in live : /\ ~forwards[g].exec
                /\ IsGlobal(f) \/ forwards[g].plugin = forwards[f].plugin}

\* deleteForward(): the first erasable forward from find(f's name) on is
\* erased, whether or not it is f; other names are reached only when no
\* forward of this name is erasable.  ForwardRemove() then frees the handle of
\* f; here plugins keep it while f lives.
DeleteForward(f) ==
  LET sameName == Erasable(f) \cap SameName(forwards[f].name)
  IN  /\ \E g \in (IF sameName # {} THEN sameName ELSE Erasable(f)) :
           forwards' = [h \in live \ {g} |-> forwards[h]]
      /\ UNCHANGED calls

\* clearForwards(), from ServerDeactivatePost.
ClearForwards ==
  /\ calls = <<>>
  /\ live # {}
  /\ forwards' = [f \in {} |-> {}]
  /\ UNCHANGED calls

----------------------------------------------------------------------------
(* Pushing and executing.                                                  *)

\* The early return of every push function.
CanPush(f) == forwards[f].pos < forwards[f].params

Pushed(f, v) == [forwards[f] EXCEPT !.arg = v, !.pos = 1]

Push(f, v) ==
  /\ CanPush(f)
  /\ forwards' = [forwards EXCEPT ![f] = Pushed(f, v)]
  /\ UNCHANGED calls

\* resetParams(), called by the PushCancel native.
ResetParams(f) ==
  /\ Reentrant \/ ~Running(f)
  /\ forwards[f].pos # 0
  /\ forwards' = [forwards EXCEPT ![f].pos = 0]
  /\ UNCHANGED calls

\* The plugins the listener of adapter L calls: the forward's own if it is one
\* of that adapter's, every plugin of the adapter otherwise.
ListenerCalls(L, f) ==
  IF forwards[f].plugin \in Range(Listeners[L])
  THEN <<forwards[f].plugin>>
  ELSE Listeners[L]

Activation(f, v, had) ==
  [fwd |-> f, listener |-> 0, rest |-> <<>>, done |-> <<>>, answer |-> <<>>,
   result |-> Ignored, want |-> v, had |-> had]

CanExec(f) ==
  /\ Len(calls) < MaxDepth
  /\ Reentrant \/ ~Running(f)

\* m_exec = true, after the arguments are in place.
Marked(object) == [object EXCEPT !.exec = TRUE]

\* execFunc() up to its loop, called by the PushExec native: it fails when
\* parameters are missing.
ExecFunc(f) ==
  /\ CanExec(f)
  /\ ~CanPush(f)
  /\ forwards' = [forwards EXCEPT ![f] = Marked(@)]
  /\ calls' = Append(calls, Activation(f, forwards[f].arg, forwards[f].arg))

\* The pushes of an engine handler, which does not test whether they succeed.
EngineFilled(f, v) == IF CanPush(f) THEN Pushed(f, v) ELSE forwards[f]

\* An engine handler looks the event up by name, pushes its arguments and
\* executes.  getForward() finds any forward of the name: also one that a plugin
\* has registered for one plugin, and may have filled.
EngineExec(f, v) ==
  /\ CanExec(f)
  /\ forwards' = [forwards EXCEPT ![f] = Marked(EngineFilled(f, v))]
  /\ calls' = Append(calls, Activation(f, v, EngineFilled(f, v).arg))

Top == calls[Len(calls)]

Larger(a, b) == IF a < b THEN b ELSE a

NewResultLast(frame, answer) ==    \* mutant: the last answer wins
  IF answer = NoAnswer THEN frame.result ELSE answer

\* returnValue after an answer, in the two branches of the listener.  Of the
\* exec type only the bits Stop and Highest are ever tested.
NewResult(frame, answer) ==
  LET own  == Head(frame.rest) = forwards[frame.fwd].plugin
      type == forwards[frame.fwd].type
  IN  IF answer = NoAnswer THEN frame.result
      ELSE IF own \/ (answer = Stop /\ type = {"Stop"}) THEN answer
      ELSE Larger(frame.result, answer)

\* The listener of a forward that runs everywhere sets stop and leaves its
\* loop, and so does MultiForward::execFunc().
Stops(frame, answer) ==
  answer = Stop /\ "Stop" \in forwards[frame.fwd].type

\* The innermost activation, still inside its loop.  A freed forward is used
\* after its end then; no behaviour is continued past that point.
InLoop == calls # <<>> /\ Top.fwd \in live

\* The loop over m_callbacks takes the next one.
NextListener ==
  /\ InLoop /\ Top.rest = <<>>
  /\ Top.listener < Len(Listeners)
  /\ calls' = [calls EXCEPT ![Len(calls)] =
       [Top EXCEPT !.listener = @ + 1, !.rest = ListenerCalls(Top.listener + 1, Top.fwd)]]
  /\ UNCHANGED forwards

\* The plugin function called by the innermost activation returns, fails or
\* does not exist, and the listener goes on with the next plugin.
PluginReturns(answer) ==
  /\ InLoop /\ Top.rest # <<>>
  /\ LET stop == Stops(Top, answer)
     IN  calls' = [calls EXCEPT ![Len(calls)] =
           [Top EXCEPT !.listener = IF stop THEN Len(Listeners) ELSE @,
                       !.rest = IF stop THEN <<>> ELSE Tail(@),
                       !.done = Append(@, Head(Top.rest)),
                       !.answer = Append(@, answer),
                       !.result = NewResult(Top, answer)]]
  /\ UNCHANGED forwards

ResetNothing(object) == [object EXCEPT !.exec = FALSE]  \* mutant: params stay

\* m_exec = false and m_currentPos = 0, after the loop.
Reset(object) == [object EXCEPT !.exec = FALSE, !.pos = 0]

\* The end of execFunc().
ExecReturns ==
  /\ InLoop /\ Top.rest = <<>>
  /\ Top.listener = Len(Listeners)
  /\ forwards' = [forwards EXCEPT ![Top.fwd] = Reset(@)]
  /\ calls' = SubSeq(calls, 1, Len(calls) - 1)

----------------------------------------------------------------------------
\* The natives of gForwardsNatives, called by any plugin function that runs.
ForwardCtor(f) ==
  \E n \in Name :
    CreateGlobal(f, n) \/ \E p \in Plugin : CreateSingle(f, n, p)

PushParam(f) == \E v \in Value : Push(f, v)

PushExec(f) == ExecFunc(f)

PushCancel(f) == ResetParams(f)

ForwardRemove(f) == DeleteForward(f)

NativeStep ==
  \/ \E f \in Unused : ForwardCtor(f)
  \/ \E f \in Owned : PushParam(f) \/ PushExec(f) \/ PushCancel(f) \/ ForwardRemove(f)

EngineStep ==
  \/ AddDefaultsForwards
  \/ ClearForwards
  \/ \E n \in Default, v \in Value : \E f \in SameName(n) : EngineExec(f, v)

CallStep == NextListener \/ ExecReturns \/ \E answer \in Answers : PluginReturns(answer)

Next == NativeStep \/ EngineStep \/ CallStep

Spec == Init /\ [][Next]_vars
----------------------------------------------------------------------------
(* Properties.                                                             *)

TypeOK ==
  /\ live \subseteq Fwd
  /\ forwards \in [live -> Object]
  /\ calls \in Seq(Frame)
  /\ Len(calls) <= MaxDepth

\* A forward is registered at most once per name and plugin, so that an event
\* cannot run twice in a plugin (the refusals of createForward()).
UniqueForwards ==
  \A f, g \in live :
    forwards[f].name = forwards[g].name /\ forwards[f].plugin = forwards[g].plugin => f = g

\* No activation of execFunc() works on a freed Forward, whatever plugins
\* remove while it runs.
ExecutedForwardLives == \A i \in DOMAIN calls : calls[i].fwd \in live

\* All plugins an activation calls see the same arguments, those in place when
\* it began, whatever is pushed or executed from inside these plugins.  They are
\* what the caller pushed, but for an event of the engine that finds under its
\* name a forward a plugin has filled (m_params; the engine handlers do not test
\* their pushes).
ArgumentsHold ==
  \A i \in DOMAIN calls :
    LET f == calls[i].fwd
    IN  f \in live /\ forwards[f].params > 0 =>
          /\ forwards[f].arg = calls[i].had
          /\ calls[i].had = calls[i].want \/ f \in Owned

\* Why the two above hold when ~Reentrant.  A forward on the call stack is
\* registered, marked as executed and full, so that neither deleteForward() nor
\* a push touches it, and it is there once, so that the end of one activation
\* does not undo this for another.
RunningIsMarked ==
  \A i \in DOMAIN calls :
    LET f == calls[i].fwd
    IN  /\ f \in live /\ forwards[f].exec /\ ~CanPush(f)
        /\ forwards[f].params > 0 =>
             /\ forwards[f].arg = calls[i].had
             /\ calls[i].had = calls[i].want \/ f \in Owned

RunsOnce == \A i, j \in DOMAIN calls : calls[i].fwd = calls[j].fwd => i = j

\* The engine handlers find the default forwards empty: their pushes are not
\* tested.
EngineForwardsAreEmpty ==
  \A f \in live \ Owned : ~Running(f) => forwards[f].pos = 0

IInv == TypeOK /\ RunningIsMarked /\ RunsOnce /\ EngineForwardsAreEmpty

\* Exec type Stop: no plugin is called after one that answered Stop.  Exec type
\* Highest: the result is the highest answer given so far.  A single forward
\* returns what its plugin answered.
ResultMeetsType ==
  \A i \in DOMAIN calls :
    LET frame   == calls[i]
        type    == forwards[frame.fwd].type
        given   == Range(frame.answer) \ {NoAnswer}
        before  == SubSeq(frame.answer, 1, Len(frame.answer) - 1)
    IN  frame.fwd \in live =>
          /\ "Stop" \in type => Stop \notin Range(before)
          /\ type = {"Stop"} /\ Stop \in given => frame.result = Stop
          /\ "Highest" \in type => frame.result \in given \cup {Ignored} /\ \A a \in given : a <= frame.result

\* A forward of one plugin is executed in that plugin and in no other.
SingleRunsInItsPlugin ==
  \A i \in DOMAIN calls :
    LET f == calls[i].fwd
    IN  f \in live /\ ~IsGlobal(f) =>
          \A p \in Range(calls[i].done) : p = forwards[f].plugin

\* An execution calls the plugins it is meant for and gives what its exec type
\* promises, in whatever order they answer and whichever of them fail.
AnswersMeetType == TypeOK /\ ResultMeetsType /\ SingleRunsInItsPlugin

\* Why it holds: only forwards that run everywhere have an exec type, a loop
\* that was stopped calls nobody any more, and a listener never has plugins to
\* call that a forward of one plugin is not for.
SinglesHaveNoType == \A f \in live : ~IsGlobal(f) => forwards[f].type = {}

LoopsAreBounded ==
  \A i \in DOMAIN calls :
    LET frame == calls[i]
    IN  frame.fwd \in live =>
          /\ "Stop" \in forwards[frame.fwd].type /\ Stop \in Range(frame.answer) =>
               frame.rest = <<>> /\ frame.listener = Len(Listeners)
          /\ ~IsGlobal(frame.fwd) => \A p \in Range(frame.rest) : p = forwards[frame.fwd].plugin

AnswersIInv == AnswersMeetType /\ SinglesHaveNoType /\ LoopsAreBounded

\* Exec type Ignore: the answers of the plugins are ignored.
IgnoreIgnoresAnswers ==
  \A i \in DOMAIN calls :
    LET f == calls[i].fwd
    IN  f \in live /\ IsGlobal(f) /\ forwards[f].type = {} => calls[i].result = Ignored

\* While a map runs, the forwards the engine handlers look up are registered:
\* the handlers do not test what getForward() returns.
DefaultForwardsStay ==
  \A m, n \in Default : SameName(m) # {} => SameName(n) # {}

\* createForward() refuses a plugin a name only if it has a forward of it.
RefusesDuplicatesOnly ==
  \A n \in Name, p \in Plugin : MayRefuse(n, p) => PluginTaken(n, p)
============================================================================
