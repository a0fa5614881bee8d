------------------------- MODULE ForwardMngr_proofs -------------------------
(***************************************************************************)
(* Proofs about the forward system, for any number of forwards, plugins    *)
(* and adapters and any depth of nesting.  Type correctness and the        *)
(* uniqueness of registrations need no assumption; that executed forwards  *)
(* live and keep their arguments is proved under ~Reentrant, from the      *)
(* inductive invariant IInv (TLC shows both fail without it).              *)
(***************************************************************************)
EXTENDS ForwardMngr, SequenceTheorems, TLAPS

----------------------------------------------------------------------------
(* Facts about single operators.                                           *)

\* Popping the innermost activation.
LEMMA PopProperties ==
  ASSUME NEW S, NEW s \in Seq(S), s # <<>>
  PROVE  /\ SubSeq(s, 1, Len(s) - 1) \in Seq(S)
         /\ Len(SubSeq(s, 1, Len(s) - 1)) = Len(s) - 1
         /\ \A i \in 1..Len(s) - 1 : SubSeq(s, 1, Len(s) - 1)[i] = s[i]
<1>1. Len(s) \in Nat \ {0} /\ Len(s) - 1 \in Nat
  OBVIOUS
<1>2. ASSUME NEW n \in Nat, n = Len(s) - 1
      PROVE  Len(SubSeq(s, 1, n)) = n
  BY <1>2
<1>3. Len(SubSeq(s, 1, Len(s) - 1)) = Len(s) - 1
  BY <1>1, <1>2
<1>4. SubSeq(s, 1, Len(s) - 1) \in Seq(S)
  OBVIOUS
<1>5. \A i \in 1..Len(s) - 1 : SubSeq(s, 1, Len(s) - 1)[i] = s[i]
  OBVIOUS
<1>6. QED
  BY <1>3, <1>4, <1>5

\* A forward either has a plugin that registered it or none.
LEMMA Registrars == ByPlugin \in BOOLEAN /\ ByServer \in BOOLEAN
BY DEF ByPlugin, ByServer

\* A constructed Forward is a well-formed object with an empty parameter list.
LEMMA NewType ==
  ASSUME NEW n \in Name, NEW p \in Plugin \cup {NoPlugin}, NEW t \in ExecType,
         NEW k \in 0..1, NEW o \in BOOLEAN, NEW object \in New(n, p, t, k, o)
  PROVE  object \in Object /\ object.name = n /\ object.plugin = p /\ object.pos = 0
<1>1. t \in ExecType
  OBVIOUS
<1>2. object \in [name: {n}, plugin: {p}, type: {t}, params: {k}, pos: {0},
                  arg: {NoValue}, exec: BOOLEAN, own: {o}]
  BY DEF New
<1>3. /\ object.name = n /\ object.plugin = p /\ object.type = t
      /\ object.params = k /\ object.pos = 0 /\ object.arg = NoValue
      /\ object.exec \in BOOLEAN /\ object.own = o
  BY <1>2
<1>4. object = [name |-> object.name, plugin |-> object.plugin, type |-> object.type,
                params |-> object.params, pos |-> object.pos, arg |-> object.arg,
                exec |-> object.exec, own |-> object.own]
  BY <1>2
<1>5. object \in Object
  BY <1>1, <1>3, <1>4 DEF Object
<1>6. QED
  BY <1>3, <1>5

\* Emplacing at an unused address adds that object and changes no other.
LEMMA EmplaceEffect ==
  ASSUME TypeOK, NEW f \in Unused, NEW object \in Object, Emplace(f, object)
  PROVE  /\ live' = live \cup {f} /\ forwards'[f] = object
         /\ \A g \in live : g # f /\ forwards'[g] = forwards[g]
         /\ TypeOK'
<1>1. live' = live \cup {f} /\ forwards'[f] = object /\ f \in Fwd /\ f \notin live
  BY DEF Emplace, live, Unused
<1>2. \A g \in live : g # f /\ forwards'[g] = forwards[g]
  BY <1>1 DEF Emplace, live
<1>3. forwards' \in [live' -> Object] /\ live' \subseteq Fwd
  BY <1>1, <1>2 DEF Emplace, live, TypeOK
<1>4. QED
  BY <1>1, <1>2, <1>3 DEF TypeOK, Emplace

\* A listener calls plugins.
LEMMA ListenerCallsType ==
  ASSUME TypeOK, NEW f \in live, NEW L \in 1..Len(Listeners)
  PROVE  ListenerCalls(L, f) \in Seq(Plugin)
<1>1. Listeners[L] \in Seq(Plugin)
  BY ListenersType
<1>2. CASE forwards[f].plugin \in Range(Listeners[L])
  <2>1. forwards[f].plugin \in Plugin
    BY <1>1, <1>2 DEF Range
  <2>2. QED
    BY <1>2, <2>1 DEF ListenerCalls
<1>3. CASE forwards[f].plugin \notin Range(Listeners[L])
  BY <1>1, <1>3 DEF ListenerCalls
<1>4. QED
  BY <1>2, <1>3

----------------------------------------------------------------------------
(* Type correctness.                                                       *)

\* Changing the fields of one registered object to well-typed values.
LEMMA UpdateKeepsType ==
  ASSUME TypeOK, NEW f \in live, NEW object \in Object,
         forwards' = [forwards EXCEPT ![f] = object]
  PROVE  live' = live /\ forwards' \in [live' -> Object]
BY DEF TypeOK, live

\* Starting an activation of a registered forward.
LEMMA BeginKeepsType ==
  ASSUME TypeOK, NEW f \in live, NEW object \in Object, NEW v \in Value \cup {NoValue},
         NEW had \in Value \cup {NoValue}, CanExec(f),
         forwards' = [forwards EXCEPT ![f] = object],
         calls' = Append(calls, Activation(f, v, had))
  PROVE  TypeOK'
<1>1. live' = live /\ forwards' \in [live' -> Object]
  BY UpdateKeepsType
<1>2. Activation(f, v, had) \in Frame
  BY ListenersType DEF Activation, Frame, ReturnValue, Ignored, TypeOK
<1>3. calls' \in Seq(Frame) /\ Len(calls') = Len(calls) + 1
  BY <1>2, AppendProperties DEF TypeOK
<1>4. QED
  BY <1>1, <1>3, MaxDepthIsNat DEF TypeOK, CanExec

\* Replacing the innermost activation.
LEMMA TopKeepsType ==
  ASSUME TypeOK, InLoop, NEW frame \in Frame,
         calls' = [calls EXCEPT ![Len(calls)] = frame], UNCHANGED forwards
  PROVE  TypeOK'
<1>1. Len(calls) \in DOMAIN calls
  BY DEF TypeOK, InLoop
<1>2. calls' \in Seq(Frame) /\ Len(calls') = Len(calls)
  BY <1>1 DEF TypeOK
<1>3. QED
  BY <1>2 DEF TypeOK, live

\* The innermost activation is a well-typed frame.
LEMMA TopType ==
  ASSUME TypeOK, InLoop
  PROVE  Top \in Frame /\ Len(calls) \in 1..Len(calls) /\ Top.fwd \in live
BY DEF TypeOK, InLoop, Top

\* createForward() registers well-typed forwards only.
LEMMA CreateKeepsType ==
  ASSUME TypeOK, NEW f \in Unused, NEW n \in Name,
         CreateGlobal(f, n) \/ \E p \in Plugin : CreateSingle(f, n, p)
  PROVE  TypeOK'
<1>1. CASE CreateGlobal(f, n)
  <2>0. PICK t \in Types, k \in 0..1 :
          \E object \in New(n, NoPlugin, t, k, ByPlugin) : Emplace(f, object)
    BY <1>1 DEF CreateGlobal
  <2>1. PICK object \in New(n, NoPlugin, t, k, ByPlugin) : Emplace(f, object)
    BY <2>0
  <2>2. object \in Object
    BY NewType, Registrars, TypesAreTypes DEF ExecType
  <2>3. QED
    BY <2>1, <2>2, EmplaceEffect
<1>2. ASSUME NEW p \in Plugin, CreateSingle(f, n, p) PROVE TypeOK'
  <2>0. PICK k \in 0..1 : \E object \in New(n, p, {}, k, ByPlugin) : Emplace(f, object)
    BY <1>2 DEF CreateSingle
  <2>1. PICK object \in New(n, p, {}, k, ByPlugin) : Emplace(f, object)
    BY <2>0
  <2>2. object \in Object
    BY NewType, Registrars, TypesAreTypes DEF ExecType
  <2>3. QED
    BY <2>1, <2>2, EmplaceEffect
<1>3. QED
  BY <1>1, <1>2

\* What addDefaultsForwards() registers: one global forward for each default
\* name, at distinct addresses.
LEMMA DefaultsEffect ==
  ASSUME AddDefaultsForwards
  PROVE  /\ forwards' \in [live' -> Object] /\ live' \subseteq Fwd
         /\ calls' = calls /\ calls = <<>>
         /\ \A f, g \in live' : forwards'[f].name = forwards'[g].name => f = g
         /\ \A f \in live' : forwards'[f].pos = 0
<1>1. PICK at \in Injection(Default, Fwd), t \in Types, k \in 0..1 :
        /\ forwards' \in [Range(at) -> UNION {New(n, NoPlugin, t, k, ByServer) : n \in Default}]
        /\ \A n \in Default : forwards'[at[n]].name = n
  BY DEF AddDefaultsForwards
<1>2. at \in [Default -> Fwd]
  BY DEF Injection
<1>3. live' = Range(at) /\ Range(at) \subseteq Fwd
  BY <1>1, <1>2 DEF live, Range
<1>4. \A f \in live' : forwards'[f] \in Object /\ forwards'[f].pos = 0
  <2> SUFFICES ASSUME NEW f \in live'
               PROVE  forwards'[f] \in Object /\ forwards'[f].pos = 0
    OBVIOUS
  <2>1. PICK n \in Default : forwards'[f] \in New(n, NoPlugin, t, k, ByServer)
    BY <1>1, <1>3
  <2> DEFINE object == forwards'[f]
  <2>2. /\ object \in New(n, NoPlugin, t, k, ByServer) /\ n \in Name
        /\ NoPlugin \in Plugin \cup {NoPlugin} /\ t \in ExecType
    BY <2>1, DefaultIsName, TypesAreTypes DEF ExecType
  <2> HIDE DEF object
  <2>3. object \in Object /\ object.pos = 0
    BY <2>2, NewType, Registrars
  <2>4. QED
    BY <2>3 DEF object
<1>5. \A f \in live' : \E n \in Default : f = at[n]
  BY <1>2, <1>3 DEF Range
<1>6. \A f, g \in live' : forwards'[f].name = forwards'[g].name => f = g
  BY <1>1, <1>5
<1>7. QED
  BY <1>1, <1>3, <1>4, <1>6 DEF AddDefaultsForwards, live

\* Erasing registered forwards leaves the others well-typed.
LEMMA EraseKeepsType ==
  ASSUME TypeOK, NEW S \in SUBSET live, forwards' = [h \in S |-> forwards[h]], UNCHANGED calls
  PROVE  TypeOK' /\ live' = S /\ \A h \in S : forwards'[h] = forwards[h]
BY DEF TypeOK, live

\* deleteForward() erases one forward that is not being executed.
LEMMA DeleteEffect ==
  ASSUME TypeOK, NEW f \in live, DeleteForward(f)
  PROVE  /\ TypeOK' /\ calls' = calls
         /\ \E g \in live : /\ ~forwards[g].exec
                           /\ live' = live \ {g}
                           /\ \A h \in live' : forwards'[h] = forwards[h]
<1>1. PICK g \in Erasable(f) : forwards' = [h \in live \ {g} |-> forwards[h]]
  BY DEF DeleteForward
<1>2. g \in live /\ ~forwards[g].exec
  BY DEF Erasable
<1>3. UNCHANGED calls
  BY DEF DeleteForward
<1>4. TypeOK' /\ live' = live \ {g} /\ \A h \in live' : forwards'[h] = forwards[h]
  BY <1>1, <1>3, EraseKeepsType
<1>5. QED
  BY <1>2, <1>3, <1>4

\* The objects that push, execFunc() and resetParams() leave behind.
LEMMA ObjectUpdates ==
  ASSUME TypeOK, NEW f \in live
  PROVE  /\ \A v \in Value : Pushed(f, v) \in Object
         /\ \A o \in Object : Marked(o) \in Object /\ Reset(o) \in Object
         /\ [forwards[f] EXCEPT !.pos = 0] \in Object
<1>1. forwards[f] \in Object
  BY DEF TypeOK
<1>2. \A o \in Object : [o EXCEPT !.pos = 0] \in Object /\ [o EXCEPT !.pos = 1] \in Object
  BY DEF Object
<1>3. \A o \in Object : Marked(o) \in Object
  BY DEF Object, Marked
<1>4. ASSUME NEW o \in Object PROVE Reset(o) \in Object
  <2>1. [o EXCEPT !.exec = FALSE] \in Object
    BY DEF Object
  <2>2. Reset(o) = [[o EXCEPT !.exec = FALSE] EXCEPT !.pos = 0]
    BY DEF Object, Reset
  <2>3. QED
    BY <1>2, <2>1, <2>2
<1>5. ASSUME NEW v \in Value PROVE Pushed(f, v) \in Object
  <2>1. [forwards[f] EXCEPT !.arg = v] \in Object
    BY <1>1 DEF Object
  <2>2. [[forwards[f] EXCEPT !.arg = v] EXCEPT !.pos = 1] \in Object
    BY <1>2, <2>1
  <2>3. Pushed(f, v) = [[forwards[f] EXCEPT !.arg = v] EXCEPT !.pos = 1]
    BY <1>1 DEF Object, Pushed
  <2>4. QED
    BY <2>2, <2>3
<1>6. [forwards[f] EXCEPT !.pos = 0] \in Object
  BY <1>1, <1>2
<1>7. QED
  BY <1>3, <1>4, <1>5, <1>6

\* execFunc(), from a native or an engine handler, starts a well-typed activation.
LEMMA ExecKeepsType ==
  ASSUME TypeOK, NEW f \in live, ExecFunc(f) \/ \E v \in Value : EngineExec(f, v)
  PROVE  TypeOK'
<1>1. forwards[f] \in Object /\ forwards[f].arg \in Value \cup {NoValue}
  BY DEF TypeOK, Object
<1>2. CASE ExecFunc(f)
  BY <1>1, <1>2, ObjectUpdates, BeginKeepsType DEF ExecFunc
<1>3. ASSUME NEW v \in Value, EngineExec(f, v) PROVE TypeOK'
  <2> DEFINE object == EngineFilled(f, v)
  <2>1. object \in Object
    BY <1>1, ObjectUpdates DEF EngineFilled
  <2> HIDE DEF object
  <2>2. Marked(object) \in Object /\ object.arg \in Value \cup {NoValue}
    BY <2>1, ObjectUpdates DEF Object
  <2>3. forwards' = [forwards EXCEPT ![f] = Marked(object)]
    BY <1>3 DEF EngineExec, object
  <2>4. CanExec(f) /\ calls' = Append(calls, Activation(f, v, object.arg))
    BY <1>3 DEF EngineExec, object
  <2>5. QED
    BY <2>2, <2>3, <2>4, BeginKeepsType
<1>4. QED
  BY <1>2, <1>3

\* Whatever a plugin answers, the folded result is a ReturnValue.
LEMMA ResultType ==
  ASSUME TypeOK, InLoop, NEW answer \in Answers
  PROVE  NewResult(Top, answer) \in ReturnValue
<1>1. Top.result \in ReturnValue /\ answer \in Answer
  BY TopType, AnswersAre DEF Frame, Answer, ReturnValue, NoAnswer, Ignored, Stop, Handled
<1>2. QED
  BY <1>1 DEF NewResult, Larger, ReturnValue, Answer, NoAnswer, Ignored, Stop, Handled

\* The steps of the loops of execFunc() and of its listener keep the types.
LEMMA CallStepKeepsType ==
  ASSUME TypeOK, CallStep
  PROVE  TypeOK'
<1>1. CASE NextListener
  <2>1. Top.listener + 1 \in 1..Len(Listeners)
    BY <1>1, TopType, ListenersType DEF NextListener, Frame
  <2>2. ListenerCalls(Top.listener + 1, Top.fwd) \in Seq(Plugin)
    BY <1>1, <2>1, TopType, ListenerCallsType DEF NextListener
  <2> DEFINE frame == [Top EXCEPT !.listener = @ + 1,
                                  !.rest = ListenerCalls(Top.listener + 1, Top.fwd)]
  <2>3. frame \in Frame
    <3>1. Top \in Frame
      BY <1>1, TopType DEF NextListener
    <3>2. Top.listener + 1 \in 0..Len(Listeners)
      BY <2>1
    <3> HIDE DEF Top
    <3>3. QED
      BY <2>2, <3>1, <3>2 DEF Frame
  <2>4. QED
    BY <1>1, <2>3, TopKeepsType DEF NextListener
<1>2. ASSUME NEW answer \in Answers, PluginReturns(answer) PROVE TypeOK'
  <2> DEFINE stop  == Stops(Top, answer)
             frame == [Top EXCEPT !.listener = IF stop THEN Len(Listeners) ELSE @,
                                  !.rest = IF stop THEN <<>> ELSE Tail(@),
                                  !.done = Append(@, Head(Top.rest)),
                                  !.answer = Append(@, answer),
                                  !.result = NewResult(Top, answer)]
  <2>1. InLoop /\ Top.rest # <<>>
    BY <1>2 DEF PluginReturns
  <2>2. Top \in Frame /\ NewResult(Top, answer) \in ReturnValue
    BY <2>1, TopType, ResultType
  <2>3. answer \in Answer
    BY AnswersAre DEF Answer, ReturnValue, NoAnswer, Ignored, Stop, Handled
  <2>4. /\ Top.rest \in Seq(Plugin) /\ Top.done \in Seq(Plugin)
        /\ Top.answer \in Seq(Answer) /\ Top.listener \in 0..Len(Listeners)
    BY <2>2 DEF Frame
  <2>5. Tail(Top.rest) \in Seq(Plugin) /\ Append(Top.done, Head(Top.rest)) \in Seq(Plugin)
    BY <2>1, <2>4
  <2>6. Append(Top.answer, answer) \in Seq(Answer)
    BY <2>3, <2>4
  <2>7. /\ (IF stop THEN Len(Listeners) ELSE Top.listener) \in 0..Len(Listeners)
        /\ (IF stop THEN <<>> ELSE Tail(Top.rest)) \in Seq(Plugin)
    BY <2>4, <2>5, ListenersType
  <2>8. frame \in Frame
    BY <2>2, <2>5, <2>6, <2>7 DEF Frame
  <2>9. calls' = [calls EXCEPT ![Len(calls)] = frame] /\ UNCHANGED forwards
    BY <1>2 DEF PluginReturns
  <2>10. QED
    BY <2>1, <2>8, <2>9, TopKeepsType
<1>3. CASE ExecReturns
  <2>1. InLoop /\ Top.fwd \in live /\ Len(calls) \in Nat \ {0}
    BY <1>3, TopType DEF ExecReturns, TypeOK
  <2>2. live' = live /\ forwards' \in [live' -> Object]
    BY <1>3, <2>1, ObjectUpdates, UpdateKeepsType DEF ExecReturns, TypeOK
  <2>3. calls' \in Seq(Frame) /\ Len(calls') = Len(calls) - 1
    BY <1>3, <2>1, PopProperties DEF ExecReturns, TypeOK, InLoop
  <2>4. QED
    BY <2>1, <2>2, <2>3, MaxDepthIsNat DEF TypeOK
<1>4. QED
  BY <1>1, <1>2, <1>3 DEF CallStep

\* The push functions and resetParams() keep the types.
LEMMA PushKeepsType ==
  ASSUME TypeOK, NEW f \in live, ResetParams(f) \/ \E v \in Value : Push(f, v)
  PROVE  TypeOK'
<1>1. PICK object \in Object : forwards' = [forwards EXCEPT ![f] = object]
  <2>1. CASE ResetParams(f)
    BY <2>1, ObjectUpdates DEF ResetParams
  <2>2. ASSUME NEW v \in Value, Push(f, v)
        PROVE  \E object \in Object : forwards' = [forwards EXCEPT ![f] = object]
    BY <2>2, ObjectUpdates DEF Push
  <2>3. QED
    BY <2>1, <2>2
<1>2. UNCHANGED calls
  BY DEF ResetParams, Push
<1>3. QED
  BY <1>1, <1>2, UpdateKeepsType DEF TypeOK

\* clearForwards() leaves an empty registry.
LEMMA ClearEffect ==
  ASSUME ClearForwards
  PROVE  live' = {} /\ forwards' \in [live' -> Object] /\ calls' = calls /\ calls = <<>>
BY DEF ClearForwards, live

\* Every step keeps the types: one case per action.
LEMMA StepKeepsType ==
  ASSUME TypeOK, [Next]_vars
  PROVE  TypeOK'
<1>1. ASSUME NEW f \in Unused, NEW n \in Name,
             CreateGlobal(f, n) \/ \E p \in Plugin : CreateSingle(f, n, p)
      PROVE  TypeOK'
  BY <1>1, CreateKeepsType
<1>2. ASSUME NEW f \in Owned, DeleteForward(f) PROVE TypeOK'
  BY <1>2, DeleteEffect DEF Owned
<1>3. ASSUME NEW f \in Owned, ResetParams(f) \/ \E v \in Value : Push(f, v) PROVE TypeOK'
  BY <1>3, PushKeepsType DEF Owned
<1>4. ASSUME NEW f \in live, ExecFunc(f) \/ \E v \in Value : EngineExec(f, v) PROVE TypeOK'
  BY <1>4, ExecKeepsType
<1>5. CASE AddDefaultsForwards
  BY <1>5, DefaultsEffect DEF TypeOK
<1>6. CASE ClearForwards
  BY <1>6, ClearEffect DEF TypeOK
<1>7. CASE CallStep
  BY <1>7, CallStepKeepsType
<1>8. CASE UNCHANGED vars
  BY <1>8 DEF vars, TypeOK, live
<1>9. CASE NativeStep
  BY <1>1, <1>2, <1>3, <1>4, <1>9 DEF NativeStep, ForwardCtor, PushParam, PushExec, PushCancel,
         ForwardRemove, Owned
<1>10. CASE EngineStep
  BY <1>4, <1>5, <1>6, <1>10 DEF EngineStep, SameName
<1>11. QED
  BY <1>7, <1>8, <1>9, <1>10 DEF Next

\* A registry without forwards is well-typed.
LEMMA InitTypeOK == Init => TypeOK
<1> SUFFICES ASSUME Init PROVE TypeOK
  OBVIOUS
<1>1. live = {} /\ forwards \in [live -> Object]
  BY DEF Init, live
<1>2. calls \in Seq(Frame) /\ Len(calls) = 0
  BY DEF Init
<1>3. QED
  BY <1>1, <1>2, MaxDepthIsNat DEF TypeOK

\* The registry, the parameter positions and the call stack are well typed in
\* every state: in particular push() never writes past m_params, and only
\* registered forwards are looked up.
THEOREM TypeCorrect == Spec => []TypeOK
<1>1. Init => TypeOK
  BY InitTypeOK
<1>2. TypeOK /\ [Next]_vars => TypeOK'
  BY StepKeepsType
<1>3. QED
  BY <1>1, <1>2, PTL DEF Spec

----------------------------------------------------------------------------
(* Registrations are unique.                                               *)

\* The fields of a forward that no call after its registration changes.
LEMMA FixedFields ==
  ASSUME TypeOK, NEW f \in live
  PROVE  /\ \A v \in Value : /\ Pushed(f, v).name = forwards[f].name
                              /\ Pushed(f, v).plugin = forwards[f].plugin
                              /\ Pushed(f, v).params = forwards[f].params
                              /\ Pushed(f, v).own = forwards[f].own
                              /\ Pushed(f, v).pos = 1 /\ Pushed(f, v).arg = v
         /\ \A o \in Object : /\ Marked(o).name = o.name /\ Marked(o).plugin = o.plugin
                               /\ Marked(o).params = o.params /\ Marked(o).pos = o.pos
                               /\ Marked(o).arg = o.arg /\ Marked(o).exec
                               /\ Marked(o).own = o.own /\ Reset(o).own = o.own
                               /\ Reset(o).name = o.name /\ Reset(o).plugin = o.plugin
                               /\ Reset(o).pos = 0
<1>1. forwards[f] \in Object
  BY DEF TypeOK
<1>2. QED
  BY <1>1 DEF Object, Pushed, Marked, Reset

\* Every step but a registration or a removal replaces the object at one
\* address by one of the same name and plugin, or none.
LEMMA ReplaceEffect ==
  ASSUME TypeOK, NEW f \in live, NEW object, forwards' = [forwards EXCEPT ![f] = object]
  PROVE  live' = live /\ forwards'[f] = object /\ \A g \in live \ {f} : forwards'[g] = forwards[g]
BY DEF TypeOK, live

\* Replacing a forward by one of the same name and plugin makes no duplicate.
LEMMA ReplaceKeepsUnique ==
  ASSUME TypeOK, UniqueForwards, NEW f \in live, NEW object,
         forwards' = [forwards EXCEPT ![f] = object],
         object.name = forwards[f].name, object.plugin = forwards[f].plugin
  PROVE  UniqueForwards'
<1>1. live' = live
  BY ReplaceEffect
<1>2. \A g \in live : /\ forwards'[g].name = forwards[g].name
                     /\ forwards'[g].plugin = forwards[g].plugin
  BY ReplaceEffect
<1>3. QED
  BY <1>1, <1>2 DEF UniqueForwards

\* createForward() refuses what would be a duplicate.
LEMMA CreateKeepsUnique ==
  ASSUME TypeOK, UniqueForwards, NEW f \in Unused, NEW n \in Name,
         CreateGlobal(f, n) \/ \E p \in Plugin : CreateSingle(f, n, p)
  PROVE  UniqueForwards'
<1>1. ASSUME NEW p \in Plugin \cup {NoPlugin}, ~PluginTaken(n, p),
             NEW t \in ExecType, NEW k \in 0..1, NEW object \in New(n, p, t, k, ByPlugin),
             Emplace(f, object)
      PROVE  UniqueForwards'
  <2>1. object \in Object /\ object.name = n /\ object.plugin = p
    BY NewType, Registrars
  <2>2. /\ live' = live \cup {f} /\ forwards'[f] = object
        /\ \A g \in live : g # f /\ forwards'[g] = forwards[g]
    BY <1>1, <2>1, EmplaceEffect
  <2>3. \A g \in live : ~(forwards[g].name = n /\ forwards[g].plugin = p)
    BY <1>1 DEF PluginTaken, SameName
  <2>4. QED
    BY <2>1, <2>2, <2>3 DEF UniqueForwards
<1>2. CASE CreateGlobal(f, n)
  <2>1. PICK t \in Types, k \in 0..1 :
          \E object \in New(n, NoPlugin, t, k, ByPlugin) : Emplace(f, object)
    BY <1>2 DEF CreateGlobal
  <2>2. ~PluginTaken(n, NoPlugin)
    BY <1>2 DEF CreateGlobal, NameTaken, PluginTaken
  <2>3. QED
    BY <1>1, <2>1, <2>2, TypesAreTypes DEF ExecType
<1>3. ASSUME NEW p \in Plugin, CreateSingle(f, n, p) PROVE UniqueForwards'
  BY <1>1, <1>3 DEF CreateSingle, ExecType
<1>4. QED
  BY <1>2, <1>3

\* Every step keeps registrations unique: one case per action.
LEMMA StepKeepsUnique ==
  ASSUME TypeOK, UniqueForwards, [Next]_vars
  PROVE  UniqueForwards'
<1>1. ASSUME NEW f \in Unused, NEW n \in Name,
             CreateGlobal(f, n) \/ \E p \in Plugin : CreateSingle(f, n, p)
      PROVE  UniqueForwards'
  BY <1>1, CreateKeepsUnique
<1>2. ASSUME NEW f \in live, DeleteForward(f) PROVE UniqueForwards'
  BY <1>2, DeleteEffect DEF UniqueForwards
<1>3. ASSUME NEW f \in live, ResetParams(f) \/ \E v \in Value : Push(f, v)
      PROVE  UniqueForwards'
  <2>1. CASE ResetParams(f)
    BY <2>1, ReplaceKeepsUnique DEF ResetParams, TypeOK, Object
  <2>2. ASSUME NEW v \in Value, Push(f, v) PROVE UniqueForwards'
    BY <2>2, FixedFields, ReplaceKeepsUnique DEF Push
  <2>3. QED
    BY <1>3, <2>1, <2>2
<1>4. ASSUME NEW f \in live, ExecFunc(f) \/ \E v \in Value : EngineExec(f, v)
      PROVE  UniqueForwards'
  <2>1. forwards[f] \in Object
    BY DEF TypeOK
  <2>2. CASE ExecFunc(f)
    BY <2>1, <2>2, FixedFields, ReplaceKeepsUnique DEF ExecFunc
  <2>3. ASSUME NEW v \in Value, EngineExec(f, v) PROVE UniqueForwards'
    <3> DEFINE object == EngineFilled(f, v)
    <3>1. /\ object \in Object /\ object.name = forwards[f].name
          /\ object.plugin = forwards[f].plugin
      BY <2>1, FixedFields, ObjectUpdates DEF EngineFilled
    <3>2. forwards' = [forwards EXCEPT ![f] = Marked(object)]
      BY <2>3 DEF EngineExec
    <3> HIDE DEF object
    <3>3. /\ Marked(object).name = forwards[f].name
          /\ Marked(object).plugin = forwards[f].plugin
      BY <3>1, FixedFields
    <3>4. QED
      BY <3>2, <3>3, ReplaceKeepsUnique
  <2>4. QED
    BY <1>4, <2>2, <2>3
<1>5. CASE AddDefaultsForwards
  BY <1>5, DefaultsEffect DEF UniqueForwards
<1>6. CASE ClearForwards
  BY <1>6, ClearEffect DEF UniqueForwards
<1>7. CASE CallStep
  <2>1. CASE ExecReturns
    <3>1. Top.fwd \in live /\ forwards[Top.fwd] \in Object
      BY <2>1, TopType DEF ExecReturns, TypeOK
    <3>2. forwards' = [forwards EXCEPT ![Top.fwd] = Reset(forwards[Top.fwd])]
      BY <2>1 DEF ExecReturns
    <3>3. QED
      BY <3>1, <3>2, FixedFields, ReplaceKeepsUnique
  <2>2. CASE UNCHANGED forwards
    BY <2>2 DEF UniqueForwards, live
  <2>3. QED
    BY <1>7, <2>1, <2>2 DEF CallStep, NextListener, PluginReturns
<1>8. CASE UNCHANGED vars
  BY <1>8 DEF vars, UniqueForwards, live
<1>9. CASE NativeStep
  BY <1>1, <1>2, <1>3, <1>4, <1>9 DEF NativeStep, ForwardCtor, PushParam, PushExec, PushCancel,
         ForwardRemove, Owned
<1>10. CASE EngineStep
  BY <1>4, <1>5, <1>6, <1>10 DEF EngineStep, SameName
<1>11. QED
  BY <1>7, <1>8, <1>9, <1>10 DEF Next

\* At most one forward per name and plugin: an event runs at most once in a
\* plugin, whatever is registered and removed while events run.
THEOREM RegistrationsAreUnique == Spec => []UniqueForwards
<1>1. Init => TypeOK /\ UniqueForwards
  BY InitTypeOK DEF Init, UniqueForwards, live
<1>2. TypeOK /\ UniqueForwards /\ [Next]_vars => TypeOK' /\ UniqueForwards'
  BY StepKeepsType, StepKeepsUnique
<1>3. QED
  BY <1>1, <1>2, PTL DEF Spec

----------------------------------------------------------------------------
(* Executed forwards live and keep their arguments, provided no forward is *)
(* executed or reset while it is being executed.                           *)

\* A step that keeps the call stack and the forwards on it.
LEMMA RunningUntouched ==
  ASSUME RunningIsMarked, RunsOnce, UNCHANGED calls,
         \A g \in live : Running(g) => g \in live' /\ forwards'[g] = forwards[g]
  PROVE  RunningIsMarked' /\ RunsOnce'
<1>1. ASSUME NEW i \in DOMAIN calls
      PROVE  calls[i].fwd \in live' /\ forwards'[calls[i].fwd] = forwards[calls[i].fwd]
  BY DEF RunningIsMarked, Running
<1>2. ASSUME NEW i \in DOMAIN calls, calls[i].fwd \in Owned
      PROVE  calls[i].fwd \in Owned'
  BY <1>1, <1>2 DEF Owned
<1>3. RunningIsMarked'
  BY <1>1, <1>2 DEF RunningIsMarked, CanPush
<1>4. QED
  BY <1>3 DEF RunsOnce

\* The position of the forwards that stay, and who owns them, does not change.
LEMMA EnginesUntouched ==
  ASSUME TypeOK, EngineForwardsAreEmpty, UNCHANGED calls,
         \A g \in live' : \/ g \in live /\ forwards'[g] = forwards[g]
                         \/ forwards'[g].pos = 0
                         \/ g \in Owned'
  PROVE  EngineForwardsAreEmpty'
<1> SUFFICES ASSUME NEW g \in live' \ Owned', ~Running(g)'
             PROVE  forwards'[g].pos = 0
  BY DEF EngineForwardsAreEmpty
<1>1. CASE g \in live /\ forwards'[g] = forwards[g]
  <2>1. g \notin Owned /\ ~Running(g)
    BY <1>1 DEF Owned, Running
  <2>2. QED
    BY <1>1, <2>1 DEF EngineForwardsAreEmpty
<1>2. QED
  BY <1>1

\* createForward() uses an address that no activation uses.
LEMMA CreateKeepsIInv ==
  ASSUME IInv, NEW f \in Unused, NEW n \in Name,
         CreateGlobal(f, n) \/ \E p \in Plugin : CreateSingle(f, n, p)
  PROVE  IInv'
<1>1. TypeOK /\ RunningIsMarked /\ RunsOnce /\ EngineForwardsAreEmpty
  BY DEF IInv
<1>2. PICK p \in Plugin \cup {NoPlugin}, t \in ExecType, k \in 0..1 :
        \E object \in New(n, p, t, k, ByPlugin) : Emplace(f, object)
  BY TypesAreTypes DEF CreateGlobal, CreateSingle, ExecType
<1>3. PICK object \in New(n, p, t, k, ByPlugin) : Emplace(f, object)
  BY <1>2
<1>4. object \in Object /\ object.pos = 0
  BY NewType, Registrars
<1>5. /\ live' = live \cup {f} /\ forwards'[f] = object
      /\ \A g \in live : forwards'[g] = forwards[g]
      /\ UNCHANGED calls
  BY <1>1, <1>3, <1>4, EmplaceEffect DEF Emplace
<1>6. RunningIsMarked' /\ RunsOnce'
  BY <1>1, <1>5, RunningUntouched
<1>7. EngineForwardsAreEmpty'
  BY <1>1, <1>4, <1>5, EnginesUntouched
<1>8. TypeOK'
  BY <1>1, CreateKeepsType
<1>9. QED
  BY <1>6, <1>7, <1>8 DEF IInv

\* deleteForward() never erases a forward that is being executed: it is marked.
LEMMA DeleteKeepsIInv ==
  ASSUME IInv, NEW f \in live, DeleteForward(f)
  PROVE  IInv'
<1>1. TypeOK /\ RunningIsMarked /\ RunsOnce /\ EngineForwardsAreEmpty
  BY DEF IInv
<1>2. TypeOK' /\ calls' = calls
  BY <1>1, DeleteEffect
<1>3. PICK g \in live : /\ ~forwards[g].exec
                       /\ live' = live \ {g}
                       /\ \A h \in live' : forwards'[h] = forwards[h]
  BY <1>1, DeleteEffect
<1>4. ~Running(g)
  BY <1>1, <1>3 DEF RunningIsMarked, Running
<1>5. RunningIsMarked' /\ RunsOnce'
  BY <1>1, <1>2, <1>3, <1>4, RunningUntouched
<1>6. EngineForwardsAreEmpty'
  BY <1>1, <1>2, <1>3, EnginesUntouched
<1>7. QED
  BY <1>2, <1>5, <1>6 DEF IInv

\* A push finds a forward that is being executed full.
LEMMA PushKeepsIInv ==
  ASSUME ~Reentrant, IInv, NEW f \in Owned, ResetParams(f) \/ \E v \in Value : Push(f, v)
  PROVE  IInv'
<1>1. TypeOK /\ RunningIsMarked /\ RunsOnce /\ EngineForwardsAreEmpty /\ f \in live
  BY DEF IInv, Owned
<1>2. ~Running(f)
  BY <1>1 DEF ResetParams, Push, RunningIsMarked, Running
<1>3. PICK object \in Object : /\ forwards' = [forwards EXCEPT ![f] = object]
                              /\ object.own = forwards[f].own
  <2>1. CASE ResetParams(f)
    <3>1. [forwards[f] EXCEPT !.pos = 0].own = forwards[f].own
      BY <1>1 DEF TypeOK, Object
    <3>2. QED
      BY <1>1, <2>1, <3>1, ObjectUpdates DEF ResetParams
  <2>2. ASSUME NEW v \in Value, Push(f, v)
        PROVE  /\ forwards' = [forwards EXCEPT ![f] = Pushed(f, v)]
               /\ Pushed(f, v) \in Object
               /\ Pushed(f, v).own = forwards[f].own
    <3>1. forwards' = [forwards EXCEPT ![f] = Pushed(f, v)]
      BY <2>2 DEF Push
    <3>2. TypeOK /\ f \in live
      BY <1>1
    <3>3. Pushed(f, v) \in Object
      BY <2>2, <3>2, ObjectUpdates
    <3>4. Pushed(f, v).own = forwards[f].own
      BY <2>2, <3>2, FixedFields
    <3>5. QED
      BY <3>1, <3>3, <3>4
  <2>3. QED
    BY <2>1, <2>2
<1>4. /\ live' = live /\ forwards'[f] = object
      /\ \A g \in live \ {f} : forwards'[g] = forwards[g]
  BY <1>1, <1>3, ReplaceEffect
<1>5. UNCHANGED calls
  BY DEF ResetParams, Push
<1>6. RunningIsMarked' /\ RunsOnce'
  BY <1>1, <1>2, <1>4, <1>5, RunningUntouched
<1>7. f \in Owned'
  BY <1>3, <1>4 DEF Owned
<1>8. EngineForwardsAreEmpty'
  BY <1>1, <1>4, <1>5, <1>7, EnginesUntouched
<1>9. QED
  BY <1>1, <1>6, <1>8, PushKeepsType DEF IInv

\* A new activation of a forward that has none.
LEMMA BeginKeepsRunning ==
  ASSUME TypeOK, RunningIsMarked, RunsOnce, EngineForwardsAreEmpty,
         NEW f \in live, ~Running(f), NEW object \in Object, NEW v,
         object.exec, ~(object.pos < object.params), object.own = forwards[f].own,
         object.params > 0 => object.arg = v \/ f \in Owned,
         forwards' = [forwards EXCEPT ![f] = object],
         calls' = Append(calls, Activation(f, v, object.arg))
  PROVE  RunningIsMarked' /\ RunsOnce' /\ EngineForwardsAreEmpty'
<1> DEFINE n == Len(calls) + 1
<1>1. /\ live' = live /\ forwards'[f] = object
      /\ \A g \in live \ {f} : forwards'[g] = forwards[g]
  BY ReplaceEffect
<1>2. /\ n \in Nat \ {0} /\ DOMAIN calls = 1..n-1 /\ DOMAIN calls' = 1..n
      /\ \A i \in 1..n-1 : calls'[i] = calls[i]
      /\ calls'[n] = Activation(f, v, object.arg)
  BY DEF TypeOK
<1> HIDE DEF n
<1>3. calls'[n].fwd = f /\ calls'[n].want = v /\ calls'[n].had = object.arg
  BY <1>2 DEF Activation
<1>0. Owned' = Owned
  BY <1>1 DEF Owned
<1>4. \A i \in 1..n-1 : calls[i].fwd # f
  BY <1>2 DEF Running
<1>5. RunningIsMarked'
  <2> SUFFICES ASSUME NEW i \in 1..n
               PROVE  LET g == calls'[i].fwd
                      IN  /\ g \in live' /\ forwards'[g].exec
                          /\ ~(forwards'[g].pos < forwards'[g].params)
                          /\ forwards'[g].params > 0 =>
                               /\ forwards'[g].arg = calls'[i].had
                               /\ calls'[i].had = calls'[i].want \/ g \in Owned'
    BY <1>2 DEF RunningIsMarked, CanPush
  <2>1. CASE i = n
    <3>1. calls'[i].fwd = f /\ calls'[i].want = v /\ calls'[i].had = object.arg
      BY <1>3, <2>1
    <3>2. f \in live' /\ forwards'[f] = object
      BY <1>1
    <3>3. object.params > 0 => object.arg = v \/ f \in Owned'
      BY <1>0
    <3>4. QED
      BY <3>1, <3>2, <3>3
  <2>2. CASE i \in 1..n-1
    BY <1>0, <1>1, <1>2, <1>4, <2>2 DEF RunningIsMarked, CanPush
  <2>3. QED
    BY <1>2, <2>1, <2>2
<1>6. RunsOnce'
  BY <1>2, <1>3, <1>4 DEF RunsOnce
<1>7. EngineForwardsAreEmpty'
  <2> SUFFICES ASSUME NEW g \in live' \ Owned', ~Running(g)'
               PROVE  forwards'[g].pos = 0
    BY DEF EngineForwardsAreEmpty
  <2>1. g # f
    BY <1>2, <1>3 DEF Running
  <2>2. g \in live /\ forwards'[g] = forwards[g]
    BY <1>1, <2>1
  <2>3. ~Running(g)
    BY <1>2 DEF Running
  <2>4. QED
    BY <1>0, <2>2, <2>3 DEF EngineForwardsAreEmpty
<1>8. QED
  BY <1>5, <1>6, <1>7

\* execFunc() of a forward that is not running marks it, full of its arguments.
LEMMA ExecKeepsIInv ==
  ASSUME ~Reentrant, IInv, NEW f \in live,
         ExecFunc(f) \/ \E v \in Value : EngineExec(f, v)
  PROVE  IInv'
<1>1. /\ TypeOK /\ RunningIsMarked /\ RunsOnce /\ EngineForwardsAreEmpty
      /\ forwards[f] \in Object
  BY DEF IInv, TypeOK
<1>2. ~Running(f)
  BY DEF ExecFunc, EngineExec, CanExec
<1>3. CASE ExecFunc(f)
  <2>1. /\ Marked(forwards[f]) \in Object /\ Marked(forwards[f]).exec
        /\ Marked(forwards[f]).pos = forwards[f].pos
        /\ Marked(forwards[f]).params = forwards[f].params
        /\ Marked(forwards[f]).arg = forwards[f].arg
        /\ Marked(forwards[f]).own = forwards[f].own
    BY <1>1, FixedFields, ObjectUpdates
  <2>2. RunningIsMarked' /\ RunsOnce' /\ EngineForwardsAreEmpty'
    BY <1>1, <1>2, <1>3, <2>1, BeginKeepsRunning DEF ExecFunc, CanPush
  <2>3. QED
    BY <1>1, <1>3, <2>2, ExecKeepsType DEF IInv
<1>4. ASSUME NEW v \in Value, EngineExec(f, v) PROVE IInv'
  <2> DEFINE object == EngineFilled(f, v)
  <2>1. forwards[f].params \in 0..1 /\ (f \in Owned \/ forwards[f].pos = 0)
    BY <1>1, <1>2 DEF EngineForwardsAreEmpty, Object
  <2>2. object \in Object /\ object.own = forwards[f].own
    BY <1>1, ObjectUpdates, FixedFields DEF EngineFilled
  <2>3. /\ ~(object.pos < object.params)
        /\ object.params > 0 => object.arg = v \/ f \in Owned
    BY <1>1, <2>1, FixedFields DEF CanPush, EngineFilled
  <2> HIDE DEF object
  <2>4. /\ Marked(object) \in Object /\ Marked(object).exec
        /\ Marked(object).pos = object.pos /\ Marked(object).params = object.params
        /\ Marked(object).arg = object.arg /\ Marked(object).own = object.own
    BY <1>1, <2>2, FixedFields, ObjectUpdates
  <2>5. /\ forwards' = [forwards EXCEPT ![f] = Marked(object)]
        /\ calls' = Append(calls, Activation(f, v, Marked(object).arg))
    BY <1>4, <2>4 DEF EngineExec, object
  <2>6. RunningIsMarked' /\ RunsOnce' /\ EngineForwardsAreEmpty'
    BY <1>1, <1>2, <2>2, <2>3, <2>4, <2>5, BeginKeepsRunning
  <2>7. QED
    BY <1>1, <1>4, <2>6, ExecKeepsType DEF IInv
<1>5. QED
  BY <1>3, <1>4

\* The innermost activation goes on: its forward and its argument stay.
LEMMA LoopKeepsIInv ==
  ASSUME IInv, CallStep, NextListener \/ \E answer \in Answers : PluginReturns(answer)
  PROVE  IInv'
<1>1. /\ TypeOK /\ RunningIsMarked /\ RunsOnce /\ EngineForwardsAreEmpty
      /\ InLoop /\ UNCHANGED forwards
  BY DEF IInv, NextListener, PluginReturns
<1>2. Top \in Frame /\ Len(calls) \in 1..Len(calls)
  BY <1>1, TopType
<1>3. PICK frame : /\ calls' = [calls EXCEPT ![Len(calls)] = frame]
                   /\ frame.fwd = Top.fwd /\ frame.want = Top.want /\ frame.had = Top.had
  <2>1. CASE NextListener
    <3> DEFINE frame == [Top EXCEPT !.listener = @ + 1,
                                    !.rest = ListenerCalls(Top.listener + 1, Top.fwd)]
    <3>1. calls' = [calls EXCEPT ![Len(calls)] = frame]
      BY <2>1 DEF NextListener
    <3>2. frame.fwd = Top.fwd /\ frame.want = Top.want /\ frame.had = Top.had
      BY <1>2 DEF Frame
    <3>3. QED
      BY <3>1, <3>2
  <2>2. ASSUME NEW answer \in Answers, PluginReturns(answer)
        PROVE  \E frame : /\ calls' = [calls EXCEPT ![Len(calls)] = frame]
                          /\ frame.fwd = Top.fwd /\ frame.want = Top.want /\ frame.had = Top.had
    <3> DEFINE stop  == Stops(Top, answer)
               frame == [Top EXCEPT !.listener = IF stop THEN Len(Listeners) ELSE @,
                                    !.rest = IF stop THEN <<>> ELSE Tail(@),
                                    !.done = Append(@, Head(Top.rest)),
                                    !.answer = Append(@, answer),
                                    !.result = NewResult(Top, answer)]
    <3>1. calls' = [calls EXCEPT ![Len(calls)] = frame]
      BY <2>2 DEF PluginReturns
    <3>2. frame.fwd = Top.fwd /\ frame.want = Top.want /\ frame.had = Top.had
      BY <1>2 DEF Frame
    <3> HIDE DEF frame
    <3>3. QED
      BY <3>1, <3>2
  <2>3. QED
    BY <2>1, <2>2
<1>4. /\ DOMAIN calls' = DOMAIN calls
      /\ \A i \in DOMAIN calls : /\ calls'[i].fwd = calls[i].fwd
                                  /\ calls'[i].want = calls[i].want
                                  /\ calls'[i].had = calls[i].had
  BY <1>1, <1>2, <1>3 DEF Top, TypeOK
<1>5. live' = live /\ Owned' = Owned
  BY <1>1 DEF live, Owned
<1>6. RunningIsMarked'
  BY <1>1, <1>4, <1>5 DEF RunningIsMarked, CanPush
<1>7. RunsOnce'
  BY <1>1, <1>4 DEF RunsOnce
<1>8. EngineForwardsAreEmpty'
  BY <1>1, <1>4, <1>5 DEF EngineForwardsAreEmpty, Owned, Running
<1>9. QED
  BY <1>1, <1>6, <1>7, <1>8, CallStepKeepsType DEF IInv

\* The innermost activation ends: no other one is of the same forward, so that
\* taking the mark off disturbs none.
LEMMA ReturnKeepsIInv ==
  ASSUME IInv, CallStep, ExecReturns
  PROVE  IInv'
<1>1. /\ TypeOK /\ RunningIsMarked /\ RunsOnce /\ EngineForwardsAreEmpty
      /\ InLoop /\ calls # <<>> /\ calls \in Seq(Frame)
  BY DEF IInv, ExecReturns, InLoop, TypeOK
<1>2. Top.fwd \in live /\ forwards[Top.fwd] \in Object
  BY <1>1, TopType DEF TypeOK
<1>3. /\ live' = live /\ forwards'[Top.fwd] = Reset(forwards[Top.fwd])
      /\ \A g \in live \ {Top.fwd} : forwards'[g] = forwards[g]
  BY <1>1, <1>2, ReplaceEffect DEF ExecReturns
<1>0. Owned' = Owned
  <2>1. Reset(forwards[Top.fwd]).own = forwards[Top.fwd].own
    BY <1>1, <1>2, FixedFields
  <2>2. QED
    BY <1>2, <1>3, <2>1 DEF Owned
<1> DEFINE n == Len(calls)
<1>4. n \in Nat \ {0} /\ DOMAIN calls = 1..n /\ Top = calls[n]
  BY <1>1 DEF Top
<1>5. DOMAIN calls' = 1..n-1 /\ \A i \in 1..n-1 : calls'[i] = calls[i]
  <2>1. calls' = SubSeq(calls, 1, n - 1)
    BY DEF ExecReturns
  <2>2. calls' \in Seq(Frame) /\ Len(calls') = n - 1
    BY <1>1, <2>1, PopProperties
  <2>3. QED
    BY <1>1, <2>1, <2>2, PopProperties
<1> HIDE DEF n
<1>6. \A i \in 1..n-1 : calls[i].fwd # Top.fwd
  BY <1>1, <1>4 DEF RunsOnce
<1>7. RunningIsMarked'
  <2> SUFFICES ASSUME NEW i \in 1..n-1
               PROVE  LET g == calls[i].fwd
                      IN  /\ g \in live' /\ forwards'[g].exec
                          /\ ~(forwards'[g].pos < forwards'[g].params)
                          /\ forwards'[g].params > 0 =>
                               /\ forwards'[g].arg = calls[i].had
                               /\ calls[i].had = calls[i].want \/ g \in Owned'
    BY <1>5 DEF RunningIsMarked, CanPush
  <2>1. i \in DOMAIN calls /\ calls[i].fwd # Top.fwd
    BY <1>4, <1>6
  <2>2. QED
    BY <1>0, <1>1, <1>3, <2>1 DEF RunningIsMarked, CanPush
<1>8. RunsOnce'
  BY <1>1, <1>4, <1>5 DEF RunsOnce
<1>9. EngineForwardsAreEmpty'
  <2> SUFFICES ASSUME NEW g \in live' \ Owned', ~Running(g)'
               PROVE  forwards'[g].pos = 0
    BY DEF EngineForwardsAreEmpty
  <2>1. CASE g = Top.fwd
    BY <1>1, <1>2, <1>3, <2>1, FixedFields
  <2>2. CASE g # Top.fwd
    <3>1. g \in live /\ forwards'[g] = forwards[g]
      BY <1>3, <2>2
    <3>2. ~Running(g)
      BY <1>4, <1>5, <2>2 DEF Running
    <3>3. QED
      BY <1>0, <1>1, <3>1, <3>2 DEF EngineForwardsAreEmpty
  <2>3. QED
    BY <2>1, <2>2
<1>10. QED
  BY <1>1, <1>7, <1>8, <1>9, CallStepKeepsType DEF IInv

\* Every step keeps the inductive invariant when no forward runs inside itself.
LEMMA StepKeepsIInv ==
  ASSUME ~Reentrant, IInv, [Next]_vars
  PROVE  IInv'
<1>1. ASSUME NEW f \in Unused, NEW n \in Name,
             CreateGlobal(f, n) \/ \E p \in Plugin : CreateSingle(f, n, p)
      PROVE  IInv'
  BY <1>1, CreateKeepsIInv
<1>2. ASSUME NEW f \in Owned, DeleteForward(f) PROVE IInv'
  BY <1>2, DeleteKeepsIInv DEF Owned
<1>3. ASSUME NEW f \in Owned, ResetParams(f) \/ \E v \in Value : Push(f, v) PROVE IInv'
  BY <1>3, PushKeepsIInv
<1>4. ASSUME NEW f \in Owned, ExecFunc(f) PROVE IInv'
  BY <1>4, ExecKeepsIInv DEF Owned
<1>5. ASSUME NEW f \in live, NEW v \in Value, EngineExec(f, v) PROVE IInv'
  BY <1>5, ExecKeepsIInv
<1>6. CASE AddDefaultsForwards
  BY <1>6, DefaultsEffect, StepKeepsType
     DEF IInv, RunningIsMarked, RunsOnce, EngineForwardsAreEmpty
<1>7. CASE ClearForwards
  BY <1>7, ClearEffect, StepKeepsType
     DEF IInv, RunningIsMarked, RunsOnce, EngineForwardsAreEmpty
<1>8. CASE CallStep
  BY <1>8, LoopKeepsIInv, ReturnKeepsIInv DEF CallStep
<1>9. CASE UNCHANGED vars
  BY <1>9, StepKeepsType
     DEF vars, IInv, RunningIsMarked, RunsOnce, EngineForwardsAreEmpty, Running, CanPush,
         Owned, live
<1>10. CASE NativeStep
  BY <1>1, <1>2, <1>3, <1>4, <1>10
     DEF NativeStep, ForwardCtor, PushParam, PushExec, PushCancel, ForwardRemove
<1>11. CASE EngineStep
  BY <1>5, <1>6, <1>7, <1>11 DEF EngineStep, SameName
<1>12. QED
  BY <1>8, <1>9, <1>10, <1>11 DEF Next

\* The inductive invariant holds of the empty registry.
LEMMA InitIInv == Init => IInv
BY InitTypeOK
   DEF Init, IInv, RunningIsMarked, RunsOnce, EngineForwardsAreEmpty, live

\* If plugins do not execute a forward while execFunc() runs it, the forwards on
\* the call stack are registered, marked and full, each once, at all times.
THEOREM InductiveInvariant == ~Reentrant => (Spec => []IInv)
<1> SUFFICES ASSUME ~Reentrant PROVE Spec => []IInv
  OBVIOUS
<1>1. Init => IInv
  BY InitIInv
<1>2. IInv /\ [Next]_vars => IInv'
  BY StepKeepsIInv
<1>3. QED
  BY <1>1, <1>2, PTL DEF Spec

\* A Forward is not freed while execFunc() works on it, whatever the plugins it
\* calls remove, if they do not execute it again.
THEOREM ExecutedForwardsLive == ~Reentrant => (Spec => []ExecutedForwardLives)
<1>1. IInv => ExecutedForwardLives
  BY DEF IInv, RunningIsMarked, ExecutedForwardLives
<1>2. QED
  BY <1>1, InductiveInvariant, PTL

\* All plugins called for one execution see the arguments of its caller.
THEOREM ArgumentsAreKept == ~Reentrant => (Spec => []ArgumentsHold)
<1>1. IInv => ArgumentsHold
  BY DEF IInv, RunningIsMarked, ArgumentsHold
<1>2. QED
  BY <1>1, InductiveInvariant, PTL

----------------------------------------------------------------------------
(* Answers are folded as the exec type promises, in whatever order plugins *)
(* answer.  Forwards may run inside themselves here: an address on the     *)
(* call stack is not used again, so that the type and the plugin of a      *)
(* running forward stay what they were.                                    *)

\* The plugins of all adapters are those of each: there is one adapter.  The
\* listener of another adapter would call all its plugins for a forward of one
\* plugin that is not its own.
EveryAdapterHasAll == \A L \in DOMAIN Listeners : Plugin \subseteq Range(Listeners[L])

\* What AnswersIInv says of one activation of a registered forward.
Meets(frame, object) ==
  /\ "Stop" \in object.type =>
       Stop \notin Range(SubSeq(frame.answer, 1, Len(frame.answer) - 1))
  /\ object.type = {"Stop"} /\ Stop \in Range(frame.answer) => frame.result = Stop
  /\ "Highest" \in object.type =>
       /\ frame.result \in (Range(frame.answer) \ {NoAnswer}) \cup {Ignored}
       /\ \A a \in Range(frame.answer) \ {NoAnswer} : a <= frame.result
  /\ "Stop" \in object.type /\ Stop \in Range(frame.answer) =>
       frame.rest = <<>> /\ frame.listener = Len(Listeners)
  /\ object.plugin # NoPlugin =>
       \A p \in Range(frame.done) \cup Range(frame.rest) : p = object.plugin

FramesMeet ==
  \A i \in DOMAIN calls : calls[i].fwd \in live => Meets(calls[i], forwards[calls[i].fwd])

\* The invariant, activation by activation.
LEMMA AnswersByFrame ==
  AnswersIInv <=> TypeOK /\ SinglesHaveNoType /\ FramesMeet
<1>1. Stop # NoAnswer
  BY DEF Stop, NoAnswer
<1>2. AnswersIInv => TypeOK /\ SinglesHaveNoType /\ FramesMeet
  <2> SUFFICES ASSUME AnswersIInv, NEW i \in DOMAIN calls, calls[i].fwd \in live
               PROVE  Meets(calls[i], forwards[calls[i].fwd])
    BY DEF AnswersIInv, AnswersMeetType, FramesMeet
  <2>1. QED
    BY <1>1 DEF AnswersIInv, AnswersMeetType, ResultMeetsType, SingleRunsInItsPlugin,
                LoopsAreBounded, IsGlobal, Meets
<1>3. TypeOK /\ SinglesHaveNoType /\ FramesMeet => AnswersIInv
  <2> SUFFICES ASSUME TypeOK, SinglesHaveNoType, FramesMeet PROVE AnswersIInv
    OBVIOUS
  <2>1. ASSUME NEW i \in DOMAIN calls, calls[i].fwd \in live
        PROVE  Meets(calls[i], forwards[calls[i].fwd])
    BY <2>1 DEF FramesMeet
  <2>2. ResultMeetsType
    BY <1>1, <2>1 DEF ResultMeetsType, Meets
  <2>3. SingleRunsInItsPlugin
    BY <2>1 DEF SingleRunsInItsPlugin, IsGlobal, Meets
  <2>4. LoopsAreBounded
    BY <2>1 DEF LoopsAreBounded, IsGlobal, Meets
  <2>5. QED
    BY <2>2, <2>3, <2>4 DEF AnswersIInv, AnswersMeetType
<1>4. QED
  BY <1>2, <1>3

\* The elements of the sequences the loops build and take apart.
LEMMA RangeOfAppend ==
  ASSUME NEW S, NEW s \in Seq(S), NEW x \in S
  PROVE  /\ Range(Append(s, x)) = Range(s) \cup {x}
         /\ SubSeq(Append(s, x), 1, Len(Append(s, x)) - 1) = s
<1>1. /\ Append(s, x) \in Seq(S) /\ Len(Append(s, x)) = Len(s) + 1 /\ Len(s) \in Nat
      /\ \A i \in 1..Len(s) : Append(s, x)[i] = s[i]
      /\ Append(s, x)[Len(s) + 1] = x
      /\ DOMAIN s = 1..Len(s) /\ DOMAIN Append(s, x) = 1..Len(s) + 1
  BY AppendProperties
<1>2. Range(Append(s, x)) = Range(s) \cup {x}
  BY <1>1 DEF Range
<1>3. SubSeq(Append(s, x), 1, Len(s)) = s
  BY <1>1
<1>4. QED
  BY <1>1, <1>2, <1>3

LEMMA RangeOfTail ==
  ASSUME NEW S, NEW s \in Seq(S), s # <<>>
  PROVE  Head(s) \in Range(s) /\ Range(Tail(s)) \subseteq Range(s)
<1>1. Head(s) \in Range(s)
  BY DEF Range
<1>2. ASSUME NEW i \in DOMAIN Tail(s) PROVE Tail(s)[i] \in Range(s)
  <2>1. i + 1 \in DOMAIN s /\ Tail(s)[i] = s[i + 1]
    OBVIOUS
  <2>2. QED
    BY <2>1 DEF Range
<1>3. QED
  BY <1>1, <1>2 DEF Range

LEMMA RangeOfShort ==
  ASSUME NEW x
  PROVE  /\ Range(<<>>) = {} /\ Range(<<x>>) = {x}
         /\ Range(SubSeq(<<>>, 1, Len(<<>>) - 1)) = {}
<1>1. SubSeq(<<>>, 1, Len(<<>>) - 1) = <<>>
  OBVIOUS
<1>2. Range(<<>>) = {}
  BY DEF Range
<1>3. Range(<<x>>) = {x}
  BY DEF Range
<1>4. QED
  BY <1>1, <1>2, <1>3

\* What a registered forward is for does not change: a step that keeps the call
\* stack, and the type and the plugin of the forwards on it that stay.
LEMMA MeetUntouched ==
  ASSUME FramesMeet, UNCHANGED calls,
         \A g \in live' : Running(g) =>
           /\ g \in live /\ forwards'[g].type = forwards[g].type
           /\ forwards'[g].plugin = forwards[g].plugin
  PROVE  FramesMeet'
<1> SUFFICES ASSUME NEW i \in DOMAIN calls, calls[i].fwd \in live'
             PROVE  Meets(calls[i], forwards'[calls[i].fwd])
  BY DEF FramesMeet, Meets
<1>1. Running(calls[i].fwd)
  BY DEF Running
<1>2. Meets(calls[i], forwards[calls[i].fwd])
  BY <1>1 DEF FramesMeet
<1>3. /\ forwards'[calls[i].fwd].type = forwards[calls[i].fwd].type
      /\ forwards'[calls[i].fwd].plugin = forwards[calls[i].fwd].plugin
  BY <1>1
<1>4. QED
  BY <1>2, <1>3 DEF Meets

\* Only a forward that runs everywhere is registered with an exec type.
LEMMA NewHasType ==
  ASSUME NEW n \in Name, NEW p \in Plugin \cup {NoPlugin}, NEW t \in ExecType,
         NEW k \in 0..1, NEW o \in BOOLEAN, NEW object \in New(n, p, t, k, o)
  PROVE  object.type = t
BY DEF New

\* createForward() uses an address that no activation uses.
LEMMA CreateKeepsAnswers ==
  ASSUME TypeOK, SinglesHaveNoType, FramesMeet, NEW f \in Unused, NEW n \in Name,
         CreateGlobal(f, n) \/ \E p \in Plugin : CreateSingle(f, n, p)
  PROVE  SinglesHaveNoType' /\ FramesMeet'
<1>1. PICK p \in Plugin \cup {NoPlugin}, t \in ExecType, k \in 0..1 :
        /\ p # NoPlugin => t = {}
        /\ \E object \in New(n, p, t, k, ByPlugin) : Emplace(f, object)
  BY TypesAreTypes DEF CreateGlobal, CreateSingle, ExecType
<1>2. PICK object \in New(n, p, t, k, ByPlugin) : Emplace(f, object)
  BY <1>1
<1>3. object \in Object /\ object.plugin = p /\ object.type = t
  BY NewType, NewHasType, Registrars
<1>4. /\ live' = live \cup {f} /\ forwards'[f] = object
      /\ \A g \in live : forwards'[g] = forwards[g]
      /\ UNCHANGED calls
  BY <1>2, <1>3, EmplaceEffect DEF Emplace
<1>5. ~Running(f)
  BY DEF Unused
<1>6. SinglesHaveNoType'
  BY <1>1, <1>3, <1>4 DEF SinglesHaveNoType, IsGlobal
<1>7. FramesMeet'
  BY <1>4, <1>5, MeetUntouched
<1>8. QED
  BY <1>6, <1>7

\* Replacing a forward by one of the same type and plugin.
LEMMA ReplaceKeepsAnswers ==
  ASSUME TypeOK, SinglesHaveNoType, NEW f \in live, NEW object,
         forwards' = [forwards EXCEPT ![f] = object],
         object.type = forwards[f].type, object.plugin = forwards[f].plugin
  PROVE  /\ SinglesHaveNoType' /\ live' = live
         /\ \A g \in live : /\ forwards'[g].type = forwards[g].type
                           /\ forwards'[g].plugin = forwards[g].plugin
<1>1. live' = live
  BY ReplaceEffect
<1>2. \A g \in live : /\ forwards'[g].type = forwards[g].type
                     /\ forwards'[g].plugin = forwards[g].plugin
  BY ReplaceEffect
<1>3. QED
  BY <1>1, <1>2 DEF SinglesHaveNoType, IsGlobal

\* No call changes the type of a forward.
LEMMA FixedType ==
  ASSUME TypeOK, NEW f \in live
  PROVE  /\ \A v \in Value : Pushed(f, v).type = forwards[f].type
         /\ \A o \in Object : /\ Marked(o).type = o.type /\ Reset(o).type = o.type
         /\ [forwards[f] EXCEPT !.pos = 0].type = forwards[f].type
         /\ [forwards[f] EXCEPT !.pos = 0].plugin = forwards[f].plugin
<1>1. forwards[f] \in Object
  BY DEF TypeOK
<1>2. QED
  BY <1>1 DEF Object, Pushed, Marked, Reset

\* Pushes and resetParams() touch neither.
LEMMA PushKeepsAnswers ==
  ASSUME TypeOK, SinglesHaveNoType, FramesMeet, NEW f \in live,
         ResetParams(f) \/ \E v \in Value : Push(f, v)
  PROVE  SinglesHaveNoType' /\ FramesMeet'
<1>1. PICK object : /\ forwards' = [forwards EXCEPT ![f] = object]
                    /\ object.type = forwards[f].type
                    /\ object.plugin = forwards[f].plugin
  <2>1. CASE ResetParams(f)
    BY <2>1, FixedType DEF ResetParams
  <2>2. ASSUME NEW v \in Value, Push(f, v)
        PROVE  /\ forwards' = [forwards EXCEPT ![f] = Pushed(f, v)]
               /\ Pushed(f, v).type = forwards[f].type
               /\ Pushed(f, v).plugin = forwards[f].plugin
    BY <2>2, FixedType, FixedFields DEF Push
  <2>3. QED
    BY <2>1, <2>2
<1>2. UNCHANGED calls
  BY DEF ResetParams, Push
<1>3. /\ SinglesHaveNoType' /\ live' = live
      /\ \A g \in live : /\ forwards'[g].type = forwards[g].type
                        /\ forwards'[g].plugin = forwards[g].plugin
  BY <1>1, ReplaceKeepsAnswers
<1>4. QED
  BY <1>2, <1>3, MeetUntouched

\* A new activation has called nobody.
LEMMA ExecKeepsAnswers ==
  ASSUME TypeOK, SinglesHaveNoType, FramesMeet, NEW f \in live,
         ExecFunc(f) \/ \E v \in Value : EngineExec(f, v)
  PROVE  SinglesHaveNoType' /\ FramesMeet'
<1>0. forwards[f] \in Object
  BY DEF TypeOK
<1>1. PICK object, v, had : /\ forwards' = [forwards EXCEPT ![f] = object]
                            /\ object.type = forwards[f].type
                            /\ object.plugin = forwards[f].plugin
                            /\ calls' = Append(calls, Activation(f, v, had))
  <2>1. CASE ExecFunc(f)
    <3>1. /\ Marked(forwards[f]).type = forwards[f].type
          /\ Marked(forwards[f]).plugin = forwards[f].plugin
      BY <1>0, FixedType, FixedFields
    <3>2. QED
      BY <2>1, <3>1 DEF ExecFunc
  <2>2. ASSUME NEW v \in Value, EngineExec(f, v)
        PROVE  \E object, had : /\ forwards' = [forwards EXCEPT ![f] = object]
                                /\ object.type = forwards[f].type
                                /\ object.plugin = forwards[f].plugin
                                /\ calls' = Append(calls, Activation(f, v, had))
    <3> DEFINE object == EngineFilled(f, v)
    <3>1. /\ object \in Object /\ object.type = forwards[f].type
          /\ object.plugin = forwards[f].plugin
      BY <1>0, FixedType, FixedFields, ObjectUpdates DEF EngineFilled
    <3>2. /\ forwards' = [forwards EXCEPT ![f] = Marked(object)]
          /\ calls' = Append(calls, Activation(f, v, object.arg))
      BY <2>2 DEF EngineExec
    <3> HIDE DEF object
    <3>3. Marked(object).type = object.type /\ Marked(object).plugin = object.plugin
      BY <3>1, FixedType, FixedFields
    <3>4. QED
      BY <3>1, <3>2, <3>3
  <2>3. QED
    BY <2>1, <2>2
<1>2. /\ SinglesHaveNoType' /\ live' = live
      /\ \A g \in live : /\ forwards'[g].type = forwards[g].type
                        /\ forwards'[g].plugin = forwards[g].plugin
  BY <1>1, ReplaceKeepsAnswers
<1> DEFINE n == Len(calls) + 1
<1>3. /\ n \in Nat \ {0} /\ DOMAIN calls = 1..n-1 /\ DOMAIN calls' = 1..n
      /\ \A i \in 1..n-1 : calls'[i] = calls[i]
      /\ calls'[n] = Activation(f, v, had)
  BY <1>1 DEF TypeOK
<1> HIDE DEF n
<1>4. FramesMeet'
  <2> SUFFICES ASSUME NEW i \in 1..n, calls'[i].fwd \in live'
               PROVE  Meets(calls'[i], forwards'[calls'[i].fwd])
    BY <1>3 DEF FramesMeet, Meets
  <2>1. CASE i = n
    <3> DEFINE frame == Activation(f, v, had)
    <3>1. /\ frame.answer = <<>> /\ frame.rest = <<>> /\ frame.done = <<>>
          /\ frame.result = Ignored
      BY DEF Activation
    <3>2. /\ Range(frame.answer) = {} /\ Range(frame.rest) = {} /\ Range(frame.done) = {}
          /\ Range(SubSeq(frame.answer, 1, Len(frame.answer) - 1)) = {}
      BY <3>1, RangeOfShort
    <3> HIDE DEF frame
    <3>3. Meets(frame, forwards'[calls'[i].fwd])
      BY <3>1, <3>2 DEF Meets
    <3>4. QED
      BY <1>3, <2>1, <3>3 DEF frame
  <2>2. CASE i \in 1..n-1
    <3>1. Meets(calls[i], forwards[calls[i].fwd])
      BY <1>2, <1>3, <2>2 DEF FramesMeet
    <3>2. QED
      BY <1>2, <1>3, <2>2, <3>1 DEF Meets
  <2>3. QED
    BY <1>3, <2>1, <2>2
<1>5. QED
  BY <1>2, <1>4

\* Replacing the innermost activation by one that meets its forward's type.
LEMMA TopKeepsAnswers ==
  ASSUME TypeOK, SinglesHaveNoType, FramesMeet, InLoop, NEW frame,
         frame.fwd = Top.fwd, Meets(frame, forwards[Top.fwd]),
         calls' = [calls EXCEPT ![Len(calls)] = frame], UNCHANGED forwards
  PROVE  SinglesHaveNoType' /\ FramesMeet'
<1>1. live' = live
  BY DEF live
<1>2. DOMAIN calls' = DOMAIN calls
  BY DEF TypeOK
<1>3. FramesMeet'
  <2>1. ASSUME NEW i \in DOMAIN calls, calls'[i].fwd \in live
        PROVE  Meets(calls'[i], forwards[calls'[i].fwd])
    <3>1. CASE i = Len(calls)
      <4>1. calls'[i] = frame
        BY <3>1 DEF TypeOK
      <4>2. QED
        BY <4>1
    <3>2. CASE i # Len(calls)
      <4>1. calls'[i] = calls[i]
        BY <3>2 DEF TypeOK
      <4>2. QED
        BY <2>1, <4>1 DEF FramesMeet
    <3>3. QED
      BY <3>1, <3>2
  <2>2. \A i \in DOMAIN calls :
          calls'[i].fwd \in live => Meets(calls'[i], forwards'[calls'[i].fwd])
    BY <2>1
  <2>3. QED
    BY <1>1, <1>2, <2>2 DEF FramesMeet, Meets
<1>4. QED
  BY <1>1, <1>3 DEF SinglesHaveNoType, IsGlobal

\* A loop that was stopped takes no further callback, and the listener of the
\* one adapter calls for a forward of one plugin that plugin.
LEMMA NextListenerKeepsAnswers ==
  ASSUME EveryAdapterHasAll, TypeOK, SinglesHaveNoType, FramesMeet, NextListener
  PROVE  SinglesHaveNoType' /\ FramesMeet'
<1> DEFINE f     == Top.fwd
           rest  == ListenerCalls(Top.listener + 1, f)
           frame == [Top EXCEPT !.listener = @ + 1, !.rest = rest]
<1>1. /\ InLoop /\ Top \in Frame /\ f \in live /\ Top.rest = <<>>
      /\ Top.listener < Len(Listeners)
      /\ calls' = [calls EXCEPT ![Len(calls)] = frame] /\ UNCHANGED forwards
  BY TopType DEF NextListener
<1>2. Meets(Top, forwards[f]) /\ forwards[f] \in Object
  BY <1>1, TopType DEF FramesMeet, Top, TypeOK
<1>3. /\ frame.fwd = f /\ frame.answer = Top.answer /\ frame.result = Top.result
      /\ frame.done = Top.done /\ frame.rest = rest
  BY <1>1 DEF Frame
<1>4. ~("Stop" \in forwards[f].type /\ Stop \in Range(Top.answer))
  BY <1>1, <1>2, ListenersType DEF Meets, Frame
<1>5. ASSUME forwards[f].plugin # NoPlugin
      PROVE  \A p \in Range(rest) : p = forwards[f].plugin
  <2>1. Top.listener + 1 \in DOMAIN Listeners
    BY <1>1, ListenersType DEF Frame
  <2>2. forwards[f].plugin \in Range(Listeners[Top.listener + 1])
    BY <1>2, <1>5, <2>1 DEF Object, EveryAdapterHasAll
  <2>3. rest = <<forwards[f].plugin>>
    BY <2>2 DEF ListenerCalls
  <2>4. QED
    BY <2>3, RangeOfShort
<1> HIDE DEF rest, frame
<1>6. Meets(frame, forwards[f])
  BY <1>2, <1>3, <1>4, <1>5 DEF Meets
<1>7. QED
  BY <1>1, <1>3, <1>6, TopKeepsAnswers

\* An answer is folded into the result: the loop ends with the first Stop that
\* the type asks for, and only forwards that run everywhere have a type.
LEMMA AnswerKeepsAnswers ==
  ASSUME TypeOK, SinglesHaveNoType, FramesMeet, NEW answer \in Answers, PluginReturns(answer)
  PROVE  SinglesHaveNoType' /\ FramesMeet'
<1> DEFINE f     == Top.fwd
           stop  == Stops(Top, answer)
           res   == NewResult(Top, answer)
           rest  == IF stop THEN <<>> ELSE Tail(Top.rest)
           frame == [Top EXCEPT !.listener = IF stop THEN Len(Listeners) ELSE @,
                                !.rest = rest,
                                !.done = Append(@, Head(Top.rest)),
                                !.answer = Append(@, answer),
                                !.result = res]
<1>1. /\ InLoop /\ Top \in Frame /\ f \in live /\ Top.rest # <<>>
      /\ calls' = [calls EXCEPT ![Len(calls)] = frame] /\ UNCHANGED forwards
  BY TopType DEF PluginReturns
<1>2. Meets(Top, forwards[f]) /\ forwards[f] \in Object
  BY <1>1, TopType DEF FramesMeet, Top, TypeOK
<1>3. /\ Top.rest \in Seq(Plugin) /\ Top.done \in Seq(Plugin)
      /\ Top.answer \in Seq(Answer) /\ Top.result \in ReturnValue /\ answer \in Answer
  BY <1>1, AnswersAre DEF Frame, Answer, ReturnValue, NoAnswer, Ignored, Stop, Handled
<1>4. /\ frame.fwd = f /\ frame.answer = Append(Top.answer, answer)
      /\ frame.result = res /\ frame.done = Append(Top.done, Head(Top.rest))
      /\ frame.rest = rest /\ (stop => frame.listener = Len(Listeners))
  BY <1>1 DEF Frame
<1>5. /\ Head(Top.rest) \in Plugin /\ Head(Top.rest) \in Range(Top.rest)
      /\ Range(Tail(Top.rest)) \subseteq Range(Top.rest)
  BY <1>1, <1>3, RangeOfTail
<1>6. Range(rest) \subseteq Range(Top.rest)
  BY <1>5, RangeOfShort
<1>7. /\ Range(Append(Top.done, Head(Top.rest))) = Range(Top.done) \cup {Head(Top.rest)}
      /\ Range(Append(Top.answer, answer)) = Range(Top.answer) \cup {answer}
      /\ SubSeq(Append(Top.answer, answer), 1, Len(Append(Top.answer, answer)) - 1) = Top.answer
  BY <1>3, <1>5, RangeOfAppend
<1>8. ~("Stop" \in forwards[f].type /\ Stop \in Range(Top.answer))
  BY <1>1, <1>2 DEF Meets
<1>9. /\ forwards[f].plugin # NoPlugin => forwards[f].type = {}
      /\ forwards[f].plugin = NoPlugin => Head(Top.rest) # forwards[f].plugin
  BY <1>1, <1>5, NoPluginIsNone DEF SinglesHaveNoType, IsGlobal
<1>10. stop <=> answer = Stop /\ "Stop" \in forwards[f].type
  BY DEF Stops
<1>11. "Stop" \in forwards[f].type => Stop \notin Range(Top.answer)
  BY <1>8
<1>12. ASSUME forwards[f].type = {"Stop"}, Stop \in Range(Top.answer) \cup {answer}
       PROVE  res = Stop
  <2>1. answer = Stop /\ answer # NoAnswer
    BY <1>8, <1>12 DEF Stop, NoAnswer
  <2>2. QED
    BY <1>12, <2>1 DEF NewResult
<1>13. ASSUME "Highest" \in forwards[f].type
       PROVE  /\ res \in ((Range(Top.answer) \cup {answer}) \ {NoAnswer}) \cup {Ignored}
              /\ \A a \in (Range(Top.answer) \cup {answer}) \ {NoAnswer} : a <= res
  <2>1. /\ Top.result \in (Range(Top.answer) \ {NoAnswer}) \cup {Ignored}
        /\ \A a \in Range(Top.answer) \ {NoAnswer} : a <= Top.result
    BY <1>2, <1>13 DEF Meets
  <2>2. forwards[f].type # {"Stop"} /\ Head(Top.rest) # forwards[f].plugin
    BY <1>9, <1>13
  <2>3. CASE answer = NoAnswer
    BY <2>1, <2>3 DEF NewResult
  <2>4. CASE answer # NoAnswer
    <3>1. res = Larger(Top.result, answer)
      BY <2>2, <2>4 DEF NewResult
    <3>2. Top.result \in Int /\ answer \in Int /\ Range(Top.answer) \subseteq Int
      BY <1>3 DEF ReturnValue, Answer, NoAnswer, Ignored, Stop, Handled, Range
    <3> HIDE DEF res
    <3>3. Top.result <= res /\ answer <= res /\ res \in {Top.result, answer}
      BY <3>1, <3>2 DEF Larger
    <3>4. \A a \in Range(Top.answer) \ {NoAnswer} : a <= res
      BY <2>1, <3>2, <3>3
    <3>5. QED
      BY <2>1, <2>4, <3>3, <3>4
  <2>5. QED
    BY <2>3, <2>4
<1>14. "Stop" \in forwards[f].type /\ Stop \in Range(Top.answer) \cup {answer}
         => stop /\ rest = <<>>
  BY <1>8, <1>10
<1>15. ASSUME forwards[f].plugin # NoPlugin
       PROVE  \A p \in Range(Top.done) \cup {Head(Top.rest)} \cup Range(rest) :
                p = forwards[f].plugin
  BY <1>2, <1>5, <1>6, <1>15 DEF Meets
<1> HIDE DEF rest, frame, res, stop
<1>16. Meets(frame, forwards[f])
  BY <1>4, <1>7, <1>11, <1>12, <1>13, <1>14, <1>15 DEF Meets
<1>17. QED
  BY <1>1, <1>4, <1>16, TopKeepsAnswers

\* The end of an activation.
LEMMA ReturnKeepsAnswers ==
  ASSUME TypeOK, SinglesHaveNoType, FramesMeet, ExecReturns
  PROVE  SinglesHaveNoType' /\ FramesMeet'
<1>1. /\ InLoop /\ calls # <<>> /\ calls \in Seq(Frame) /\ Top.fwd \in live
      /\ forwards[Top.fwd] \in Object
  BY TopType DEF ExecReturns, InLoop, TypeOK
<1>2. /\ Reset(forwards[Top.fwd]).type = forwards[Top.fwd].type
      /\ Reset(forwards[Top.fwd]).plugin = forwards[Top.fwd].plugin
  BY <1>1, FixedType, FixedFields
<1>3. /\ SinglesHaveNoType' /\ live' = live
      /\ \A g \in live : /\ forwards'[g].type = forwards[g].type
                        /\ forwards'[g].plugin = forwards[g].plugin
  BY <1>1, <1>2, ReplaceKeepsAnswers DEF ExecReturns
<1>4. \A i \in DOMAIN calls' : i \in DOMAIN calls /\ calls'[i] = calls[i]
  <2>1. calls' = SubSeq(calls, 1, Len(calls) - 1)
    BY DEF ExecReturns
  <2>2. QED
    BY <1>1, <2>1, PopProperties
<1>5. ASSUME NEW i \in DOMAIN calls', calls'[i].fwd \in live'
      PROVE  Meets(calls'[i], forwards'[calls'[i].fwd])
  <2>1. Meets(calls[i], forwards[calls[i].fwd])
    BY <1>3, <1>4, <1>5 DEF FramesMeet
  <2>2. QED
    BY <1>3, <1>4, <1>5, <2>1 DEF Meets
<1>6. \A i \in DOMAIN calls' :
         calls'[i].fwd \in live' => Meets(calls'[i], forwards'[calls'[i].fwd])
  BY <1>5
<1>7. FramesMeet'
  BY <1>6 DEF FramesMeet, Meets
<1>8. QED
  BY <1>3, <1>7

\* The default forwards run everywhere, and are registered while nothing runs.
LEMMA DefaultsKeepAnswers ==
  ASSUME AddDefaultsForwards
  PROVE  SinglesHaveNoType' /\ FramesMeet'
<1>1. PICK at \in Injection(Default, Fwd), t \in Types, k \in 0..1 :
        forwards' \in [Range(at) -> UNION {New(n, NoPlugin, t, k, ByServer) : n \in Default}]
  BY DEF AddDefaultsForwards
<1>2. live' = Range(at)
  BY <1>1 DEF live
<1>3. ASSUME NEW f \in live' PROVE forwards'[f].plugin = NoPlugin
  <2>1. PICK n \in Default : forwards'[f] \in New(n, NoPlugin, t, k, ByServer)
    BY <1>1, <1>2
  <2>2. QED
    BY <2>1 DEF New
<1>4. SinglesHaveNoType'
  BY <1>3 DEF SinglesHaveNoType, IsGlobal
<1>5. FramesMeet'
  BY DEF AddDefaultsForwards, FramesMeet
<1>6. QED
  BY <1>4, <1>5

\* Every step keeps the answers folded: one case per action.
LEMMA StepKeepsAnswers ==
  ASSUME EveryAdapterHasAll, TypeOK, SinglesHaveNoType, FramesMeet, [Next]_vars
  PROVE  SinglesHaveNoType' /\ FramesMeet'
<1>1. ASSUME NEW f \in Unused, NEW n \in Name,
             CreateGlobal(f, n) \/ \E p \in Plugin : CreateSingle(f, n, p)
      PROVE  SinglesHaveNoType' /\ FramesMeet'
  BY <1>1, CreateKeepsAnswers
<1>2. ASSUME NEW f \in live, DeleteForward(f) PROVE SinglesHaveNoType' /\ FramesMeet'
  <2>1. calls' = calls /\ live' \subseteq live /\ \A h \in live' : forwards'[h] = forwards[h]
    BY <1>2, DeleteEffect
  <2>2. QED
    BY <2>1, MeetUntouched DEF SinglesHaveNoType, IsGlobal
<1>3. ASSUME NEW f \in live, ResetParams(f) \/ \E v \in Value : Push(f, v)
      PROVE  SinglesHaveNoType' /\ FramesMeet'
  BY <1>3, PushKeepsAnswers
<1>4. ASSUME NEW f \in live, ExecFunc(f) \/ \E v \in Value : EngineExec(f, v)
      PROVE  SinglesHaveNoType' /\ FramesMeet'
  BY <1>4, ExecKeepsAnswers
<1>5. CASE AddDefaultsForwards
  BY <1>5, DefaultsKeepAnswers
<1>6. CASE ClearForwards
  BY <1>6, ClearEffect DEF SinglesHaveNoType, FramesMeet
<1>7. CASE CallStep
  BY <1>7, NextListenerKeepsAnswers, AnswerKeepsAnswers, ReturnKeepsAnswers DEF CallStep
<1>8. CASE UNCHANGED vars
  <2>1. live' = live /\ UNCHANGED <<forwards, calls>>
    BY <1>8 DEF vars, live
  <2>2. QED
    BY <2>1, MeetUntouched DEF SinglesHaveNoType, IsGlobal
<1>9. CASE NativeStep
  BY <1>1, <1>2, <1>3, <1>4, <1>9 DEF NativeStep, ForwardCtor, PushParam, PushExec, PushCancel,
         ForwardRemove, Owned
<1>10. CASE EngineStep
  BY <1>4, <1>5, <1>6, <1>10 DEF EngineStep, SameName
<1>11. QED
  BY <1>7, <1>8, <1>9, <1>10 DEF Next

\* Where all plugins are of one adapter, an execution calls the plugins it is
\* meant for, stops at the first Stop its type asks for and returns the highest
\* answer if its type says so, also when a forward is executed inside itself.
THEOREM AnswersAreFolded == EveryAdapterHasAll => (Spec => []AnswersMeetType)
<1> SUFFICES ASSUME EveryAdapterHasAll PROVE Spec => []AnswersMeetType
  OBVIOUS
<1> DEFINE Inv == TypeOK /\ SinglesHaveNoType /\ FramesMeet
<1>1. Init => Inv
  BY InitTypeOK DEF Init, SinglesHaveNoType, FramesMeet, live
<1>2. Inv /\ [Next]_vars => Inv'
  BY StepKeepsType, StepKeepsAnswers
<1>3. Inv => AnswersMeetType
  BY AnswersByFrame DEF AnswersIInv
<1> HIDE DEF Inv
<1>4. QED
  BY <1>1, <1>2, <1>3, PTL DEF Spec
============================================================================
