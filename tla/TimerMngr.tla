----------------------------- MODULE TimerMngr -----------------------------
(***************************************************************************)
(* Timers (src/TimerSystem.cpp), the frame that runs them (StartFramePost  *)
(* in src/dllapi.cpp) and the natives through which plugins use them       *)
(* (TimerNatives.cpp of the SourcePawn adapter), with the handle table     *)
(* gTimerHandlers, which is the table of TypeHandler.                      *)
(*                                                                         *)
(* Everything runs on one thread.  execTimers() walks the vector m_timers  *)
(* with an iterator and calls the timers' callbacks on the way; a callback *)
(* is plugin code and may itself create, trigger or remove timers before   *)
(* the walk goes on.  `calls' is the stack of executions: the walk and the *)
(* natives that execute a timer.                                           *)
(*                                                                         *)
(* Time is kept relative: what is stored of m_lastExec is how many frames  *)
(* ago it was, and of m_nextExecution how many frames it is away.          *)
(***************************************************************************)
EXTENDS TypeHandler, SequencesExt

CONSTANTS
  Interval,      \* intervals in use, in frames
  Period,        \* frames in the 0.1 seconds between two walks
  MaxElapsed,    \* bound on the time since a timer ran
  MapLength,     \* bound on how far m_nextExecution is away on a new map
  MaxDepth,      \* bound on nested executions
  InCallback     \* what callbacks do to the registry, out of
                 \*   "Create"  they create timers,
                 \*   "Room"    they create timers while m_timers has room for them,
                 \*   "Erase"   they remove timers,
                 \*   "Later"   they remove timers that the walk has yet to come to

ASSUME IntervalsArePos == Interval \subseteq Nat \ {0}
ASSUME PeriodIsPos     == Period \in Nat \ {0}
ASSUME BoundsAreNat    == MaxElapsed \in Nat /\ MapLength \in Nat /\ MaxDepth \in Nat \ {0}
ASSUME ElapsedFits     == \A i \in Interval : i + Period <= MaxElapsed

VARIABLES
  timers,        \* m_timers: sequence of addresses
  capacity,      \* capacity() of the vector
  fields,        \* the objects at these addresses
  cooldown,      \* m_nextExecution, relative to gpGlobals->time
  calls          \* stack of executions, innermost last

vars == <<timers, capacity, fields, cooldown, calls, handlers, freeIds>>
registry == <<timers, capacity, fields>>

\* gTimerHandlers: a TypeHandler<Timer>, into which a native puts nullptr when
\* it is given an interval that is not positive.
Timer == Object
BadInterval == CreatesNull

Registered == Range(timers)

TimerObject == [interval: Interval, paused: BOOLEAN, elapsed: 0..MaxElapsed]

\* An execution: execTimers() with its iterator, the Trigger native with the
\* handle it was given, or the constructor native.  `timer' is the timer whose
\* callback runs, NULL while the walk is between two callbacks.
Frame ==
  [kind: {"walk", "trigger", "ctor"}, timer: Timer \cup {NULL},
   at: Nat, id: -1..MaxIds-1, valid: BOOLEAN]

Init ==
  /\ timers = <<>> /\ capacity = 0
  /\ fields = [t \in {} |-> {}]
  /\ cooldown = 0
  /\ calls = <<>>
  /\ TableInit

----------------------------------------------------------------------------
Top == calls[Len(calls)]

Pop == SubSeq(calls, 1, Len(calls) - 1)

\* Plugin code runs inside a callback, or on an event of its own.
PluginRuns == calls # <<>> => Top.timer # NULL

Executing(t) == \E k \in DOMAIN calls : calls[k].timer = t

\* The walk under way, if there is one, has yet to come to t.
Ahead(t) ==
  \A k \in DOMAIN calls :
    calls[k].kind = "walk" => \A i \in DOMAIN timers : timers[i] = t => calls[k].at < i

\* erase(): the object is destroyed and the later elements move up.
EraseAt(i) ==
  /\ timers' = RemoveAt(timers, i)
  /\ fields' = [t \in Registered \ {timers[i]} |-> fields[t]]
  /\ UNCHANGED capacity

\* removeTimer(): by address, nothing if no such timer is registered.
RemoveTimer(t) ==
  IF t \in Registered
  THEN EraseAt(CHOOSE i \in DOMAIN timers : timers[i] = t)
  ELSE UNCHANGED registry

\* emplace_back(): a full vector moves to a larger buffer.
Grown == IF Len(timers) < capacity THEN capacity ELSE 2 * capacity + 1

\* What callbacks may do to the registry; on events of their own plugins may do
\* anything.
MayCreate ==
  calls # <<>> => "Create" \in InCallback \/ ("Room" \in InCallback /\ Grown = capacity)

MayErase(t) ==
  calls # <<>> => "Erase" \in InCallback \/ ("Later" \in InCallback /\ Ahead(t))

\* createTimer() with a valid interval; m_lastExec is the current time.
CreateTimer(t, i, pause) ==
  /\ t \notin Registered
  /\ timers' = Append(timers, t)
  /\ capacity' = Grown
  /\ fields' = [u \in Registered \cup {t} |->
                  IF u = t THEN [interval |-> i, paused |-> pause, elapsed |-> 0]
                  ELSE fields[u]]

\* Iterators do not survive a move of the vector.
Moved(stack) ==
  IF Grown = capacity THEN stack
  ELSE [k \in DOMAIN stack |-> [stack[k] EXCEPT !.valid = @ /\ stack[k].kind # "walk"]]

ExecutedLate(t) == fields          \* mutant: m_lastExec is not refreshed

\* Timer::exec() up to the call of m_callback.
Executed(t) == [fields EXCEPT ![t].elapsed = 0]

----------------------------------------------------------------------------
(* The frame.                                                              *)

Due(t) ==
  /\ t \in Registered
  /\ ~fields[t].paused
  /\ fields[t].elapsed >= fields[t].interval

Aged(n) == IF n < MaxElapsed THEN n + 1 ELSE n

Walk(i) == [kind |-> "walk", timer |-> NULL, at |-> i, id |-> -1, valid |-> TRUE]

\* Time passes and StartFramePost() starts a walk if it is time for one.
StartFrame ==
  /\ calls = <<>>
  /\ fields' = [t \in Registered |-> [fields[t] EXCEPT !.elapsed = Aged(@)]]
  /\ IF cooldown <= 1
     THEN cooldown' = Period /\ calls' = <<Walk(1)>>
     ELSE cooldown' = cooldown - 1 /\ UNCHANGED calls
  /\ UNCHANGED <<timers, capacity, tableVars>>

\* The walk is between two callbacks and its iterator can be used.
Walking == calls # <<>> /\ Top.kind = "walk" /\ Top.timer = NULL /\ Top.valid

WalkSkips ==
  /\ Walking /\ Top.at <= Len(timers) /\ ~Due(timers[Top.at])
  /\ calls' = [calls EXCEPT ![Len(calls)].at = @ + 1]
  /\ UNCHANGED <<registry, cooldown, tableVars>>

WalkExecutes ==
  /\ Walking /\ Top.at <= Len(timers) /\ Due(timers[Top.at])
  /\ fields' = Executed(timers[Top.at])
  /\ calls' = [calls EXCEPT ![Len(calls)].timer = timers[Top.at]]
  /\ UNCHANGED <<timers, capacity, cooldown, tableVars>>

WalkEndsEarly ==                   \* mutant: the walk may stop before the last
  /\ Walking /\ Top.at >= Len(timers)
  /\ calls' = Pop
  /\ UNCHANGED <<registry, cooldown, tableVars>>

WalkEnds ==
  /\ Walking /\ Top.at = Len(timers) + 1
  /\ calls' = Pop
  /\ UNCHANGED <<registry, cooldown, tableVars>>

AfterCallbackSkips(keep) ==        \* mutant: the iterator advances past erase()
  /\ calls' = Pop \o <<Walk(Top.at + 1)>>
  /\ IF keep THEN UNCHANGED registry ELSE EraseAt(Top.at)

\* The walk after a callback: false erases what the iterator points to.
AfterCallback(keep) ==
  IF keep
  THEN calls' = Pop \o <<Walk(Top.at + 1)>> /\ UNCHANGED registry
  ELSE calls' = Pop \o <<Walk(Top.at)>> /\ EraseAt(Top.at)

WalkReturns(keep) ==
  /\ Top.kind = "walk" /\ Top.valid
  /\ Top.at <= Len(timers)
  /\ AfterCallback(keep)
  /\ UNCHANGED <<cooldown, tableVars>>

TriggerReturnsForgets(keep) ==     \* mutant: the timer itself is not removed
  /\ Top.kind = "trigger"
  /\ calls' = Pop
  /\ IF keep \/ ~CanFree(Top.id) THEN UNCHANGED tableVars ELSE Free(Top.id)
  /\ UNCHANGED <<registry, cooldown>>

\* The Trigger native after exec(): false removes the timer and frees the
\* handle.
TriggerReturns(keep) ==
  /\ Top.kind = "trigger"
  /\ calls' = Pop
  /\ IF keep \/ ~CanFree(Top.id) THEN UNCHANGED tableVars ELSE Free(Top.id)
  /\ IF keep THEN UNCHANGED registry ELSE RemoveTimer(Top.timer)
  /\ UNCHANGED cooldown

\* The constructor native after exec(): the handle is made only now.
CtorReturns(keep) ==
  /\ Top.kind = "ctor"
  /\ calls' = Pop
  /\ IF keep THEN UNCHANGED registry /\ Create(Top.timer)
             ELSE RemoveTimer(Top.timer) /\ UNCHANGED tableVars
  /\ UNCHANGED cooldown

\* The innermost callback returns whether its timer goes on; anything but
\* PluginStop, and a function that cannot run, means it does.  An execution
\* inside a callback that answers no erases a timer from there, which no other
\* execution may be using.
CallbackReturns(keep) ==
  /\ calls # <<>> /\ Top.timer # NULL
  /\ ~keep /\ Len(calls) > 1 =>
       /\ MayErase(Top.timer)
       /\ "Erase" \in InCallback \/ \A k \in 1..Len(calls)-1 : calls[k].timer # Top.timer
  /\ WalkReturns(keep) \/ TriggerReturns(keep) \/ CtorReturns(keep)

----------------------------------------------------------------------------
(* The natives.                                                            *)

\* TimerCtor; `exec' runs the callback before the handle exists.
TimerCtor(t, i, exec, pause) ==
  /\ PluginRuns /\ MayCreate
  /\ CreateTimer(t, i, pause)
  /\ IF exec
     THEN /\ Len(calls) < MaxDepth
          /\ calls' = Append(Moved(calls), [Walk(0) EXCEPT !.kind = "ctor", !.timer = t])
          /\ UNCHANGED tableVars
     ELSE calls' = Moved(calls) /\ Create(t)
  /\ UNCHANGED cooldown

\* TimerCtor with an interval that is not positive: Timer's constructor throws,
\* createTimer() answers nullptr, and that is registered.  (With exec it is
\* dereferenced instead.)
TimerCtorBad ==
  /\ BadInterval /\ PluginRuns
  /\ Create(NULL)
  /\ UNCHANGED <<registry, cooldown, calls>>

\* A native on a handle whose object is registered.  Through any other non-null
\* entry memory that was freed is used; no behaviour is continued past that.
On(id) == PluginRuns /\ Get(id) \in Registered

\* setPause() delays an unpaused timer by its interval.
PauseSet(id, pause) ==
  /\ On(id)
  /\ LET t == handlers[id]
     IN  fields' = [fields EXCEPT ![t].paused = pause,
                                  ![t].elapsed = IF pause THEN fields[t].elapsed ELSE 0]
  /\ UNCHANGED <<timers, capacity, cooldown, calls, tableVars>>

IntervalSet(id, i) ==
  /\ On(id)
  /\ fields' = [fields EXCEPT ![handlers[id]] = [@ EXCEPT !.interval = i, !.elapsed = 0]]
  /\ UNCHANGED <<timers, capacity, cooldown, calls, tableVars>>

Trigger(id) ==
  /\ On(id)
  /\ Len(calls) < MaxDepth
  /\ fields' = Executed(handlers[id])
  /\ calls' = Append(calls, [Walk(0) EXCEPT !.kind = "trigger", !.timer = handlers[id], !.id = id])
  /\ UNCHANGED <<timers, capacity, cooldown, tableVars>>

\* The Remove native: the pointer is compared, never followed.
RemoveHandle(id) ==
  /\ PluginRuns /\ MayErase(handlers[id])
  /\ "Erase" \in InCallback \/ ~Executing(handlers[id])
  /\ Free(id)
  /\ RemoveTimer(handlers[id])
  /\ UNCHANGED <<cooldown, calls>>

\* ServerDeactivatePost: clearTimers(), and the adapter with its handles is
\* unloaded.  gpGlobals->time starts again; m_nextExecution does not.
ChangeMap ==
  /\ calls = <<>>
  /\ timers' = <<>> /\ UNCHANGED capacity
  /\ fields' = [t \in {} |-> {}]
  /\ cooldown' \in 0..MapLength
  /\ Clear
  /\ UNCHANGED calls

NativeStep ==
  \/ \E t \in Timer, i \in Interval, exec, pause \in BOOLEAN : TimerCtor(t, i, exec, pause)
  \/ TimerCtorBad
  \/ \E id \in Ids :
       \/ \E pause \in BOOLEAN : PauseSet(id, pause)
       \/ \E i \in Interval : IntervalSet(id, i)
       \/ Trigger(id)
       \/ RemoveHandle(id)

WalkStep == WalkSkips \/ WalkExecutes \/ WalkEnds

Next ==
  \/ StartFrame \/ WalkStep \/ ChangeMap
  \/ \E keep \in BOOLEAN : CallbackReturns(keep)
  \/ NativeStep

Spec == Init /\ [][Next]_vars

\* The engine keeps running frames, a walk goes on, and every callback, being a
\* finite computation, returns, however many executions it nests.
Fairness ==
  /\ SF_vars(StartFrame)
  /\ WF_vars(WalkStep)
  /\ \A d \in 1..MaxDepth :
       SF_vars(Len(calls) = d /\ \E keep \in BOOLEAN : CallbackReturns(keep))

FairSpec == Spec /\ Fairness

----------------------------------------------------------------------------
(* Properties.                                                             *)

TypeOK ==
  /\ timers \in Seq(Timer) /\ IsInjective(timers)
  /\ capacity \in Nat /\ Len(timers) <= capacity
  /\ fields \in [Registered -> TimerObject]
  /\ cooldown \in 0..(IF Period > MapLength THEN Period ELSE MapLength)
  /\ calls \in Seq(Frame) /\ Len(calls) <= MaxDepth
  /\ \A k \in DOMAIN calls : calls[k].kind = "walk" <=> k = 1 /\ calls[k].at > 0
  /\ TableTypeOK

\* The iterator of execTimers() stays on the timer whose callback it called,
\* while callbacks create timers that m_timers has room for and remove timers
\* that the walk has yet to come to, and the registry stays well formed.
IteratorHolds ==
  /\ TypeOK
  /\ \A k \in DOMAIN calls :
       calls[k].kind = "walk" =>
         /\ calls[k].valid
         /\ calls[k].at <= Len(timers) + 1
         /\ calls[k].timer # NULL => calls[k].at <= Len(timers) /\ timers[calls[k].at] = calls[k].timer

\* A walk leaves no timer behind that is due, and so runs none twice: what
\* callbacks pause, trigger or give another interval does not disturb it.
ServedBehind ==
  \A k \in DOMAIN calls :
    LET walk == calls[k]
    IN  walk.kind = "walk" =>
          \A i \in DOMAIN timers :
            i < walk.at \/ (i = walk.at /\ walk.timer # NULL) => ~Due(timers[i])

\* Between frames no timer is overdue by the time between two walks or more.
Punctual ==
  calls = <<>> =>
    \A t \in Registered :
      ~fields[t].paused => fields[t].elapsed < fields[t].interval + Period

\* Timers run when they should: no walk passes one that is due, and between
\* frames none is late by more than the time between two walks.
ServedInTime == ServedBehind /\ Punctual

\* A timer that is registered can be reached: the plugin that made it has a
\* handle to it, unless its constructor is still executing it.
TimersHaveHandles ==
  \A t \in Registered :
    \/ \E id \in Ids : handlers[id] = t
    \/ \E k \in DOMAIN calls : calls[k].kind = "ctor" /\ calls[k].timer = t

\* A handle that the natives accept stands for a registered timer.
HandlesAreLive ==
  \A id \in Ids : handlers[id] \in Registered \cup {NULL}

\* A null entry of gTimerHandlers is one that was freed.
NoNullTimer == NoLostId

\* A timer that is due does not stay due for ever.
DueIsServed == \A t \in Timer : Due(t) ~> ~Due(t)

----------------------------------------------------------------------------
(* What the proofs rest on.                                                *)

\* Whether or not the iterator survives, the walk is where it was.
WalkStays ==
  \A k \in DOMAIN calls :
    calls[k].kind = "walk" =>
      /\ calls[k].at <= Len(timers) + 1
      /\ calls[k].timer # NULL => calls[k].at <= Len(timers) /\ timers[calls[k].at] = calls[k].timer

\* Until the next walk begins, no timer is overdue by more than has passed
\* since the last one.
WaitsFit ==
  (\A k \in DOMAIN calls : calls[k].kind # "walk") =>
    \A t \in Registered :
      ~fields[t].paused => fields[t].elapsed + cooldown < fields[t].interval + Period

\* While Trigger executes a timer, its handle stays that of the timer.
TriggersHold ==
  \A k \in DOMAIN calls :
    calls[k].kind = "trigger" =>
      calls[k].id \in Ids /\ calls[k].timer # NULL /\ handlers[calls[k].id] = calls[k].timer

IInv ==
  /\ TypeOK /\ FreeIdsAreFree
  /\ WalkStays /\ ServedBehind /\ WaitsFit /\ TriggersHold /\ TimersHaveHandles
============================================================================
