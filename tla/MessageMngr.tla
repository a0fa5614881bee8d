---------------------------- MODULE MessageMngr ----------------------------
(***************************************************************************)
(* User messages (MessageSystem.cpp, the message functions of              *)
(* engine_api.cpp and MessageNatives.cpp).  A sender, the game or a        *)
(* plugin, begins a message, writes its parameters and ends it.  A blocked *)
(* message is swallowed, a message of a type without hooks goes to the     *)
(* engine as it is written, and a hooked one is collected in the manager's *)
(* one Message object, shown to the pre hooks when it ends, sent unless    *)
(* they refuse it, and shown to the post hooks.  A handler is plugin code: *)
(* it may call every native and so send messages itself, while the one it  *)
(* was called for is still in the manager.                                 *)
(*                                                                         *)
(* A message is its type and parameters; receiver and origin go with the   *)
(* type, but for a null origin.                                            *)
(***************************************************************************)
EXTENDS Integers, Sequences, SequencesExt

CONSTANTS
  Type,          \* message types
  NoType,        \* the content of an int that was never assigned
  Hook,          \* addresses of MessageHook objects
  Value,         \* values of parameters
  MaxParams,     \* bound on the parameters of a message
  MaxDepth,      \* bound on nested messages
  Sends,         \* what becomes of the messages that handlers send
  Senders,       \* "Game", or the call type a plugin gives the MessageBegin native
  Origins,       \* "Given" or "Null": the pOrigin arguments of senders
  Shuffles       \* may a handler add hooks to the type it runs for, or remove them?

ASSUME NoTypeIsNone   == NoType \notin Type
ASSUME MaxParamsIsNat == MaxParams \in Nat
ASSUME MaxDepthIsNat  == MaxDepth \in Nat
ASSUME SendsAreWays   == Sends \subseteq {"Blocked", "Hooked", "Plain", "Direct"}
ASSUME SendersAre     == Senders \subseteq {"Game", "Hookable", "Not_Hookable"}
ASSUME OriginsAre     == Origins \subseteq {"Given", "Null"}
ASSUME ShufflesIsBool == Shuffles \in BOOLEAN

VARIABLES
  blocks,        \* m_blocks: for each type Not, Once or Set
  hooks,         \* m_hooks: for each type the vector of its hooks
  message,       \* m_message
  inHook,        \* m_inhook, which the constructor leaves unset
  inBlock,       \* m_inblock
  msgType,       \* m_msgType
  buffer,        \* the message the engine is being given
  wire,          \* the message the engine sent last
  calls          \* the messages begun and not ended, innermost last

vars == <<blocks, hooks, message, inHook, inBlock, msgType, buffer, wire, calls>>

manager == <<blocks, hooks, message, inHook, inBlock, msgType>>

Kind == {"Pre", "Post"}
MessageHook == [id: Hook, kind: Kind, active: BOOLEAN]
Message == [type: Type \cup {NoType}, params: Seq(Value)]
Empty == [type |-> NoType, params |-> <<>>]

\* What becomes of a message is settled when it begins.  Direct ones are sent
\* by natives past the hooks of all Metamod plugins.
Way == {"Blocked", "Hooked", "Plain", "Direct"}

ReturnValue == {"Ignored", "Stop", "Handled"}

Frame ==
  [type:    Type,
   own:     Seq(Value),              \* what its sender wrote, as rewritten by its handlers
   sender:  {"Game", "Hookable", "Not_Hookable"},
   way:     Way,
   stage:   {"Write"} \cup Kind,     \* being written, or in execHandlers()
   walked:  Type,                    \* the type whose hooks the loop is in
   end:     Nat,                     \* the size of their vector at its start
   at:      Nat,                     \* the hook whose handler runs, 0 for none
   result:  ReturnValue,             \* what the pre hooks answered
   defined: BOOLEAN]                 \* FALSE once undefined behaviour was met

Init ==
  /\ blocks = [t \in Type |-> "Not"]
  /\ hooks = [t \in Type |-> <<>>]
  /\ message = Empty
  /\ inHook \in BOOLEAN
  /\ inBlock = FALSE
  /\ msgType = NoType
  /\ buffer = <<>>
  /\ wire = Empty
  /\ calls = <<>>

Top == calls[Len(calls)]

SetTop(frame) == calls' = [calls EXCEPT ![Len(calls)] = frame]

Pop == calls' = SubSeq(calls, 1, Len(calls) - 1)

Writing == calls # <<>> /\ Top.stage = "Write" /\ Top.defined

HandlerRuns == calls # <<>> /\ Top.at # 0 /\ Top.defined

\* Natives are called by handlers, by the senders of messages and by plugin
\* functions that have nothing to do with messages.
PluginRuns == calls = <<>> \/ HandlerRuns \/ Writing

----------------------------------------------------------------------------
(* Sending.                                                                *)

\* The MessageBegin native turns the call type, 0 for Not_Hookable and 1 for
\* Hookable, into ignoreHooks.
IgnoreHooks(sender) == sender = "Hookable"

\* MessageBegin_Pre gets the message, and nobody begins one before the last is
\* ended: the engine forbids it.
Begin(t, way, sender, origin) ==
  /\ Len(calls) < MaxDepth
  /\ calls = <<>> \/ (HandlerRuns /\ way \in Sends)
  /\ IgnoreHooks(sender) <=> way = "Direct"
  /\ calls' = Append(calls,
       [type |-> t, own |-> <<>>, sender |-> sender, way |-> way, stage |-> "Write",
        walked |-> t, end |-> 0, at |-> 0, result |-> "Ignored",
        defined |-> ~(way = "Hooked" /\ origin = "Null")])

BeginBlockedResets(t, sender, origin) ==     \* mutant: m_inhook is reset for a blocked type
  /\ blocks[t] # "Not"
  /\ Begin(t, "Blocked", sender, origin)
  /\ inBlock' = TRUE
  /\ inHook' = FALSE
  /\ msgType' = t
  /\ UNCHANGED <<blocks, hooks, message, buffer, wire>>

\* MessageBegin() for a blocked type leaves m_inhook as it is.
BeginBlocked(t, sender, origin) ==
  /\ blocks[t] # "Not"
  /\ Begin(t, "Blocked", sender, origin)
  /\ inBlock' = TRUE
  /\ msgType' = t
  /\ UNCHANGED <<blocks, hooks, message, inHook, buffer, wire>>

\* MessageBegin() for a type with hooks: m_message takes over the header, and
\* its origin is read whether there is one or not.
BeginHooked(t, sender, origin) ==
  /\ blocks[t] = "Not" /\ hooks[t] # <<>>
  /\ Begin(t, "Hooked", sender, origin)
  /\ inHook' = TRUE
  /\ message' = [message EXCEPT !.type = t]
  /\ UNCHANGED <<blocks, hooks, inBlock, msgType, buffer, wire>>

\* MessageBegin() otherwise: the engine goes on with the message.
BeginPlain(t, sender, origin) ==
  /\ blocks[t] = "Not" /\ hooks[t] = <<>>
  /\ Begin(t, "Plain", sender, origin)
  /\ inHook' = FALSE
  /\ UNCHANGED <<blocks, hooks, message, inBlock, msgType, buffer, wire>>

\* The MessageBegin native with ignoreHooks: the manager sees nothing of it.
BeginDirect(t, sender, origin) ==
  /\ Begin(t, "Direct", sender, origin)
  /\ UNCHANGED <<manager, buffer, wire>>

\* MessageEnd and the Write natives ask ignoreHooks, which MessageBegin set.
PastHooks == Top.way = "Direct"

\* Where WriteParam() sends a parameter: the block is asked before the hooks.
Destination ==
  IF PastHooks THEN "Engine"
  ELSE IF inBlock THEN "Nowhere"
  ELSE IF inHook THEN "Message"
  ELSE "Engine"

WriteParam(v) ==
  /\ Writing
  /\ Len(Top.own) < MaxParams
  /\ SetTop([Top EXCEPT !.own = Append(@, v)])
  /\ message' = IF Destination = "Message" THEN [message EXCEPT !.params = Append(@, v)] ELSE message
  /\ buffer' = IF Destination = "Engine" THEN Append(buffer, v) ELSE buffer
  /\ UNCHANGED <<blocks, hooks, inHook, inBlock, msgType, wire>>

UnblockedNever(t) == blocks       \* mutant: Once is not reset

\* A block for one message ends with the message.
Unblocked(t) ==
  IF blocks[t] = "Once" THEN [blocks EXCEPT ![t] = "Not"] ELSE blocks

\* MessageEnd() of a blocked message.
EndBlocked ==
  /\ Writing /\ Destination = "Nowhere"
  /\ inBlock' = FALSE
  /\ blocks' = Unblocked(msgType)
  /\ Pop
  /\ UNCHANGED <<hooks, message, inHook, msgType, buffer, wire>>

\* The end of a message that the engine was given as it was written.
EndPlain ==
  /\ Writing /\ Destination = "Engine"
  /\ wire' = [type |-> Top.type, params |-> buffer]
  /\ buffer' = <<>>
  /\ Pop
  /\ UNCHANGED manager

\* The hook that the loop of MessageHooks::exec() calls after the one given, as
\* a set of one, 0 if there is none.
NextHooks(t, kind, after, end) ==
  LET candidates == {i \in after + 1 .. end : hooks[t][i].active /\ hooks[t][i].kind = kind}
  IN  IF candidates = {} THEN {0}
      ELSE {i \in candidates : \A j \in candidates : i <= j}

\* The start of execHandlers(): the hooks are those of the type m_message has.
StartLoop(kind) ==
  LET t == message.type
      n == Len(hooks[t])
  IN  \E next \in NextHooks(t, kind, 0, n) :
        SetTop([Top EXCEPT !.stage = kind, !.walked = t, !.end = n, !.at = next])

\* MessageEnd() of a hooked message, up to the first pre hook.
EndHooked ==
  /\ Writing /\ Destination = "Message"
  /\ StartLoop("Pre")
  /\ UNCHANGED <<manager, buffer, wire>>

NewResultLast(frame, answer) ==           \* mutant: the last answer wins
  IF frame.stage = "Post" THEN frame.result ELSE answer

\* The result after an answer.  Only what the pre hooks answer is used.
NewResult(frame, answer) ==
  IF frame.stage = "Post" \/ answer = "Ignored" THEN frame.result ELSE answer

\* Stop leaves the loop.
NextAfter(answer) ==
  IF answer = "Stop" THEN {0} ELSE NextHooks(Top.walked, Top.stage, Top.at, Top.end)

\* A handler returns.
HandlerReturns(answer) ==
  /\ HandlerRuns
  /\ \E next \in NextAfter(answer) :
       SetTop([Top EXCEPT !.result = NewResult(Top, answer), !.at = next])
  /\ UNCHANGED <<manager, buffer, wire>>

LoopEnded(kind) == calls # <<>> /\ Top.stage = kind /\ Top.at = 0

\* Message::exec(), past the hooks, and then the post hooks.
ExecMessage ==
  /\ LoopEnded("Pre") /\ Top.result = "Ignored"
  /\ wire' = message
  /\ StartLoop("Post")
  /\ UNCHANGED <<manager, buffer>>

ClearedNot == message             \* mutant: clearParams() is not called

\* clearParams()
Cleared == [message EXCEPT !.params = <<>>]

\* The end of MessageEnd().
MessageEnds ==
  /\ LoopEnded("Post") \/ (LoopEnded("Pre") /\ Top.result # "Ignored")
  /\ inHook' = FALSE
  /\ message' = Cleared
  /\ Pop
  /\ UNCHANGED <<blocks, hooks, inBlock, msgType, buffer, wire>>

----------------------------------------------------------------------------
(* Natives.                                                                *)

Registered == UNION {{hook.id : hook \in Range(hooks[t])} : t \in Type}

InWalk(frame, t) == frame.at # 0 /\ frame.walked = t

\* A change to the hooks of type t, which a loop over them does not survive
\* when the vector moves or gets shorter.
HooksChange(t, newHooks, breaks) ==
  /\ PluginRuns
  /\ \A i \in DOMAIN calls : InWalk(calls[i], t) => Shuffles
  /\ hooks' = [hooks EXCEPT ![t] = newHooks]
  /\ calls' = [i \in DOMAIN calls |->
       IF breaks /\ InWalk(calls[i], t) THEN [calls[i] EXCEPT !.defined = FALSE] ELSE calls[i]]
  /\ UNCHANGED <<blocks, message, inHook, inBlock, msgType, buffer, wire>>

\* registerHook(): the vector moves when its capacity is used up.
RegisterHook(t, id, kind) ==
  /\ id \notin Registered
  /\ \E moves \in BOOLEAN :
       HooksChange(t, Append(hooks[t], [id |-> id, kind |-> kind, active |-> TRUE]), moves)

\* unregisterHook(): the hook is found by its address.
UnregisterHook(t, i) == HooksChange(t, RemoveAt(hooks[t], i), TRUE)

\* enable() and disable()
SetActive(t, i, active) ==
  /\ PluginRuns
  /\ hooks[t][i].active # active
  /\ hooks' = [hooks EXCEPT ![t][i].active = active]
  /\ UNCHANGED <<blocks, message, inHook, inBlock, msgType, buffer, wire, calls>>

\* setMessageBlock()
SetMessageBlock(t, block) ==
  /\ PluginRuns
  /\ blocks' = [blocks EXCEPT ![t] = block]
  /\ UNCHANGED <<hooks, message, inHook, inBlock, msgType, buffer, wire, calls>>

\* What GetMsgArgs, GetMsgArgInt and the natives like it answer with: outside a
\* hook, and past the last parameter, they refuse.
MsgArgs == IF inHook THEN message.params ELSE <<>>

\* SetMsgArgInt(), ...Float() and ...String(), called by a handler: refused
\* outside a hook and for an argument the message does not have.
SetMsgArg(i, v) ==
  /\ HandlerRuns
  /\ inHook /\ i \in DOMAIN message.params
  /\ message' = [message EXCEPT !.params[i] = v]
  /\ SetTop([Top EXCEPT !.own = IF i \in DOMAIN @ THEN [@ EXCEPT ![i] = v] ELSE @])
  /\ UNCHANGED <<blocks, hooks, inHook, inBlock, msgType, buffer, wire>>

\* clearMessages(), from ServerDeactivatePost: the blocks stay.
ClearMessages ==
  /\ calls = <<>>
  /\ hooks' = [t \in Type |-> <<>>]
  /\ UNCHANGED <<blocks, message, inHook, inBlock, msgType, buffer, wire, calls>>

----------------------------------------------------------------------------
SenderStep ==
  \/ \E t \in Type, sender \in Senders, origin \in Origins :
       \/ BeginBlocked(t, sender, origin) \/ BeginHooked(t, sender, origin)
       \/ BeginPlain(t, sender, origin)   \/ BeginDirect(t, sender, origin)
  \/ \E v \in Value : WriteParam(v)
  \/ EndBlocked \/ EndPlain \/ EndHooked

HookStep ==
  \/ \E answer \in ReturnValue : HandlerReturns(answer)
  \/ ExecMessage \/ MessageEnds

NativeStep ==
  \/ \E t \in Type :
       \/ \E id \in Hook, kind \in Kind : RegisterHook(t, id, kind)
       \/ \E i \in DOMAIN hooks[t] :
            UnregisterHook(t, i) \/ \E active \in BOOLEAN : SetActive(t, i, active)
       \/ \E block \in {"Not", "Once", "Set"} : SetMessageBlock(t, block)
  \/ \E i \in 1..MaxParams, v \in Value : SetMsgArg(i, v)
  \/ ClearMessages

Next == SenderStep \/ HookStep \/ NativeStep

Spec == Init /\ [][Next]_vars
----------------------------------------------------------------------------
(* Properties.                                                             *)

TypeOK ==
  /\ blocks \in [Type -> {"Not", "Once", "Set"}]
  /\ hooks \in [Type -> Seq(MessageHook)]
  /\ message \in Message /\ wire \in Message
  /\ inHook \in BOOLEAN /\ inBlock \in BOOLEAN
  /\ msgType \in Type \cup {NoType}
  /\ buffer \in Seq(Value)
  /\ calls \in Seq(Frame)
  /\ Len(calls) <= MaxDepth

\* A handler that runs finds its own message in the manager, and the natives
\* that read and change its arguments answer, whatever messages it or another
\* handler of the message has sent before.
HandlersSeeTheirMessage ==
  HandlerRuns => inHook /\ message.type = Top.type /\ MsgArgs = Top.own

\* Nothing of a message is left over for the next: it starts unblocked, with
\* no parameters in the manager and none in the engine.
NothingLeftOver ==
  calls = <<>> => ~inBlock /\ message.params = <<>> /\ buffer = <<>>

\* Why the two above hold when handlers send blocked and direct messages only.
\* Each message but the innermost is suspended in a hook, and only a message
\* that the manager collected can be; the flags are those of the innermost ...
StackIsSound ==
  /\ \A i \in DOMAIN calls :
       /\ calls[i].stage # "Write" => calls[i].way = "Hooked"
       /\ calls[i].stage = "Write" => calls[i].at = 0
       /\ calls[i].way = "Hooked" => message.type \in Type
       /\ i < Len(calls) => calls[i].stage # "Write"
  /\ calls # <<>> /\ Top.way = "Blocked" => inBlock
  /\ calls # <<>> /\ Top.way = "Plain" => ~inHook

\* ... the manager holds the outermost message and no other, and the engine
\* what was written of the innermost.
ManagerHoldsFirst ==
  IF calls # <<>> /\ calls[1].way = "Hooked"
  THEN inHook /\ message = [type |-> calls[1].type, params |-> calls[1].own]
  ELSE message.params = <<>>

EngineHoldsLast ==
  buffer = IF calls # <<>> /\ Top.way \in {"Plain", "Direct"} THEN Top.own ELSE <<>>

NestedPassBy ==
  /\ \A i \in DOMAIN calls :
       /\ i > 1 => calls[i].way \in {"Blocked", "Direct"}
       /\ calls[i].way # "Hooked" => calls[i].result = "Ignored"
  /\ inBlock <=> (calls # <<>> /\ Top.way = "Blocked")
  /\ inBlock => msgType = Top.type

IInv == TypeOK /\ StackIsSound /\ NestedPassBy /\ ManagerHoldsFirst /\ EngineHoldsLast

\* A message of type t that was blocked when it began comes to its end.
BlockedEnds(t) ==
  Len(calls') < Len(calls) /\ Top.way = "Blocked" /\ Top.type = t

\* A block for one message lasts until it has dropped one of that type, a
\* permanent block until it is lifted, also when blocked messages are sent
\* from within hooks of others.
OnceBlocksOne ==
  [][\A t \in Type :
       /\ BlockedEnds(t) => blocks'[t] = IF blocks[t] = "Once" THEN "Not" ELSE blocks[t]
       /\ blocks'[t] # blocks[t] => BlockedEnds(t) \/ calls' = calls]_vars

\* Messages as their senders see them.
Fate(frame) ==
  IF frame.way = "Blocked" \/ frame.result # "Ignored" THEN "Dropped"
  ELSE IF frame.stage = "Post" THEN "Sent"
  ELSE "Open"

Open == [i \in DOMAIN calls |->
          [type |-> calls[i].type, params |-> calls[i].own, fate |-> Fate(calls[i])]]

Relay == INSTANCE MessageRelay WITH open <- Open

\* Each message reaches the engine once, as its sender and its own hooks left
\* it, or is dropped because of a block or a hook.
ImplementsRelay == Relay!Spec

\* No message is begun with an origin that is missing, and no loop over hooks
\* is left with a vector that moved or shrank.
NothingUndefined == \A i \in DOMAIN calls : calls[i].defined

\* The call type of the MessageBegin native says whether hooks see the message.
CallTypeIsObeyed ==
  \A i \in DOMAIN calls :
    /\ calls[i].sender = "Not_Hookable" => calls[i].way = "Direct"
    /\ calls[i].sender = "Hookable" => calls[i].way # "Direct"
============================================================================
