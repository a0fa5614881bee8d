------------------------- MODULE MessageMngr_proofs -------------------------
(***************************************************************************)
(* Proofs about the message manager, for any types, hooks, values, senders *)
(* and depth of nesting.  Type correctness needs no assumption.  That      *)
(* handlers see their own message, that nothing is left over, that blocks  *)
(* are spent once and that the manager implements MessageRelay is proved   *)
(* for handlers that send blocked and direct messages only: with others,   *)
(* TLC shows the first and the last to fail.                               *)
(***************************************************************************)
EXTENDS MessageMngr, SequenceTheorems, TLAPS

PassingBy == Sends \subseteq {"Blocked", "Direct"}

----------------------------------------------------------------------------
(* The stack of open messages.                                             *)

\* A message that begins is put on top of the others, and those below it wait
\* for a handler.
LEMMA BeginEffect ==
  ASSUME TypeOK, NEW t \in Type, NEW way \in Way, NEW sender \in Senders, NEW origin \in Origins,
         Begin(t, way, sender, origin)
  PROVE  /\ calls' \in Seq(Frame) /\ Len(calls') = Len(calls) + 1 /\ Len(calls') <= MaxDepth
         /\ calls' # <<>> /\ Top' = calls'[Len(calls) + 1]
         /\ Top'.type = t /\ Top'.own = <<>> /\ Top'.way = way /\ Top'.stage = "Write"
         /\ Top'.at = 0 /\ Top'.result = "Ignored"
         /\ \A i \in DOMAIN calls : calls'[i] = calls[i]
         /\ calls # <<>> => HandlerRuns /\ way \in Sends
<1> DEFINE frame == [type |-> t, own |-> <<>>, sender |-> sender, way |-> way, stage |-> "Write",
                     walked |-> t, end |-> 0, at |-> 0, result |-> "Ignored",
                     defined |-> ~(way = "Hooked" /\ origin = "Null")]
<1>1. frame \in Frame
  BY SendersAre DEF Frame, Way, ReturnValue, Kind
<1>2. calls' = Append(calls, frame)
  BY DEF Begin
<1>3. calls \in Seq(Frame) /\ Len(calls) \in Nat
  BY DEF TypeOK
<1>4. /\ calls' \in Seq(Frame) /\ Len(calls') = Len(calls) + 1
      /\ calls'[Len(calls) + 1] = frame
      /\ \A i \in DOMAIN calls : calls'[i] = calls[i]
  <2> HIDE DEF frame
  <2>1. QED
    BY <1>1, <1>2, <1>3, AppendProperties
<1>5. Top' = frame /\ calls' # <<>>
  <2> HIDE DEF frame
  <2>1. QED
    BY <1>3, <1>4 DEF Top
<1>6. Len(calls') <= MaxDepth
  BY <1>3, <1>4, MaxDepthIsNat DEF Begin
<1>7. calls # <<>> => HandlerRuns /\ way \in Sends
  BY DEF Begin
<1>8. QED
  BY <1>4, <1>5, <1>6, <1>7

\* Replacing the innermost message.
LEMMA SetTopEffect ==
  ASSUME TypeOK, calls # <<>>, NEW frame \in Frame, SetTop(frame)
  PROVE  /\ calls' \in Seq(Frame) /\ Len(calls') = Len(calls) /\ calls' # <<>>
         /\ DOMAIN calls' = DOMAIN calls
         /\ Top' = frame /\ Len(calls) \in DOMAIN calls
         /\ \A i \in DOMAIN calls : i # Len(calls) => calls'[i] = calls[i]
<1>1. Len(calls) \in DOMAIN calls /\ calls \in Seq(Frame)
  BY DEF TypeOK
<1>2. calls' = [calls EXCEPT ![Len(calls)] = frame]
  BY DEF SetTop
<1>3. calls' \in Seq(Frame) /\ Len(calls') = Len(calls) /\ calls' # <<>>
  BY <1>1, <1>2
<1>4. QED
  BY <1>1, <1>2, <1>3 DEF Top

\* Ending the innermost message.
LEMMA PopEffect ==
  ASSUME TypeOK, calls # <<>>, Pop
  PROVE  /\ calls' \in Seq(Frame) /\ Len(calls') = Len(calls) - 1
         /\ \A i \in DOMAIN calls' : i \in DOMAIN calls /\ i < Len(calls) /\ calls'[i] = calls[i]
         /\ calls' # <<>> => Top' = calls[Len(calls) - 1] /\ Len(calls) - 1 \in DOMAIN calls'
<1>1. calls \in Seq(Frame) /\ Len(calls) \in Nat \ {0} /\ Len(calls) - 1 \in Nat
  BY DEF TypeOK
<1>2. calls' = SubSeq(calls, 1, Len(calls) - 1)
  BY DEF Pop
<1>3. ASSUME NEW n \in Nat, n = Len(calls) - 1
      PROVE  Len(SubSeq(calls, 1, n)) = n
  BY <1>1, <1>3
<1>4. calls' \in Seq(Frame) /\ Len(calls') = Len(calls) - 1
  <2>1. SubSeq(calls, 1, Len(calls) - 1) \in Seq(Frame)
    BY <1>1
  <2>2. QED
    BY <1>1, <1>2, <1>3, <2>1
<1>5. \A i \in 1..Len(calls) - 1 : calls'[i] = calls[i]
  BY <1>1, <1>2
<1>6. QED
  BY <1>1, <1>4, <1>5 DEF Top

\* The innermost message has the type of a message.
LEMMA TopType ==
  ASSUME TypeOK, calls # <<>>
  PROVE  Top \in Frame /\ Len(calls) \in DOMAIN calls /\ Top = calls[Len(calls)]
BY DEF TypeOK, Top

\* A change of hooks leaves the open messages alone, but may make the rest of
\* a loop undefined.
LEMMA HooksChangeEffect ==
  ASSUME TypeOK, NEW t \in Type, NEW newHooks \in Seq(MessageHook), NEW breaks \in BOOLEAN,
         HooksChange(t, newHooks, breaks)
  PROVE  /\ calls' \in Seq(Frame) /\ Len(calls') = Len(calls) /\ DOMAIN calls' = DOMAIN calls
         /\ (calls' = <<>> <=> calls = <<>>)
         /\ hooks' \in [Type -> Seq(MessageHook)]
         /\ \A i \in DOMAIN calls :
              \E d \in BOOLEAN : calls'[i] = [calls[i] EXCEPT !.defined = d]
<1>1. hooks' \in [Type -> Seq(MessageHook)]
  BY DEF HooksChange, TypeOK
<1>2. calls \in Seq(Frame)
  BY DEF TypeOK
<1>3. calls' = [i \in 1..Len(calls) |->
                 IF breaks /\ InWalk(calls[i], t) THEN [calls[i] EXCEPT !.defined = FALSE] ELSE calls[i]]
  BY <1>2 DEF HooksChange
<1>4. \A i \in 1..Len(calls) :
        /\ calls[i] \in Frame /\ calls'[i] \in Frame
        /\ calls'[i] = [calls[i] EXCEPT !.defined = FALSE] \/ calls'[i] = calls[i]
  <2>1. \A f \in Frame : [f EXCEPT !.defined = FALSE] \in Frame
    BY DEF Frame
  <2>2. QED
    BY <1>2, <1>3, <2>1
<1>5. \A f \in Frame : f = [f EXCEPT !.defined = f.defined] /\ f.defined \in BOOLEAN
  BY DEF Frame
<1>6. calls' \in Seq(Frame) /\ Len(calls') = Len(calls)
  <2>1. calls' \in [1..Len(calls) -> Frame]
    BY <1>3, <1>4
  <2>2. QED
    BY <1>2, <2>1
<1>7. \A i \in DOMAIN calls : \E d \in BOOLEAN : calls'[i] = [calls[i] EXCEPT !.defined = d]
  <2> SUFFICES ASSUME NEW i \in DOMAIN calls
               PROVE  \E d \in BOOLEAN : calls'[i] = [calls[i] EXCEPT !.defined = d]
    OBVIOUS
  <2>1. i \in 1..Len(calls) /\ calls[i] \in Frame
    BY <1>2
  <2>2. CASE calls'[i] = [calls[i] EXCEPT !.defined = FALSE]
    BY <2>2
  <2>3. CASE calls'[i] = calls[i]
    <3>1. calls'[i] = [calls[i] EXCEPT !.defined = calls[i].defined] /\ calls[i].defined \in BOOLEAN
      BY <1>5, <2>1, <2>3
    <3>2. QED
      BY <3>1
  <2>4. QED
    BY <1>4, <2>1, <2>2, <2>3
<1>8. QED
  BY <1>1, <1>2, <1>6, <1>7
----------------------------------------------------------------------------
(* Type correctness.                                                       *)

\* A message that begins keeps the stack sound if the flags are set for it.
LEMMA BeginKeepsSound ==
  ASSUME TypeOK, StackIsSound,
         NEW t \in Type, NEW way \in Way, NEW sender \in Senders, NEW origin \in Origins,
         Begin(t, way, sender, origin),
         message.type \in Type \/ way = "Hooked" => message'.type \in Type,
         way = "Blocked" => inBlock', way = "Plain" => ~inHook'
  PROVE  StackIsSound'
<1>1. /\ calls' \in Seq(Frame) /\ Len(calls') = Len(calls) + 1 /\ calls' # <<>>
      /\ Top' = calls'[Len(calls) + 1] /\ Top'.way = way /\ Top'.stage = "Write" /\ Top'.at = 0
      /\ \A i \in DOMAIN calls : calls'[i] = calls[i]
      /\ calls # <<>> => HandlerRuns
  BY BeginEffect
<1>2. calls \in Seq(Frame) /\ Len(calls) \in Nat
  BY DEF TypeOK
<1>3. ASSUME NEW i \in DOMAIN calls'
      PROVE  i \in DOMAIN calls \/ i = Len(calls')
  BY <1>1, <1>2
<1>4. \A i \in DOMAIN calls : calls[i].stage # "Write"
  <2>1. calls # <<>> => Top.stage # "Write"
    BY <1>1, TopType DEF StackIsSound, HandlerRuns
  <2>2. \A i \in DOMAIN calls : i < Len(calls) \/ i = Len(calls)
    BY <1>2
  <2>3. QED
    BY <2>1, <2>2, <1>2 DEF StackIsSound, Top
<1>5. ASSUME NEW i \in DOMAIN calls'
      PROVE  /\ calls'[i].stage # "Write" => calls'[i].way = "Hooked"
             /\ calls'[i].stage = "Write" => calls'[i].at = 0
             /\ calls'[i].way = "Hooked" => message'.type \in Type
             /\ i < Len(calls') => calls'[i].stage # "Write"
  <2>1. CASE i \in DOMAIN calls
    BY <1>1, <1>4, <2>1 DEF StackIsSound
  <2>2. CASE i = Len(calls')
    BY <1>1, <1>2, <2>2
  <2>3. QED
    BY <1>3, <2>1, <2>2
<1>6. QED
  BY <1>1, <1>5 DEF StackIsSound

\* So does a change of the innermost message ...
LEMMA SetTopKeepsSound ==
  ASSUME TypeOK, StackIsSound, calls # <<>>, NEW frame \in Frame, SetTop(frame),
         frame.way = Top.way,
         frame.stage # "Write" => frame.way = "Hooked",
         frame.stage = "Write" => frame.at = 0,
         message'.type = message.type, UNCHANGED <<inHook, inBlock>>
  PROVE  StackIsSound'
<1>1. /\ calls' \in Seq(Frame) /\ Len(calls') = Len(calls) /\ calls' # <<>>
      /\ DOMAIN calls' = DOMAIN calls /\ Top' = frame /\ Len(calls) \in DOMAIN calls
      /\ \A i \in DOMAIN calls : i # Len(calls) => calls'[i] = calls[i]
  BY SetTopEffect
<1>2. Top = calls[Len(calls)] /\ Top' = calls'[Len(calls)]
  BY <1>1 DEF Top
<1>3. ASSUME NEW i \in DOMAIN calls'
      PROVE  /\ calls'[i].stage # "Write" => calls'[i].way = "Hooked"
             /\ calls'[i].stage = "Write" => calls'[i].at = 0
             /\ calls'[i].way = "Hooked" => message'.type \in Type
             /\ i < Len(calls') => calls'[i].stage # "Write"
  <2>1. CASE i # Len(calls)
    BY <1>1, <2>1 DEF StackIsSound
  <2>2. CASE i = Len(calls)
    <3>1. calls'[i] = frame /\ ~(i < Len(calls'))
      BY <1>1, <1>2, <2>2 DEF TypeOK
    <3>2. frame.way = "Hooked" => message.type \in Type
      BY <1>1, <1>2 DEF StackIsSound
    <3>3. QED
      BY <3>1, <3>2
  <2>3. QED
    BY <2>1, <2>2
<1>4. QED
  BY <1>1, <1>3 DEF StackIsSound

\* ... and the end of it, as the next waits for a handler.
LEMMA PopKeepsSound ==
  ASSUME TypeOK, StackIsSound, calls # <<>>, Pop, message'.type = message.type
  PROVE  StackIsSound'
<1>1. /\ calls' \in Seq(Frame) /\ Len(calls') = Len(calls) - 1
      /\ \A i \in DOMAIN calls' : i \in DOMAIN calls /\ i < Len(calls) /\ calls'[i] = calls[i]
      /\ calls' # <<>> => Top' = calls[Len(calls) - 1] /\ Len(calls) - 1 \in DOMAIN calls'
  BY PopEffect
<1>2. \A i \in DOMAIN calls' :
        /\ calls'[i].stage # "Write" /\ calls'[i].way = "Hooked"
        /\ message'.type \in Type
  BY <1>1 DEF StackIsSound
<1>3. calls' # <<>> => Top'.way = "Hooked"
  BY <1>1, <1>2
<1>4. QED
  BY <1>2, <1>3 DEF StackIsSound

\* MessageBegin() keeps the state well typed.
LEMMA BeginsKeepType ==
  ASSUME TypeOK, StackIsSound, NEW t \in Type, NEW sender \in Senders, NEW origin \in Origins,
         \/ BeginBlocked(t, sender, origin) \/ BeginHooked(t, sender, origin)
         \/ BeginPlain(t, sender, origin)   \/ BeginDirect(t, sender, origin)
  PROVE  TypeOK' /\ StackIsSound'
<1>1. CASE BeginBlocked(t, sender, origin)
  <2>1. Begin(t, "Blocked", sender, origin) /\ "Blocked" \in Way /\ inBlock'
        /\ message' = message
    BY <1>1 DEF BeginBlocked, Way
  <2>2. calls' \in Seq(Frame) /\ Len(calls') <= MaxDepth
    BY <2>1, BeginEffect
  <2>3. StackIsSound'
    BY <2>1, BeginKeepsSound
  <2>4. QED
    BY <1>1, <2>2, <2>3 DEF BeginBlocked, TypeOK
<1>2. CASE BeginHooked(t, sender, origin)
  <2>1. /\ Begin(t, "Hooked", sender, origin) /\ "Hooked" \in Way
        /\ message' = [message EXCEPT !.type = t]
    BY <1>2 DEF BeginHooked, Way
  <2>2. message' \in Message /\ message'.type = t
    BY <2>1 DEF TypeOK, Message
  <2>3. calls' \in Seq(Frame) /\ Len(calls') <= MaxDepth
    BY <2>1, BeginEffect
  <2>4. StackIsSound'
    BY <2>1, <2>2, BeginKeepsSound
  <2>5. QED
    BY <1>2, <2>2, <2>3, <2>4 DEF BeginHooked, TypeOK
<1>3. CASE BeginPlain(t, sender, origin)
  <2>1. /\ Begin(t, "Plain", sender, origin) /\ "Plain" \in Way /\ ~inHook'
        /\ message' = message
    BY <1>3 DEF BeginPlain, Way
  <2>2. calls' \in Seq(Frame) /\ Len(calls') <= MaxDepth
    BY <2>1, BeginEffect
  <2>3. StackIsSound'
    BY <2>1, BeginKeepsSound
  <2>4. QED
    BY <1>3, <2>2, <2>3 DEF BeginPlain, TypeOK
<1>4. CASE BeginDirect(t, sender, origin)
  <2>1. Begin(t, "Direct", sender, origin) /\ "Direct" \in Way /\ message' = message
    BY <1>4 DEF BeginDirect, Way, manager
  <2>2. calls' \in Seq(Frame) /\ Len(calls') <= MaxDepth
    BY <2>1, BeginEffect
  <2>3. StackIsSound'
    BY <2>1, BeginKeepsSound
  <2>4. QED
    BY <1>4, <2>2, <2>3 DEF BeginDirect, TypeOK, manager
<1>5. QED
  BY <1>1, <1>2, <1>3, <1>4

\* The loop of MessageHooks::exec() goes to hooks by their position.
LEMMA NextHooksType ==
  ASSUME NEW t, NEW kind, NEW after \in Nat, NEW end \in Nat
  PROVE  NextHooks(t, kind, after, end) \subseteq Nat
BY DEF NextHooks

\* execHandlers() starts with the hooks of a type.
LEMMA StartLoopEffect ==
  ASSUME TypeOK, calls # <<>>, message.type \in Type, NEW kind \in Kind, StartLoop(kind)
  PROVE  \E frame \in Frame :
           /\ SetTop(frame)
           /\ frame.stage = kind /\ frame.way = Top.way /\ frame.type = Top.type
           /\ frame.own = Top.own /\ frame.result = Top.result
<1> DEFINE n == Len(hooks[message.type])
           frame(next) == [Top EXCEPT !.stage = kind, !.walked = message.type, !.end = n, !.at = next]
<1>1. n \in Nat
  BY DEF TypeOK
<1>2. PICK next \in NextHooks(message.type, kind, 0, n) : SetTop(frame(next))
  BY DEF StartLoop
<1>3. next \in Nat
  BY <1>1, <1>2, NextHooksType
<1>4. frame(next) \in Frame /\ frame(next).stage = kind /\ frame(next).way = Top.way
      /\ frame(next).type = Top.type /\ frame(next).own = Top.own /\ frame(next).result = Top.result
  BY <1>1, <1>3, TopType DEF Frame
<1>5. QED
  BY <1>2, <1>4

\* WriteParam() puts a parameter in one place at most.
LEMMA WriteKeepsType ==
  ASSUME TypeOK, StackIsSound, NEW v \in Value, WriteParam(v)
  PROVE  TypeOK' /\ StackIsSound'
<1> DEFINE frame == [Top EXCEPT !.own = Append(@, v)]
<1>1. calls # <<>> /\ Top.stage = "Write" /\ SetTop(frame) /\ Top \in Frame /\ Top.at = 0
  BY TopType DEF WriteParam, Writing, StackIsSound
<1>2. frame \in Frame /\ frame.way = Top.way /\ frame.stage = "Write" /\ frame.at = 0
  BY <1>1 DEF Frame
<1>3. message' \in Message /\ message'.type = message.type /\ buffer' \in Seq(Value)
  <2>1. [message EXCEPT !.params = Append(@, v)] \in Message
        /\ [message EXCEPT !.params = Append(@, v)].type = message.type
    <3>1. message \in Message
      BY DEF TypeOK
    <3>2. message.params \in Seq(Value) /\ Append(message.params, v) \in Seq(Value)
      BY <3>1 DEF Message
    <3>3. QED
      BY <3>1, <3>2 DEF Message
  <2>2. Append(buffer, v) \in Seq(Value)
    BY DEF TypeOK
  <2>3. QED
    BY <2>1, <2>2 DEF WriteParam, TypeOK
<1>4. UNCHANGED <<inHook, inBlock>>
  BY DEF WriteParam
<1>5. StackIsSound'
  <2> HIDE DEF frame
  <2>1. QED
    BY <1>1, <1>2, <1>3, <1>4, SetTopKeepsSound
<1>6. calls' \in Seq(Frame) /\ Len(calls') <= MaxDepth
  <2> HIDE DEF frame
  <2>1. QED
    BY <1>1, <1>2, SetTopEffect DEF TypeOK
<1>7. QED
  BY <1>3, <1>5, <1>6 DEF WriteParam, TypeOK

\* The ends of messages that no hook gets.
LEMMA PlainEndsKeepType ==
  ASSUME TypeOK, StackIsSound, EndBlocked \/ EndPlain
  PROVE  TypeOK' /\ StackIsSound'
<1>1. calls # <<>> /\ Pop /\ message' = message
  BY DEF EndBlocked, EndPlain, Writing, manager
<1>2. StackIsSound'
  BY <1>1, PopKeepsSound
<1>3. calls' \in Seq(Frame) /\ Len(calls') <= MaxDepth
  BY <1>1, PopEffect, MaxDepthIsNat DEF TypeOK
<1>4. blocks' \in [Type -> {"Not", "Once", "Set"}]
  BY DEF EndBlocked, EndPlain, Unblocked, TypeOK, manager
<1>5. wire' \in Message /\ buffer' \in Seq(Value)
  <2>1. CASE EndPlain
    <3>1. Top.type \in Type
      BY <1>1, TopType DEF Frame
    <3>2. QED
      BY <2>1, <3>1 DEF EndPlain, TypeOK, Message
  <2>2. CASE EndBlocked
    BY <2>2 DEF EndBlocked, TypeOK
  <2>3. QED
    BY <2>1, <2>2
<1>6. QED
  BY <1>1, <1>2, <1>3, <1>4, <1>5 DEF EndBlocked, EndPlain, TypeOK, manager

\* A message that goes to the pre hooks is one the manager collected.
LEMMA EndHookedIsHooked ==
  ASSUME TypeOK, StackIsSound, Writing, Destination = "Message"
  PROVE  calls # <<>> /\ Top.way = "Hooked" /\ message.type \in Type
<1>1. calls # <<>> /\ Top \in Frame /\ Len(calls) \in DOMAIN calls /\ Top = calls[Len(calls)]
  BY TopType DEF Writing
<1>2. Top.way # "Direct" /\ ~inBlock /\ inHook
  BY DEF Destination, PastHooks
<1>3. Top.way = "Hooked"
  BY <1>1, <1>2 DEF StackIsSound, Frame, Way
<1>4. QED
  BY <1>1, <1>3 DEF StackIsSound

\* The loops over hooks and what MessageEnd() does around them.
LEMMA HooksKeepType ==
  ASSUME TypeOK, StackIsSound,
         EndHooked \/ ExecMessage \/ \E answer \in ReturnValue : HandlerReturns(answer)
  PROVE  TypeOK' /\ StackIsSound'
<1>1. \E frame \in Frame : SetTop(frame) /\ frame.stage \in Kind /\ frame.way = "Hooked" /\ Top.way = "Hooked"
  <2>1. CASE EndHooked
    BY <2>1, EndHookedIsHooked, StartLoopEffect DEF EndHooked, Kind
  <2>2. CASE ExecMessage
    <3>1. calls # <<>> /\ Top.way = "Hooked" /\ message.type \in Type
      BY <2>2, TopType DEF ExecMessage, LoopEnded, StackIsSound
    <3>2. QED
      BY <2>2, <3>1, StartLoopEffect DEF ExecMessage, Kind
  <2>3. ASSUME NEW answer \in ReturnValue, HandlerReturns(answer)
        PROVE  \E frame \in Frame : SetTop(frame) /\ frame.stage \in Kind /\ frame.way = "Hooked" /\ Top.way = "Hooked"
    <3>1. calls # <<>> /\ Top \in Frame /\ Top.stage # "Write" /\ Top.way = "Hooked"
      BY <2>3, TopType DEF HandlerReturns, HandlerRuns, StackIsSound
    <3>2. NextAfter(answer) \subseteq Nat
      BY <3>1, NextHooksType DEF NextAfter, Frame
    <3>3. NewResult(Top, answer) \in ReturnValue
      BY <3>1 DEF NewResult, Frame
    <3>4. PICK next \in NextAfter(answer) :
            SetTop([Top EXCEPT !.result = NewResult(Top, answer), !.at = next])
      BY <2>3 DEF HandlerReturns
    <3>5. /\ [Top EXCEPT !.result = NewResult(Top, answer), !.at = next] \in Frame
          /\ [Top EXCEPT !.result = NewResult(Top, answer), !.at = next].stage = Top.stage
          /\ [Top EXCEPT !.result = NewResult(Top, answer), !.at = next].way = Top.way
      BY <3>1, <3>2, <3>3, <3>4 DEF Frame
    <3>6. Top.stage \in Kind
      BY <3>1 DEF Frame
    <3>7. QED
      BY <3>1, <3>4, <3>5, <3>6
  <2>4. QED
    BY <2>1, <2>2, <2>3
<1>2. PICK frame \in Frame : SetTop(frame) /\ frame.stage \in Kind /\ frame.way = "Hooked" /\ Top.way = "Hooked"
  BY <1>1
<1>3. calls # <<>> /\ UNCHANGED <<manager, buffer>> /\ wire' \in Message
  BY DEF EndHooked, Writing, ExecMessage, LoopEnded, HandlerReturns, HandlerRuns, TypeOK, manager
<1>4. frame.stage # "Write"
  BY <1>2 DEF Kind
<1>5. StackIsSound'
  BY <1>2, <1>3, <1>4, SetTopKeepsSound DEF manager
<1>6. calls' \in Seq(Frame) /\ Len(calls') <= MaxDepth
  BY <1>2, <1>3, SetTopEffect DEF TypeOK
<1>7. QED
  BY <1>3, <1>5, <1>6 DEF TypeOK, manager

\* The end of MessageEnd().
LEMMA MessageEndsKeepsType ==
  ASSUME TypeOK, StackIsSound, MessageEnds
  PROVE  TypeOK' /\ StackIsSound'
<1>1. calls # <<>> /\ Pop
  BY DEF MessageEnds, LoopEnded
<1>2. message' \in Message /\ message'.type = message.type
  <2>1. message \in Message
    BY DEF TypeOK
  <2>2. message' = [message EXCEPT !.params = <<>>]
    BY DEF MessageEnds, Cleared
  <2>3. message.type \in Type \cup {NoType} /\ <<>> \in Seq(Value)
    BY <2>1 DEF Message
  <2>4. message' = [type |-> message.type, params |-> <<>>]
    BY <2>1, <2>2 DEF Message
  <2>5. QED
    BY <2>3, <2>4 DEF Message
<1>3. StackIsSound'
  BY <1>1, <1>2, PopKeepsSound
<1>4. calls' \in Seq(Frame) /\ Len(calls') <= MaxDepth
  BY <1>1, PopEffect, MaxDepthIsNat DEF TypeOK
<1>5. QED
  BY <1>2, <1>3, <1>4 DEF MessageEnds, TypeOK

\* registerHook() and unregisterHook() change one vector.
LEMMA HooksChanges ==
  ASSUME TypeOK, NEW t \in Type,
         \/ \E id \in Hook, kind \in Kind : RegisterHook(t, id, kind)
         \/ \E i \in DOMAIN hooks[t] : UnregisterHook(t, i)
  PROVE  \E newHooks \in Seq(MessageHook), breaks \in BOOLEAN : HooksChange(t, newHooks, breaks)
<1>1. hooks[t] \in Seq(MessageHook)
  BY DEF TypeOK
<1>2. ASSUME NEW i \in DOMAIN hooks[t], UnregisterHook(t, i)
      PROVE  \E newHooks \in Seq(MessageHook), breaks \in BOOLEAN : HooksChange(t, newHooks, breaks)
  <2>1. i \in 1..Len(hooks[t])
    BY <1>1
  <2>2. SubSeq(hooks[t], 1, i - 1) \in Seq(MessageHook)
    BY <1>1, <2>1
  <2>3. SubSeq(hooks[t], i + 1, Len(hooks[t])) \in Seq(MessageHook)
    BY <1>1, <2>1
  <2>4. RemoveAt(hooks[t], i) \in Seq(MessageHook)
    BY <2>2, <2>3 DEF RemoveAt
  <2>5. QED
    BY <1>2, <2>4 DEF UnregisterHook
<1>3. ASSUME NEW id \in Hook, NEW kind \in Kind, RegisterHook(t, id, kind)
      PROVE  \E newHooks \in Seq(MessageHook), breaks \in BOOLEAN : HooksChange(t, newHooks, breaks)
  <2>1. [id |-> id, kind |-> kind, active |-> TRUE] \in MessageHook
    BY DEF MessageHook
  <2>2. Append(hooks[t], [id |-> id, kind |-> kind, active |-> TRUE]) \in Seq(MessageHook)
    BY <1>1, <2>1
  <2>3. QED
    BY <1>3, <2>2 DEF RegisterHook
<1>4. QED
  BY <1>2, <1>3

\* They keep the state well typed.
LEMMA HooksChangeKeepsType ==
  ASSUME TypeOK, StackIsSound, NEW t \in Type, NEW newHooks \in Seq(MessageHook),
         NEW breaks \in BOOLEAN, HooksChange(t, newHooks, breaks)
  PROVE  TypeOK' /\ StackIsSound'
<1>1. /\ calls' \in Seq(Frame) /\ Len(calls') = Len(calls) /\ DOMAIN calls' = DOMAIN calls
      /\ (calls' = <<>> <=> calls = <<>>)
      /\ hooks' \in [Type -> Seq(MessageHook)]
      /\ \A i \in DOMAIN calls :
           \E d \in BOOLEAN : calls'[i] = [calls[i] EXCEPT !.defined = d]
  BY HooksChangeEffect
<1>2. UNCHANGED <<blocks, message, inHook, inBlock, msgType, buffer, wire>>
  BY DEF HooksChange
<1>3. \A f \in Frame, d \in BOOLEAN :
        /\ [f EXCEPT !.defined = d].stage = f.stage /\ [f EXCEPT !.defined = d].way = f.way
        /\ [f EXCEPT !.defined = d].at = f.at
  BY DEF Frame
<1>4. \A i \in DOMAIN calls :
        calls'[i].stage = calls[i].stage /\ calls'[i].way = calls[i].way /\ calls'[i].at = calls[i].at
  <2> SUFFICES ASSUME NEW i \in DOMAIN calls
               PROVE  /\ calls'[i].stage = calls[i].stage /\ calls'[i].way = calls[i].way
                      /\ calls'[i].at = calls[i].at
    OBVIOUS
  <2>1. calls[i] \in Frame
    BY DEF TypeOK
  <2>2. PICK d \in BOOLEAN : calls'[i] = [calls[i] EXCEPT !.defined = d]
    BY <1>1
  <2>3. QED
    BY <1>3, <2>1, <2>2
<1>5. calls # <<>> => Top'.way = Top.way
  BY <1>1, <1>4, TopType DEF Top
<1>6. StackIsSound'
  BY <1>1, <1>2, <1>4, <1>5 DEF StackIsSound
<1>7. QED
  BY <1>1, <1>2, <1>6 DEF TypeOK

\* The other natives keep the state well typed.
LEMMA NativesKeepType ==
  ASSUME TypeOK, StackIsSound, NativeStep
  PROVE  TypeOK' /\ StackIsSound'
<1>1. ASSUME NEW t \in Type,
             \/ \E id \in Hook, kind \in Kind : RegisterHook(t, id, kind)
             \/ \E i \in DOMAIN hooks[t] : UnregisterHook(t, i)
      PROVE  TypeOK' /\ StackIsSound'
  BY <1>1, HooksChanges, HooksChangeKeepsType
<1>2. ASSUME NEW t \in Type, NEW i \in DOMAIN hooks[t], NEW active \in BOOLEAN, SetActive(t, i, active)
      PROVE  TypeOK' /\ StackIsSound'
  <2>1. hooks[t] \in Seq(MessageHook) /\ hooks[t][i] \in MessageHook
    BY DEF TypeOK
  <2>2. [hooks[t][i] EXCEPT !.active = active] \in MessageHook
    BY <2>1 DEF MessageHook
  <2>3. [hooks[t] EXCEPT ![i].active = active] \in Seq(MessageHook)
    BY <2>1, <2>2
  <2>4. hooks' \in [Type -> Seq(MessageHook)]
    BY <1>2, <2>3 DEF SetActive, TypeOK
  <2>5. QED
    BY <1>2, <2>4 DEF SetActive, TypeOK, StackIsSound, Top
<1>3. ASSUME NEW t \in Type, NEW block \in {"Not", "Once", "Set"}, SetMessageBlock(t, block)
      PROVE  TypeOK' /\ StackIsSound'
  BY <1>3 DEF SetMessageBlock, TypeOK, StackIsSound, Top
<1>4. ASSUME NEW i \in 1..MaxParams, NEW v \in Value, SetMsgArg(i, v)
      PROVE  TypeOK' /\ StackIsSound'
  <2> DEFINE own == IF i \in DOMAIN Top.own THEN [Top.own EXCEPT ![i] = v] ELSE Top.own
             frame == [Top EXCEPT !.own = own]
  <2>1. calls # <<>> /\ Top \in Frame /\ Top.stage # "Write" /\ Top.way = "Hooked" /\ SetTop(frame)
    BY <1>4, TopType DEF SetMsgArg, HandlerRuns, StackIsSound
  <2>2. own \in Seq(Value)
    BY <2>1 DEF Frame
  <2>3. frame \in Frame /\ frame.way = Top.way /\ frame.stage = Top.stage
    BY <2>1, <2>2 DEF Frame
  <2>4. message' \in Message /\ message'.type = message.type
    <3>1. message \in Message /\ i \in DOMAIN message.params
      BY <1>4 DEF TypeOK, SetMsgArg
    <3>2. message.params \in Seq(Value) /\ [message.params EXCEPT ![i] = v] \in Seq(Value)
      BY <3>1 DEF Message
    <3>3. message' = [message EXCEPT !.params = [message.params EXCEPT ![i] = v]]
      BY <1>4 DEF SetMsgArg
    <3>4. QED
      BY <3>1, <3>2, <3>3 DEF Message
  <2>5. UNCHANGED <<inHook, inBlock>>
    BY <1>4 DEF SetMsgArg
  <2> HIDE DEF frame
  <2>6. StackIsSound'
    BY <2>1, <2>3, <2>4, <2>5, SetTopKeepsSound
  <2>7. calls' \in Seq(Frame) /\ Len(calls') <= MaxDepth
    BY <2>1, <2>3, SetTopEffect DEF TypeOK
  <2>8. QED
    BY <1>4, <2>4, <2>6, <2>7 DEF SetMsgArg, TypeOK
<1>5. CASE ClearMessages
  BY <1>5 DEF ClearMessages, TypeOK, StackIsSound, Top
<1>6. QED
  BY <1>1, <1>2, <1>3, <1>4, <1>5 DEF NativeStep

\* Every step keeps the state well typed.
LEMMA StepKeepsType == TypeOK /\ StackIsSound /\ [Next]_vars => TypeOK' /\ StackIsSound'
<1> SUFFICES ASSUME TypeOK, StackIsSound, [Next]_vars
             PROVE  TypeOK' /\ StackIsSound'
  OBVIOUS
<1>1. CASE SenderStep
  BY <1>1, BeginsKeepType, WriteKeepsType, PlainEndsKeepType, HooksKeepType DEF SenderStep
<1>2. CASE HookStep
  BY <1>2, HooksKeepType, MessageEndsKeepsType DEF HookStep
<1>3. CASE NativeStep
  BY <1>3, NativesKeepType
<1>4. CASE UNCHANGED vars
  BY <1>4 DEF vars, TypeOK, StackIsSound, Top
<1>5. QED
  BY <1>1, <1>2, <1>3, <1>4 DEF Next

\* The constructed manager is well typed, whatever m_inhook holds.
LEMMA InitType == Init => TypeOK /\ StackIsSound
<1> SUFFICES ASSUME Init PROVE TypeOK /\ StackIsSound
  OBVIOUS
<1>1. <<>> \in Seq(Frame) /\ <<>> \in Seq(Value) /\ <<>> \in Seq(MessageHook) /\ Len(<<>>) = 0
  OBVIOUS
<1>2. Empty \in Message
  BY <1>1 DEF Empty, Message
<1>3. hooks \in [Type -> Seq(MessageHook)] /\ blocks \in [Type -> {"Not", "Once", "Set"}]
  BY <1>1 DEF Init
<1>4. TypeOK
  <2>1. calls \in Seq(Frame) /\ Len(calls) <= MaxDepth /\ buffer \in Seq(Value)
    BY <1>1, MaxDepthIsNat DEF Init
  <2>2. inHook \in BOOLEAN /\ inBlock \in BOOLEAN
    BY DEF Init
  <2>3. message \in Message /\ wire \in Message /\ msgType \in Type \cup {NoType}
    BY <1>2 DEF Init
  <2>4. QED
    BY <1>3, <2>1, <2>2, <2>3 DEF TypeOK
<1>5. calls = <<>> /\ DOMAIN calls = {}
  BY DEF Init
<1>6. StackIsSound
  BY <1>5 DEF StackIsSound
<1>7. QED
  BY <1>4, <1>6

\* The manager's state is well typed, nested and undefined cases included.
THEOREM TypeCorrect == Spec => []TypeOK
<1>1. Init => TypeOK /\ StackIsSound
  BY InitType
<1>2. TypeOK /\ StackIsSound /\ [Next]_vars => (TypeOK /\ StackIsSound)'
  BY StepKeepsType
<1>3. QED
  BY <1>1, <1>2, PTL DEF Spec

----------------------------------------------------------------------------
(* Messages that pass by the one in the manager.                           *)

\* A hooked message that is the innermost is the only one open, and the
\* manager holds it.
LEMMA HookedIsAlone ==
  ASSUME IInv, calls # <<>>, Top.way = "Hooked"
  PROVE  /\ Len(calls) = 1 /\ Top = calls[1] /\ Top \in Frame /\ DOMAIN calls = {1}
         /\ ~inBlock /\ inHook /\ buffer = <<>>
         /\ message = [type |-> Top.type, params |-> Top.own]
<1>1. Top \in Frame /\ Len(calls) \in DOMAIN calls /\ Top = calls[Len(calls)] /\ calls \in Seq(Frame)
  BY TopType DEF IInv, TypeOK
<1>2. ~(Len(calls) > 1)
  BY <1>1 DEF IInv, NestedPassBy
<1>3. Len(calls) = 1 /\ DOMAIN calls = {1}
  <2>1. Len(calls) = 1
    <3>1. Len(calls) \in Nat /\ Len(calls) \in 1..Len(calls)
      BY <1>1
    <3>2. \A n \in Nat : n \in 1..n /\ ~(n > 1) => n = 1
      OBVIOUS
    <3>3. QED
      BY <1>2, <3>1, <3>2
  <2>2. DOMAIN calls = 1..1
    BY <1>1, <2>1
  <2>3. QED
    BY <2>1, <2>2
<1>4. Top = calls[1]
  BY <1>1, <1>3
<1>5. ~inBlock
  BY DEF IInv, NestedPassBy
<1>6. buffer = <<>>
  BY DEF IInv, EngineHoldsLast
<1>7. QED
  BY <1>1, <1>3, <1>4, <1>5, <1>6 DEF IInv, ManagerHoldsFirst

\* In particular when one of its handlers runs.
LEMMA HandlersMessage ==
  ASSUME IInv, calls # <<>>, Top.stage # "Write"
  PROVE  Top.way = "Hooked"
BY TopType DEF IInv, StackIsSound

\* Below another message there is a hooked one.
LEMMA PopShowsHooked ==
  ASSUME IInv, calls # <<>>, Pop
  PROVE  /\ calls' # <<>> => Top'.way = "Hooked" /\ calls'[1] = calls[1]
         /\ calls' = <<>> <=> Len(calls) = 1
         /\ \A i \in DOMAIN calls' : i \in DOMAIN calls /\ calls'[i] = calls[i]
<1>1. TypeOK /\ calls \in Seq(Frame) /\ Len(calls) \in Nat \ {0}
  BY DEF IInv, TypeOK
<1>2. /\ calls' \in Seq(Frame) /\ Len(calls') = Len(calls) - 1
      /\ \A i \in DOMAIN calls' : i \in DOMAIN calls /\ i < Len(calls) /\ calls'[i] = calls[i]
      /\ calls' # <<>> => Top' = calls[Len(calls) - 1] /\ Len(calls) - 1 \in DOMAIN calls'
  BY <1>1, PopEffect
<1>3. calls' # <<>> => 1 \in DOMAIN calls'
  BY <1>2
<1>4. calls' # <<>> => Top'.way = "Hooked"
  BY <1>2 DEF IInv, StackIsSound
<1>5. calls' = <<>> <=> Len(calls) = 1
  BY <1>1, <1>2
<1>6. QED
  BY <1>2, <1>3, <1>4, <1>5

\* A message that begins finds no flags set, the manager and the engine empty
\* or the manager with the message whose handler sends it.
LEMMA BeginKeepsIInv ==
  ASSUME PassingBy, IInv, (TypeOK /\ StackIsSound)',
         NEW t \in Type, NEW way \in Way, NEW sender \in Senders, NEW origin \in Origins,
         Begin(t, way, sender, origin), buffer' = buffer,
         way = "Blocked" => inBlock' /\ msgType' = t,
         way # "Blocked" => inBlock' = inBlock,
         way = "Hooked" => inHook' /\ message' = [message EXCEPT !.type = t],
         way # "Hooked" => message' = message,
         way \in {"Blocked", "Direct"} => inHook' = inHook
  PROVE  IInv'
<1>1. /\ calls' \in Seq(Frame) /\ Len(calls') = Len(calls) + 1 /\ calls' # <<>>
      /\ Top' = calls'[Len(calls) + 1]
      /\ Top'.type = t /\ Top'.own = <<>> /\ Top'.way = way /\ Top'.result = "Ignored"
      /\ \A i \in DOMAIN calls : calls'[i] = calls[i]
      /\ calls # <<>> => HandlerRuns /\ way \in Sends
  BY BeginEffect DEF IInv
<1>2. calls \in Seq(Frame) /\ Len(calls) \in Nat
  BY DEF IInv, TypeOK
<1>3. calls # <<>> => /\ Top.way = "Hooked" /\ Len(calls) = 1 /\ Top = calls[1] /\ DOMAIN calls = {1}
                      /\ way \in {"Blocked", "Direct"}
  <2>1. calls # <<>> => Top.stage # "Write" /\ way \in {"Blocked", "Direct"}
    BY <1>1, TopType DEF HandlerRuns, IInv, StackIsSound, PassingBy
  <2>2. QED
    BY <2>1, HandlersMessage, HookedIsAlone
<1>4. ~inBlock /\ buffer = <<>>
  BY <1>3 DEF IInv, NestedPassBy, EngineHoldsLast
<1>5. CASE calls = <<>>
  <2>1. Len(calls') = 1 /\ Top' = calls'[1] /\ DOMAIN calls' = {1}
    BY <1>1, <1>2, <1>5
  <2>2. NestedPassBy'
    BY <1>1, <1>4, <2>1 DEF NestedPassBy
  <2>3. message.params = <<>> /\ message \in Message
    BY <1>5 DEF IInv, ManagerHoldsFirst, TypeOK
  <2>4. ManagerHoldsFirst'
    <3>1. CASE way = "Hooked"
      <4>1. message' = [type |-> t, params |-> <<>>]
        BY <2>3, <3>1 DEF Message
      <4>2. QED
        BY <1>1, <2>1, <3>1, <4>1 DEF ManagerHoldsFirst
    <3>2. CASE way # "Hooked"
      BY <1>1, <2>1, <2>3, <3>2 DEF ManagerHoldsFirst
    <3>3. QED
      BY <3>1, <3>2
  <2>5. EngineHoldsLast'
    BY <1>1, <1>4 DEF EngineHoldsLast
  <2>6. QED
    BY <2>2, <2>4, <2>5 DEF IInv
<1>6. CASE calls # <<>>
  <2>1. Len(calls') = 2 /\ Top' = calls'[2] /\ DOMAIN calls' = {1, 2} /\ calls'[1] = calls[1]
    <3>1. Len(calls) = 1 /\ 1 \in DOMAIN calls
      BY <1>3, <1>6
    <3>2. Len(calls') = 2 /\ Top' = calls'[2] /\ calls'[1] = calls[1]
      BY <1>1, <3>1
    <3>3. DOMAIN calls' = 1..Len(calls')
      BY <1>1
    <3>4. QED
      BY <3>2, <3>3
  <2>2. NestedPassBy'
    <3>1. calls'[1].way = "Hooked" /\ calls'[2].way \in {"Blocked", "Direct"} /\ calls'[2].result = "Ignored"
      BY <1>1, <1>3, <1>6, <2>1
    <3>2. QED
      BY <1>1, <1>4, <2>1, <3>1 DEF NestedPassBy
  <2>3. inHook' = inHook /\ message' = message
    BY <1>3, <1>6
  <2>4. ManagerHoldsFirst'
    BY <1>1, <1>3, <1>6, <2>1, <2>3 DEF IInv, ManagerHoldsFirst
  <2>5. EngineHoldsLast'
    BY <1>1, <1>4 DEF EngineHoldsLast
  <2>6. QED
    BY <2>2, <2>4, <2>5 DEF IInv
<1>7. QED
  BY <1>5, <1>6

\* MessageBegin() in its four ways.
LEMMA BeginsKeepIInv ==
  ASSUME PassingBy, IInv, (TypeOK /\ StackIsSound)',
         NEW t \in Type, NEW sender \in Senders, NEW origin \in Origins,
         \/ BeginBlocked(t, sender, origin) \/ BeginHooked(t, sender, origin)
         \/ BeginPlain(t, sender, origin)   \/ BeginDirect(t, sender, origin)
  PROVE  IInv'
<1>1. CASE BeginBlocked(t, sender, origin)
  BY <1>1, BeginKeepsIInv DEF BeginBlocked, Way
<1>2. CASE BeginHooked(t, sender, origin)
  BY <1>2, BeginKeepsIInv DEF BeginHooked, Way
<1>3. CASE BeginPlain(t, sender, origin)
  BY <1>3, BeginKeepsIInv DEF BeginPlain, Way
<1>4. CASE BeginDirect(t, sender, origin)
  BY <1>4, BeginKeepsIInv DEF BeginDirect, Way, manager
<1>5. QED
  BY <1>1, <1>2, <1>3, <1>4

\* Where a parameter goes follows from the way of its message.
LEMMA DestinationOfWay ==
  ASSUME IInv, Writing
  PROVE  /\ Top.way \in {"Plain", "Direct"} <=> Destination = "Engine"
         /\ Top.way = "Blocked" <=> Destination = "Nowhere"
         /\ Top.way = "Hooked" <=> Destination = "Message"
<1>1. calls # <<>> /\ Top \in Frame
  BY TopType DEF IInv, Writing
<1>2. Top.way \in Way
  BY <1>1 DEF Frame
<1>3. CASE Top.way = "Direct"
  BY <1>3 DEF Destination, PastHooks
<1>4. CASE Top.way = "Plain"
  BY <1>1, <1>4 DEF Destination, PastHooks, IInv, StackIsSound, NestedPassBy
<1>5. CASE Top.way = "Blocked"
  BY <1>1, <1>5 DEF Destination, PastHooks, IInv, NestedPassBy
<1>6. CASE Top.way = "Hooked"
  BY <1>1, <1>6, HookedIsAlone DEF Destination, PastHooks
<1>7. QED
  BY <1>2, <1>3, <1>4, <1>5, <1>6 DEF Way

\* A parameter goes where the manager or the engine collects its message.
LEMMA WriteKeepsIInv ==
  ASSUME IInv, (TypeOK /\ StackIsSound)', NEW v \in Value, WriteParam(v)
  PROVE  IInv'
<1> DEFINE frame == [Top EXCEPT !.own = Append(@, v)]
<1>1. Writing /\ calls # <<>> /\ SetTop(frame) /\ Top \in Frame
  BY TopType DEF WriteParam, Writing, IInv
<1>2. /\ frame \in Frame /\ frame.way = Top.way /\ frame.result = Top.result /\ frame.type = Top.type
      /\ frame.own = Append(Top.own, v)
  <2>1. Top.own \in Seq(Value) /\ Append(Top.own, v) \in Seq(Value)
    BY <1>1 DEF Frame
  <2>2. QED
    BY <1>1, <2>1 DEF Frame
<1> HIDE DEF frame
<1>3. /\ DOMAIN calls' = DOMAIN calls /\ Len(calls') = Len(calls) /\ calls' # <<>>
      /\ Top' = frame /\ Len(calls) \in DOMAIN calls
      /\ \A i \in DOMAIN calls : i # Len(calls) => calls'[i] = calls[i]
      /\ Top = calls[Len(calls)] /\ Top' = calls'[Len(calls)]
  BY <1>1, <1>2, SetTopEffect DEF IInv, Top
<1>4. UNCHANGED <<inHook, inBlock, msgType>>
  BY DEF WriteParam
<1>5. NestedPassBy'
  BY <1>2, <1>3, <1>4 DEF IInv, NestedPassBy
<1>6. /\ message' = IF Top.way = "Hooked" THEN [message EXCEPT !.params = Append(@, v)] ELSE message
      /\ buffer' = IF Top.way \in {"Plain", "Direct"} THEN Append(buffer, v) ELSE buffer
  BY <1>1, DestinationOfWay DEF WriteParam
<1>7. EngineHoldsLast'
  BY <1>1, <1>2, <1>3, <1>6 DEF IInv, EngineHoldsLast
<1>8. ManagerHoldsFirst'
  <2>1. CASE Top.way = "Hooked"
    <3>1. /\ Len(calls) = 1 /\ inHook
          /\ message = [type |-> Top.type, params |-> Top.own]
      BY <1>1, <2>1, HookedIsAlone
    <3>2. message' = [type |-> frame.type, params |-> frame.own]
      BY <1>2, <1>6, <2>1, <3>1
    <3>3. QED
      BY <1>2, <1>3, <1>4, <2>1, <3>1, <3>2 DEF ManagerHoldsFirst
  <2>2. CASE Top.way # "Hooked"
    <3>1. message' = message
      BY <1>6, <2>2
    <3>2. calls'[1].way = calls[1].way /\ (calls[1].way = "Hooked" => calls'[1] = calls[1])
      <4>1. 1 \in DOMAIN calls
        BY <1>1 DEF IInv, TypeOK
      <4>2. CASE Len(calls) = 1
        BY <1>2, <1>3, <2>2, <4>2
      <4>3. CASE Len(calls) # 1
        BY <1>3, <4>1, <4>3
      <4>4. QED
        BY <4>2, <4>3
    <3>3. QED
      BY <1>1, <1>3, <1>4, <3>1, <3>2 DEF IInv, ManagerHoldsFirst
  <2>3. QED
    BY <2>1, <2>2
<1>9. QED
  BY <1>5, <1>7, <1>8 DEF IInv

\* The end of a blocked message takes the block flag with it, that of a plain
\* one the engine's buffer; the message below is in the manager still.
LEMMA PlainEndsKeepIInv ==
  ASSUME IInv, (TypeOK /\ StackIsSound)', EndBlocked \/ EndPlain
  PROVE  IInv'
<1>1. Writing /\ calls # <<>> /\ Pop /\ message' = message /\ inHook' = inHook
  BY DEF EndBlocked, EndPlain, Writing, manager
<1>2. /\ calls' # <<>> => Top'.way = "Hooked" /\ calls'[1] = calls[1]
      /\ calls' = <<>> <=> Len(calls) = 1
      /\ \A i \in DOMAIN calls' : i \in DOMAIN calls /\ calls'[i] = calls[i]
  BY <1>1, PopShowsHooked
<1>3. Top.way # "Hooked" /\ ~inBlock' /\ buffer' = <<>>
  <2>1. CASE EndBlocked
    BY <1>1, <2>1, DestinationOfWay DEF EndBlocked, IInv, EngineHoldsLast
  <2>2. CASE EndPlain
    BY <1>1, <2>2, DestinationOfWay DEF EndPlain, IInv, NestedPassBy, manager
  <2>3. QED
    BY <2>1, <2>2
<1>4. NestedPassBy'
  BY <1>2, <1>3 DEF IInv, NestedPassBy
<1>5. EngineHoldsLast'
  BY <1>2, <1>3 DEF EngineHoldsLast
<1>6. ManagerHoldsFirst'
  <2>1. CASE calls' = <<>>
    <3>1. Top = calls[1]
      BY <1>2, <2>1 DEF Top
    <3>2. QED
      BY <1>1, <1>3, <2>1, <3>1 DEF IInv, ManagerHoldsFirst
  <2>2. CASE calls' # <<>>
    BY <1>1, <1>2, <2>2 DEF IInv, ManagerHoldsFirst
  <2>3. QED
    BY <2>1, <2>2
<1>7. QED
  BY <1>4, <1>5, <1>6 DEF IInv

\* A step of the hooked message that changes neither its parameters nor the
\* manager.
LEMMA LoopKeepsIInv ==
  ASSUME IInv, (TypeOK /\ StackIsSound)', calls # <<>>, Top.way = "Hooked",
         NEW frame \in Frame, SetTop(frame),
         frame.way = Top.way, frame.type = Top.type,
         UNCHANGED <<inHook, inBlock, msgType, buffer>>,
         message' = [type |-> frame.type, params |-> frame.own]
  PROVE  IInv'
<1>1. /\ Len(calls) = 1 /\ Top = calls[1] /\ DOMAIN calls = {1}
      /\ ~inBlock /\ inHook /\ buffer = <<>>
  BY HookedIsAlone
<1>2. /\ Len(calls') = 1 /\ calls' # <<>> /\ DOMAIN calls' = {1} /\ Top' = frame /\ calls'[1] = frame
  BY <1>1, SetTopEffect DEF IInv, Top
<1>3. NestedPassBy'
  BY <1>1, <1>2 DEF NestedPassBy
<1>4. ManagerHoldsFirst' /\ EngineHoldsLast'
  BY <1>1, <1>2 DEF ManagerHoldsFirst, EngineHoldsLast
<1>5. QED
  BY <1>3, <1>4 DEF IInv

\* The loops over hooks change the innermost message, which is hooked, and
\* nothing else.
LEMMA HooksStep ==
  ASSUME IInv, EndHooked \/ ExecMessage \/ \E answer \in ReturnValue : HandlerReturns(answer)
  PROVE  /\ calls # <<>> /\ Top.way = "Hooked" /\ UNCHANGED <<manager, buffer>>
         /\ \E frame \in Frame : /\ SetTop(frame) /\ frame.way = Top.way
                                /\ frame.type = Top.type /\ frame.own = Top.own
<1>1. TypeOK /\ StackIsSound
  BY DEF IInv
<1>2. CASE EndHooked
  BY <1>1, <1>2, EndHookedIsHooked, StartLoopEffect DEF EndHooked, Kind
<1>3. CASE ExecMessage
  <2>1. calls # <<>> /\ Top.way = "Hooked" /\ message.type \in Type
    BY <1>1, <1>3, TopType DEF ExecMessage, LoopEnded, StackIsSound
  <2>2. QED
    BY <1>1, <1>3, <2>1, StartLoopEffect DEF ExecMessage, Kind
<1>4. ASSUME NEW answer \in ReturnValue, HandlerReturns(answer)
      PROVE  /\ calls # <<>> /\ Top.way = "Hooked" /\ UNCHANGED <<manager, buffer>>
             /\ \E frame \in Frame : /\ SetTop(frame) /\ frame.way = Top.way
                                    /\ frame.type = Top.type /\ frame.own = Top.own
  <2>1. calls # <<>> /\ Top \in Frame /\ Top.way = "Hooked"
    BY <1>1, <1>4, TopType DEF HandlerReturns, HandlerRuns, StackIsSound
  <2>2. NextAfter(answer) \subseteq Nat
    BY <2>1, NextHooksType DEF NextAfter, Frame
  <2>3. NewResult(Top, answer) \in ReturnValue
    BY <2>1 DEF NewResult, Frame
  <2>4. PICK next \in NextAfter(answer) :
          SetTop([Top EXCEPT !.result = NewResult(Top, answer), !.at = next])
    BY <1>4 DEF HandlerReturns
  <2> DEFINE frame == [Top EXCEPT !.result = NewResult(Top, answer), !.at = next]
  <2>5. frame \in Frame /\ frame.way = Top.way /\ frame.type = Top.type /\ frame.own = Top.own
    BY <2>1, <2>2, <2>3, <2>4 DEF Frame
  <2>6. QED
    BY <1>4, <2>1, <2>4, <2>5 DEF HandlerReturns
<1>5. QED
  BY <1>2, <1>3, <1>4

\* So they keep the invariant.
LEMMA HooksKeepIInv ==
  ASSUME IInv, (TypeOK /\ StackIsSound)',
         EndHooked \/ ExecMessage \/ \E answer \in ReturnValue : HandlerReturns(answer)
  PROVE  IInv'
<1>1. calls # <<>> /\ Top.way = "Hooked" /\ UNCHANGED <<manager, buffer>>
  BY HooksStep
<1>2. PICK frame \in Frame : SetTop(frame) /\ frame.way = Top.way
                             /\ frame.type = Top.type /\ frame.own = Top.own
  BY HooksStep
<1>3. message' = [type |-> frame.type, params |-> frame.own]
  BY <1>1, <1>2, HookedIsAlone DEF manager
<1>4. QED
  BY <1>1, <1>2, <1>3, LoopKeepsIInv DEF manager

\* MessageEnd() leaves the manager empty.
LEMMA MessageEndsKeepsIInv ==
  ASSUME IInv, (TypeOK /\ StackIsSound)', MessageEnds
  PROVE  IInv'
<1>1. calls # <<>> /\ Pop /\ Top.stage # "Write"
  BY DEF MessageEnds, LoopEnded
<1>2. Top.way = "Hooked"
  BY <1>1, HandlersMessage
<1>3. Len(calls) = 1 /\ ~inBlock /\ buffer = <<>>
  BY <1>1, <1>2, HookedIsAlone
<1>4. calls' = <<>> /\ DOMAIN calls' = {}
  BY <1>1, <1>3, PopShowsHooked
<1>5. inBlock' = inBlock /\ buffer' = buffer
  BY DEF MessageEnds
<1>6. message'.params = <<>>
  <2>1. message \in Message
    BY DEF IInv, TypeOK
  <2>2. QED
    BY <2>1 DEF MessageEnds, Cleared, Message
<1>7. NestedPassBy' /\ EngineHoldsLast' /\ ManagerHoldsFirst'
  BY <1>3, <1>4, <1>5, <1>6 DEF NestedPassBy, EngineHoldsLast, ManagerHoldsFirst
<1>8. QED
  BY <1>7 DEF IInv

\* Changes of hooks do not touch the messages.
LEMMA HooksChangeKeepsIInv ==
  ASSUME IInv, (TypeOK /\ StackIsSound)', NEW t \in Type, NEW newHooks \in Seq(MessageHook),
         NEW breaks \in BOOLEAN, HooksChange(t, newHooks, breaks)
  PROVE  IInv'
<1>1. /\ calls' \in Seq(Frame) /\ Len(calls') = Len(calls) /\ DOMAIN calls' = DOMAIN calls
      /\ (calls' = <<>> <=> calls = <<>>)
      /\ \A i \in DOMAIN calls :
           \E d \in BOOLEAN : calls'[i] = [calls[i] EXCEPT !.defined = d]
  BY HooksChangeEffect DEF IInv
<1>2. UNCHANGED <<message, inHook, inBlock, msgType, buffer>>
  BY DEF HooksChange
<1>3. ASSUME NEW i \in DOMAIN calls
      PROVE  /\ calls'[i].way = calls[i].way /\ calls'[i].result = calls[i].result
             /\ calls'[i].type = calls[i].type /\ calls'[i].own = calls[i].own
  <2>1. calls[i] \in Frame
    BY DEF IInv, TypeOK
  <2>2. PICK d \in BOOLEAN : calls'[i] = [calls[i] EXCEPT !.defined = d]
    BY <1>1
  <2>3. QED
    BY <2>1, <2>2 DEF Frame
<1>4. calls # <<>> => /\ Top'.way = Top.way /\ Top'.own = Top.own /\ Top'.type = Top.type
                      /\ 1 \in DOMAIN calls
  <2>1. calls # <<>> => Len(calls) \in DOMAIN calls /\ 1 \in DOMAIN calls
    BY DEF IInv, TypeOK
  <2>2. QED
    BY <1>1, <1>3, <2>1 DEF Top
<1>5. NestedPassBy'
  BY <1>1, <1>2, <1>3, <1>4 DEF IInv, NestedPassBy
<1>6. EngineHoldsLast'
  BY <1>1, <1>2, <1>4 DEF IInv, EngineHoldsLast
<1>7. ManagerHoldsFirst'
  BY <1>1, <1>2, <1>3, <1>4 DEF IInv, ManagerHoldsFirst
<1>8. QED
  BY <1>5, <1>6, <1>7 DEF IInv

\* The manager's message and the one the handler was called for are rewritten
\* alike.
LEMMA SetMsgArgKeepsIInv ==
  ASSUME IInv, (TypeOK /\ StackIsSound)', NEW i \in 1..MaxParams, NEW v \in Value, SetMsgArg(i, v)
  PROVE  IInv'
<1> DEFINE own == IF i \in DOMAIN Top.own THEN [Top.own EXCEPT ![i] = v] ELSE Top.own
           frame == [Top EXCEPT !.own = own]
<1>1. calls # <<>> /\ Top.stage # "Write" /\ SetTop(frame) /\ Top \in Frame
  BY TopType DEF SetMsgArg, HandlerRuns, IInv, StackIsSound
<1>2. Top.way = "Hooked"
  BY <1>1, HandlersMessage
<1>3. message = [type |-> Top.type, params |-> Top.own] /\ i \in DOMAIN message.params
  BY <1>1, <1>2, HookedIsAlone DEF SetMsgArg
<1>4. Top.own \in Seq(Value) /\ i \in DOMAIN Top.own /\ own = [Top.own EXCEPT ![i] = v]
      /\ own \in Seq(Value)
  BY <1>1, <1>3 DEF Frame
<1>5. frame \in Frame /\ frame.way = Top.way /\ frame.type = Top.type /\ frame.own = own
  BY <1>1, <1>4 DEF Frame
<1>6. message' = [type |-> frame.type, params |-> frame.own]
  <2>1. message' = [message EXCEPT !.params = [message.params EXCEPT ![i] = v]]
    BY DEF SetMsgArg
  <2>2. message' = [type |-> Top.type, params |-> [Top.own EXCEPT ![i] = v]]
    BY <1>3, <2>1
  <2>3. QED
    BY <1>4, <1>5, <2>2
<1>7. UNCHANGED <<inHook, inBlock, msgType, buffer>>
  BY DEF SetMsgArg
<1> HIDE DEF frame
<1>8. QED
  BY <1>1, <1>2, <1>5, <1>6, <1>7, LoopKeepsIInv

\* Steps that leave messages and flags alone.
LEMMA SameMessagesKeepIInv ==
  ASSUME IInv, (TypeOK /\ StackIsSound)',
         UNCHANGED <<message, inHook, inBlock, msgType, buffer, calls>>
  PROVE  IInv'
BY DEF IInv, NestedPassBy, ManagerHoldsFirst, EngineHoldsLast, Top

\* Every step keeps the invariant.
LEMMA StepKeepsIInv == PassingBy /\ IInv /\ [Next]_vars => IInv'
<1> SUFFICES ASSUME PassingBy, IInv, [Next]_vars PROVE IInv'
  OBVIOUS
<1>1. (TypeOK /\ StackIsSound)'
  BY StepKeepsType DEF IInv
<1>2. CASE SenderStep
  BY <1>1, <1>2, BeginsKeepIInv, WriteKeepsIInv, PlainEndsKeepIInv, HooksKeepIInv DEF SenderStep
<1>3. CASE HookStep
  BY <1>1, <1>3, HooksKeepIInv, MessageEndsKeepsIInv DEF HookStep
<1>4. CASE NativeStep
  <2>1. ASSUME NEW t \in Type,
               \/ \E id \in Hook, kind \in Kind : RegisterHook(t, id, kind)
               \/ \E i \in DOMAIN hooks[t] : UnregisterHook(t, i)
        PROVE  IInv'
    BY <1>1, <2>1, HooksChanges, HooksChangeKeepsIInv DEF IInv
  <2>2. ASSUME NEW t \in Type, NEW i \in DOMAIN hooks[t], NEW active \in BOOLEAN, SetActive(t, i, active)
        PROVE  IInv'
    BY <1>1, <2>2, SameMessagesKeepIInv DEF SetActive
  <2>3. ASSUME NEW t \in Type, NEW block \in {"Not", "Once", "Set"}, SetMessageBlock(t, block)
        PROVE  IInv'
    BY <1>1, <2>3, SameMessagesKeepIInv DEF SetMessageBlock
  <2>4. CASE ClearMessages
    BY <1>1, <2>4, SameMessagesKeepIInv DEF ClearMessages
  <2>5. QED
    BY <1>1, <1>4, <2>1, <2>2, <2>3, <2>4, SetMsgArgKeepsIInv DEF NativeStep
<1>5. CASE UNCHANGED vars
  BY <1>1, <1>5, SameMessagesKeepIInv DEF vars
<1>6. QED
  BY <1>2, <1>3, <1>4, <1>5 DEF Next

\* It holds of the constructed manager.
LEMMA InitIInv == Init => IInv
<1> SUFFICES ASSUME Init PROVE IInv
  OBVIOUS
<1>1. TypeOK /\ StackIsSound
  BY InitType
<1>2. calls = <<>> /\ DOMAIN calls = {} /\ message.params = <<>> /\ ~inBlock /\ buffer = <<>>
  BY DEF Init, Empty
<1>3. NestedPassBy /\ ManagerHoldsFirst /\ EngineHoldsLast
  BY <1>2 DEF NestedPassBy, ManagerHoldsFirst, EngineHoldsLast
<1>4. QED
  BY <1>1, <1>3 DEF IInv

\* The invariant that the following theorems rest on.
THEOREM InductiveInvariant == PassingBy => (Spec => []IInv)
<1> SUFFICES ASSUME PassingBy PROVE Spec => []IInv
  OBVIOUS
<1>1. Init => IInv
  BY InitIInv
<1>2. IInv /\ [Next]_vars => IInv'
  BY StepKeepsIInv
<1>3. QED
  BY <1>1, <1>2, PTL DEF Spec

\* A handler finds its own message in the manager, whatever blocked and direct
\* messages were sent since it began.
THEOREM HandlersSee == PassingBy => (Spec => []HandlersSeeTheirMessage)
<1> SUFFICES ASSUME PassingBy PROVE Spec => []HandlersSeeTheirMessage
  OBVIOUS
<1>1. ASSUME IInv PROVE HandlersSeeTheirMessage
  <2> SUFFICES ASSUME HandlerRuns
               PROVE  inHook /\ message = [type |-> Top.type, params |-> Top.own]
    BY DEF HandlersSeeTheirMessage, MsgArgs
  <2>1. calls # <<>> /\ Top.stage # "Write"
    BY <1>1, TopType DEF HandlerRuns, IInv, StackIsSound
  <2>2. QED
    BY <1>1, <2>1, HandlersMessage, HookedIsAlone
<1>2. QED
  BY <1>1, InductiveInvariant, PTL

\* No message leaves flags, parameters or engine data to the next.
THEOREM NothingIsLeftOver == PassingBy => (Spec => []NothingLeftOver)
<1> SUFFICES ASSUME PassingBy PROVE Spec => []NothingLeftOver
  OBVIOUS
<1>1. IInv => NothingLeftOver
  BY DEF IInv, NothingLeftOver, NestedPassBy, ManagerHoldsFirst, EngineHoldsLast
<1>2. QED
  BY <1>1, InductiveInvariant, PTL
----------------------------------------------------------------------------
(* The manager implements MessageRelay.                                    *)

\* An open message as the relay has it, and a stack of them.
View(frame) == [type |-> frame.type, params |-> frame.own, fate |-> Fate(frame)]

Views == {View(frame) : frame \in Frame}

ViewOf(s) == [i \in DOMAIN s |-> View(s[i])]

LEMMA OpenIsView == Open = ViewOf(calls) /\ Open' = ViewOf(calls')
BY DEF Open, ViewOf, View

LEMMA ViewIsSeq ==
  ASSUME NEW s \in Seq(Frame)
  PROVE  /\ ViewOf(s) \in Seq(Views) /\ Len(ViewOf(s)) = Len(s) /\ Len(s) \in Nat
         /\ DOMAIN ViewOf(s) = 1..Len(s) /\ DOMAIN s = 1..Len(s)
         /\ \A i \in 1..Len(s) : ViewOf(s)[i] = View(s[i]) /\ s[i] \in Frame
         /\ ViewOf(s) = <<>> <=> s = <<>>
<1>1. Len(s) \in Nat /\ s \in [1..Len(s) -> Frame] /\ DOMAIN s = 1..Len(s)
  BY LenProperties
<1>2. ViewOf(s) = [i \in 1..Len(s) |-> View(s[i])]
  BY <1>1 DEF ViewOf
<1>3. ViewOf(s) \in [1..Len(s) -> Views]
  BY <1>1, <1>2 DEF Views
<1>4. ViewOf(s) \in Seq(Views) /\ Len(ViewOf(s)) = Len(s)
  BY <1>1, <1>3
<1>5. ViewOf(s) = <<>> <=> s = <<>>
  BY <1>1, <1>4
<1>6. QED
  BY <1>1, <1>2, <1>4, <1>5

\* The relay's innermost message is the manager's.
LEMMA LastIsTop ==
  ASSUME TypeOK, calls # <<>>
  PROVE  /\ Open # <<>> /\ Relay!last = View(Top) /\ Len(Open) = Len(calls)
         /\ Len(calls) \in 1..Len(calls)
<1>1. calls \in Seq(Frame)
  BY DEF TypeOK
<1>2. Len(calls) \in 1..Len(calls)
  BY <1>1
<1>3. QED
  BY <1>1, <1>2, ViewIsSeq, OpenIsView DEF Relay!last, Top

\* A message that begins is put on top of the relay's ...
LEMMA BeginView ==
  ASSUME TypeOK, NEW t \in Type, NEW way \in Way, NEW sender \in Senders, NEW origin \in Origins,
         Begin(t, way, sender, origin)
  PROVE  Open' = Append(Open, [type |-> t, params |-> <<>>,
                               fate |-> IF way = "Blocked" THEN "Dropped" ELSE "Open"])
<1> DEFINE m == [type |-> t, params |-> <<>>, fate |-> IF way = "Blocked" THEN "Dropped" ELSE "Open"]
           n == Len(calls)
<1>1. calls \in Seq(Frame)
  BY DEF TypeOK
<1>2. /\ calls' \in Seq(Frame) /\ Len(calls') = n + 1 /\ Top' = calls'[n + 1]
      /\ Top'.type = t /\ Top'.own = <<>> /\ Top'.way = way /\ Top'.stage = "Write"
      /\ Top'.result = "Ignored"
      /\ \A i \in DOMAIN calls : calls'[i] = calls[i]
  BY BeginEffect
<1>3. /\ Open \in Seq(Views) /\ Len(Open) = n /\ n \in Nat /\ DOMAIN calls = 1..n
      /\ \A i \in 1..n : Open[i] = View(calls[i])
  BY <1>1, ViewIsSeq, OpenIsView
<1>4. /\ Open' \in Seq(Views) /\ Len(Open') = n + 1
      /\ \A i \in 1..n + 1 : Open'[i] = View(calls'[i]) /\ calls'[i] \in Frame
  BY <1>2, ViewIsSeq, OpenIsView
<1>5. View(calls'[n + 1]) = m /\ n + 1 \in 1..n + 1
  BY <1>2, <1>3 DEF View, Fate
<1>6. m \in Views
  BY <1>4, <1>5 DEF Views
<1> HIDE DEF m
<1>7. /\ Append(Open, m) \in Seq(Views) /\ Len(Append(Open, m)) = n + 1
      /\ \A i \in 1..n : Append(Open, m)[i] = Open[i]
      /\ Append(Open, m)[n + 1] = m
  BY <1>3, <1>6, AppendProperties
<1>8. ASSUME NEW i \in 1..n + 1
      PROVE  Open'[i] = Append(Open, m)[i]
  <2>1. CASE i = n + 1
    BY <1>4, <1>5, <1>7, <2>1
  <2>2. CASE i \in 1..n
    BY <1>2, <1>3, <1>4, <1>7, <2>2
  <2>3. QED
    BY <1>3, <2>1, <2>2
<1>9. Open' = Append(Open, m)
  BY <1>4, <1>7, <1>8, SeqEqual
<1>10. QED
  BY <1>9 DEF m

\* ... one that changes is replaced there ...
LEMMA SetTopView ==
  ASSUME TypeOK, calls # <<>>, NEW frame \in Frame, SetTop(frame)
  PROVE  Relay!Replace(View(frame))
<1>1. calls \in Seq(Frame)
  BY DEF TypeOK
<1>2. /\ calls' \in Seq(Frame) /\ Len(calls') = Len(calls)
      /\ Top' = frame /\ Len(calls) \in DOMAIN calls
      /\ \A i \in DOMAIN calls : i # Len(calls) => calls'[i] = calls[i]
  BY SetTopEffect
<1>3. /\ Open \in Seq(Views) /\ Len(Open) = Len(calls) /\ DOMAIN calls = 1..Len(calls)
      /\ DOMAIN Open = 1..Len(calls) /\ \A i \in 1..Len(calls) : Open[i] = View(calls[i])
  BY <1>1, ViewIsSeq, OpenIsView
<1>4. /\ Open' \in Seq(Views) /\ Len(Open') = Len(calls)
      /\ \A i \in 1..Len(calls) : Open'[i] = View(calls'[i])
  BY <1>2, ViewIsSeq, OpenIsView
<1> DEFINE new == [Open EXCEPT ![Len(Open)] = View(frame)]
<1>5. calls'[Len(calls)] = frame
  BY <1>2 DEF Top
<1>6. View(frame) \in Views
  BY DEF Views
<1>7. new \in Seq(Views) /\ Len(new) = Len(Open)
      /\ \A j \in 1..Len(Open) : new[j] = IF j = Len(Open) THEN View(frame) ELSE Open[j]
  BY <1>2, <1>3, <1>6, ExceptSeq
<1> HIDE DEF new
<1>8. \A i \in 1..Len(calls) : Open'[i] = new[i]
  BY <1>2, <1>3, <1>4, <1>5, <1>7
<1>9. Open' = new
  BY <1>3, <1>4, <1>7, <1>8, SeqEqual
<1>10. QED
  BY <1>9 DEF new, Relay!Replace

\* ... nothing changes there if the sender's view of it does not ...
LEMMA SetTopStutters ==
  ASSUME TypeOK, calls # <<>>, NEW frame \in Frame, SetTop(frame), View(frame) = View(Top)
  PROVE  Open' = Open
<1>1. calls \in Seq(Frame)
  BY DEF TypeOK
<1>2. /\ Open \in Seq(Views) /\ Len(Open) = Len(calls) /\ DOMAIN Open = 1..Len(calls)
      /\ Len(calls) \in 1..Len(calls) /\ Open[Len(Open)] = View(frame)
  BY <1>1, ViewIsSeq, OpenIsView, LastIsTop DEF Relay!last
<1>3. Open \in [DOMAIN Open -> Views]
  BY <1>2
<1>4. Open' = [Open EXCEPT ![Len(Open)] = Open[Len(Open)]]
  BY <1>2, SetTopView DEF Relay!Replace
<1>5. QED
  BY <1>3, <1>4

\* ... and one that ends is taken away.
LEMMA PopView ==
  ASSUME TypeOK, calls # <<>>, Pop
  PROVE  Open' = Relay!Closed
<1> DEFINE n == Len(calls)
           new == SubSeq(Open, 1, n - 1)
<1>1. calls \in Seq(Frame)
  BY DEF TypeOK
<1>2. /\ calls' \in Seq(Frame) /\ Len(calls') = n - 1
      /\ \A i \in DOMAIN calls' : calls'[i] = calls[i]
  BY PopEffect
<1>3. /\ Open \in Seq(Views) /\ Len(Open) = n /\ n \in Nat /\ n \in 1..n
      /\ \A i \in 1..n : Open[i] = View(calls[i]) /\ calls[i] \in Frame
  BY <1>1, ViewIsSeq, OpenIsView, LastIsTop
<1>4. /\ Open' \in Seq(Views) /\ Len(Open') = n - 1 /\ DOMAIN calls' = 1..n - 1
      /\ \A i \in 1..n - 1 : Open'[i] = View(calls'[i])
  BY <1>2, ViewIsSeq, OpenIsView
<1>5. \A i \in 1..n - 1 : Open[i] \in Views
  BY <1>3 DEF Views
<1>6. new \in Seq(Views) /\ Len(new) = n - 1 /\ \A i \in 1..n - 1 : new[i] = Open[i]
  <2>1. 1 \in Int /\ n - 1 \in Int /\ (IF 1 <= n - 1 THEN n - 1 - 1 + 1 ELSE 0) = n - 1
        /\ n - 1 - 1 + 1 = n - 1 /\ \A i \in 1..n - 1 : 1 + i - 1 = i
    BY <1>3
  <2>2. /\ new \in Seq(Views) /\ Len(new) = IF 1 <= n - 1 THEN n - 1 - 1 + 1 ELSE 0
        /\ \A i \in 1..n - 1 - 1 + 1 : new[i] = Open[1 + i - 1]
    BY <1>5, <2>1, SubSeqProperties
  <2>3. QED
    BY <2>1, <2>2
<1> HIDE DEF new
<1>7. ASSUME NEW i \in 1..n - 1
      PROVE  Open'[i] = new[i]
  <2>1. i \in 1..n
    BY <1>3
  <2>2. new[i] = View(calls[i])
    BY <1>3, <1>6, <2>1
  <2>3. calls'[i] = calls[i]
    BY <1>2, <1>4
  <2>4. QED
    BY <1>4, <2>2, <2>3
<1>8. Open' = new
  BY <1>4, <1>6, <1>7, SeqEqual
<1>9. QED
  BY <1>3, <1>8 DEF new, Relay!Closed

\* The initial states are initial states of the relay.
LEMMA InitSimulation == Init => Relay!Init
<1> SUFFICES ASSUME Init PROVE Relay!Init
  OBVIOUS
<1>1. calls = <<>> /\ calls \in Seq(Frame)
  BY DEF Init
<1>2. Open = <<>>
  BY <1>1, ViewIsSeq, OpenIsView
<1>3. QED
  BY <1>2 DEF Relay!Init, Init, Empty

\* MessageBegin() begins a message there, dropped already if it is blocked.
LEMMA BeginSimulation ==
  ASSUME IInv, NEW t \in Type, NEW sender \in Senders, NEW origin \in Origins,
         \/ BeginBlocked(t, sender, origin) \/ BeginHooked(t, sender, origin)
         \/ BeginPlain(t, sender, origin)   \/ BeginDirect(t, sender, origin)
  PROVE  Relay!Next
<1>1. wire' = wire /\ \E way \in Way : Begin(t, way, sender, origin)
  BY DEF BeginBlocked, BeginHooked, BeginPlain, BeginDirect, Way
<1>2. PICK way \in Way : Begin(t, way, sender, origin)
  BY <1>1
<1>3. \E fate \in {"Open", "Dropped"} :
        Open' = Append(Open, [type |-> t, params |-> <<>>, fate |-> fate])
  BY <1>2, BeginView DEF IInv
<1>4. \E fate \in Relay!Fate : Relay!Begin(t, fate)
  BY <1>1, <1>3 DEF Relay!Begin, Relay!Fate
<1>5. QED
  BY <1>4 DEF Relay!Next

\* WriteParam() is a write wherever the parameter goes.
LEMMA WriteSimulation ==
  ASSUME IInv, NEW v \in Value, WriteParam(v)
  PROVE  Relay!Next
<1> DEFINE frame == [Top EXCEPT !.own = Append(@, v)]
<1>1. TypeOK /\ calls # <<>> /\ SetTop(frame) /\ Top \in Frame /\ wire' = wire
  BY TopType DEF WriteParam, Writing, IInv
<1>2. frame \in Frame /\ View(frame) = [View(Top) EXCEPT !.params = Append(@, v)]
  <2>1. Top.own \in Seq(Value) /\ Append(Top.own, v) \in Seq(Value)
    BY <1>1 DEF Frame
  <2>2. /\ frame \in Frame /\ frame.type = Top.type /\ frame.own = Append(Top.own, v)
        /\ frame.way = Top.way /\ frame.result = Top.result /\ frame.stage = Top.stage
    BY <1>1, <2>1 DEF Frame
  <2> HIDE DEF frame
  <2>3. View(frame) = [View(Top) EXCEPT !.params = Append(Top.own, v)] /\ View(Top).params = Top.own
    <3>1. Fate(frame) = Fate(Top)
      BY <2>2 DEF Fate
    <3> DEFINE type == Top.type
               params == Top.own
               more == Append(Top.own, v)
               fate == Fate(Top)
               now == View(frame)
               before == View(Top)
    <3>2. now = [type |-> type, params |-> more, fate |-> fate]
      BY <2>2, <3>1 DEF View
    <3>3. before = [type |-> type, params |-> params, fate |-> fate]
      BY DEF View
    <3>4. before.params = params
      <4> HIDE DEF before, type, params, fate
      <4>1. QED
        BY <3>3
    <3>5. now = [before EXCEPT !.params = more]
      <4> HIDE DEF now, before, type, params, more, fate
      <4>1. QED
        BY <3>2, <3>3
    <3>6. QED
      BY <3>4, <3>5
  <2>4. QED
    BY <2>2, <2>3
<1> HIDE DEF frame
<1>3. Relay!Replace([Relay!last EXCEPT !.params = Append(@, v)])
  BY <1>1, <1>2, SetTopView, LastIsTop
<1>4. QED
  BY <1>1, <1>3, LastIsTop DEF Relay!Next, Relay!Write

\* The end of a blocked message, and of one the engine was given as it was
\* written.
LEMMA EndBlockedSimulation ==
  ASSUME IInv, EndBlocked
  PROVE  Relay!Next
<1>1. TypeOK /\ calls # <<>> /\ Pop /\ wire' = wire /\ Top.way = "Blocked"
  BY DestinationOfWay DEF EndBlocked, Writing, IInv
<1>2. Relay!last.fate = "Dropped"
  BY <1>1, LastIsTop DEF View, Fate
<1>3. QED
  BY <1>1, <1>2, LastIsTop, PopView DEF Relay!Next, Relay!End

LEMMA EndPlainSimulation ==
  ASSUME IInv, EndPlain
  PROVE  Relay!Next
<1>1. /\ TypeOK /\ calls # <<>> /\ Pop /\ Top.way \in {"Plain", "Direct"} /\ Top.stage = "Write"
      /\ wire' = [type |-> Top.type, params |-> buffer]
  BY DestinationOfWay DEF EndPlain, Writing, IInv
<1>2. buffer = Top.own /\ Top.result = "Ignored"
  BY <1>1, TopType DEF IInv, EngineHoldsLast, NestedPassBy
<1>3. Relay!last.fate = "Open" /\ Relay!Deliver
  BY <1>1, <1>2, LastIsTop DEF View, Fate, Relay!Deliver
<1>4. QED
  BY <1>1, <1>3, LastIsTop, PopView DEF Relay!Next, Relay!SendAndEnd

\* The call of the pre hooks is not seen there.
LEMMA EndHookedSimulation ==
  ASSUME IInv, EndHooked
  PROVE  UNCHANGED <<Open, wire>>
<1>1. /\ TypeOK /\ calls # <<>> /\ Top.way = "Hooked" /\ message.type \in Type
      /\ Top.stage = "Write" /\ Top \in Frame /\ StartLoop("Pre") /\ wire' = wire
  BY EndHookedIsHooked, TopType DEF EndHooked, Writing, IInv
<1>2. PICK frame :
        /\ SetTop(frame) /\ frame.stage = "Pre" /\ frame.way = Top.way /\ frame.type = Top.type
        /\ frame.own = Top.own /\ frame.result = Top.result /\ frame \in Frame
  BY <1>1, StartLoopEffect DEF Kind
<1>3. View(frame) = View(Top)
  BY <1>1, <1>2 DEF View, Fate
<1>4. QED
  BY <1>1, <1>2, <1>3, SetTopStutters

\* A pre hook that refuses the message drops it, the other answers are not
\* seen.
LEMMA HandlerReturnsSimulation ==
  ASSUME IInv, NEW answer \in ReturnValue, HandlerReturns(answer)
  PROVE  Relay!Next \/ UNCHANGED <<Open, wire>>
<1>1. /\ TypeOK /\ calls # <<>> /\ Top \in Frame /\ Top.stage # "Write" /\ wire' = wire
      /\ Top.way = "Hooked"
  BY TopType, HandlersMessage DEF HandlerReturns, HandlerRuns, IInv, StackIsSound
<1>2. PICK next \in NextAfter(answer) :
        SetTop([Top EXCEPT !.result = NewResult(Top, answer), !.at = next])
  BY DEF HandlerReturns
<1> DEFINE frame == [Top EXCEPT !.result = NewResult(Top, answer), !.at = next]
<1>3. next \in Nat
  BY <1>1, <1>2, NextHooksType DEF NextAfter, Frame
<1>4. NewResult(Top, answer) \in ReturnValue
  BY <1>1 DEF NewResult, Frame
<1>5. /\ frame \in Frame /\ frame.type = Top.type /\ frame.own = Top.own /\ frame.way = Top.way
      /\ frame.stage = Top.stage /\ frame.result = NewResult(Top, answer)
  BY <1>1, <1>3, <1>4 DEF Frame
<1>6. SetTop(frame)
  BY <1>2
<1> HIDE DEF frame
<1>7. CASE Fate(frame) = Fate(Top)
  BY <1>1, <1>5, <1>6, <1>7, SetTopStutters DEF View
<1>8. CASE Fate(frame) # Fate(Top)
  <2>1. Top.stage = "Pre" /\ Fate(Top) = "Open" /\ Fate(frame) = "Dropped"
    BY <1>1, <1>5, <1>8 DEF Fate, NewResult, Frame, Kind
  <2>2. View(frame) = [View(Top) EXCEPT !.fate = "Dropped"] /\ View(Top).fate = "Open"
    BY <1>5, <2>1 DEF View
  <2>3. Relay!Drop
    BY <1>1, <1>5, <1>6, <2>2, SetTopView, LastIsTop DEF Relay!Drop
  <2>4. QED
    BY <1>1, <2>3, LastIsTop DEF Relay!Next
<1>9. QED
  BY <1>7, <1>8

\* Message::exec() sends the message as its handlers left it.
LEMMA ExecMessageSimulation ==
  ASSUME IInv, ExecMessage
  PROVE  Relay!Next
<1>1. /\ TypeOK /\ calls # <<>> /\ Top \in Frame /\ Top.stage = "Pre" /\ Top.result = "Ignored"
      /\ Top.way = "Hooked" /\ StartLoop("Post") /\ wire' = message
  BY TopType, HandlersMessage DEF ExecMessage, LoopEnded, IInv
<1>2. message = [type |-> Top.type, params |-> Top.own] /\ message.type \in Type
  BY <1>1, TopType, HookedIsAlone DEF Frame
<1>3. PICK frame \in Frame :
        /\ SetTop(frame) /\ frame.stage = "Post" /\ frame.way = Top.way /\ frame.type = Top.type
        /\ frame.own = Top.own /\ frame.result = Top.result
  BY <1>1, <1>2, StartLoopEffect DEF Kind
<1>4. View(frame) = [View(Top) EXCEPT !.fate = "Sent"] /\ View(Top).fate = "Open"
      /\ View(Top).type = message.type /\ View(Top).params = message.params
  BY <1>1, <1>2, <1>3 DEF View, Fate
<1>5. Relay!Replace([Relay!last EXCEPT !.fate = "Sent"]) /\ Relay!last.fate = "Open"
  BY <1>1, <1>3, <1>4, SetTopView, LastIsTop
<1>6. Relay!Deliver
  BY <1>1, <1>2, <1>4, LastIsTop DEF Relay!Deliver
<1>7. QED
  BY <1>1, <1>5, <1>6, LastIsTop DEF Relay!Next, Relay!Send

\* MessageEnd() ends a message that was sent or refused.
LEMMA MessageEndsSimulation ==
  ASSUME IInv, MessageEnds
  PROVE  Relay!Next
<1>1. /\ TypeOK /\ calls # <<>> /\ Pop /\ wire' = wire
      /\ Top.stage = "Post" \/ Top.result # "Ignored"
  BY DEF MessageEnds, LoopEnded, IInv
<1>2. Relay!last.fate # "Open"
  BY <1>1, LastIsTop DEF View, Fate
<1>3. QED
  BY <1>1, <1>2, LastIsTop, PopView DEF Relay!Next, Relay!End

\* A change of hooks is not seen.
LEMMA HooksChangeSimulation ==
  ASSUME IInv, NEW t \in Type, NEW newHooks \in Seq(MessageHook), NEW breaks \in BOOLEAN,
         HooksChange(t, newHooks, breaks)
  PROVE  UNCHANGED <<Open, wire>>
<1>1. calls \in Seq(Frame) /\ wire' = wire
  BY DEF IInv, TypeOK, HooksChange
<1>2. /\ calls' \in Seq(Frame) /\ Len(calls') = Len(calls)
      /\ \A i \in DOMAIN calls :
           \E d \in BOOLEAN : calls'[i] = [calls[i] EXCEPT !.defined = d]
  BY HooksChangeEffect DEF IInv
<1>3. ASSUME NEW i \in 1..Len(calls)
      PROVE  View(calls'[i]) = View(calls[i])
  <2>1. calls[i] \in Frame
    BY <1>1
  <2>2. PICK d \in BOOLEAN : calls'[i] = [calls[i] EXCEPT !.defined = d]
    BY <1>1, <1>2
  <2>3. QED
    BY <2>1, <2>2 DEF Frame, View, Fate
<1>4. ViewOf(calls') = ViewOf(calls)
  BY <1>1, <1>2, <1>3 DEF ViewOf
<1>5. QED
  BY <1>1, <1>4, OpenIsView

\* A handler that sets an argument rewrites its message.
LEMMA SetMsgArgSimulation ==
  ASSUME IInv, NEW i \in 1..MaxParams, NEW v \in Value, SetMsgArg(i, v)
  PROVE  Relay!Next
<1> DEFINE frame == [Top EXCEPT !.own = [Top.own EXCEPT ![i] = v]]
<1>1. /\ TypeOK /\ calls # <<>> /\ Top \in Frame /\ Top.stage # "Write" /\ Top.way = "Hooked"
      /\ wire' = wire
  BY TopType, HandlersMessage DEF SetMsgArg, HandlerRuns, IInv, StackIsSound
<1>2. i \in DOMAIN Top.own
  BY <1>1, HookedIsAlone DEF SetMsgArg
<1>3. SetTop(frame)
  BY <1>1, <1>2 DEF SetMsgArg
<1>4. Top.own \in Seq(Value) /\ [Top.own EXCEPT ![i] = v] \in Seq(Value)
  BY <1>1, <1>2 DEF Frame
<1>5. /\ frame \in Frame /\ frame.type = Top.type /\ frame.own = [Top.own EXCEPT ![i] = v]
      /\ frame.way = Top.way /\ frame.stage = Top.stage /\ frame.result = Top.result
  BY <1>1, <1>4 DEF Frame
<1> HIDE DEF frame
<1>6. View(frame) = [View(Top) EXCEPT !.params[i] = v] /\ View(Top).params = Top.own
  BY <1>5 DEF View, Fate
<1>7. Relay!Rewrite(i, v)
  BY <1>1, <1>2, <1>3, <1>5, <1>6, SetTopView, LastIsTop DEF Relay!Rewrite
<1>8. i \in DOMAIN Relay!last.params
  BY <1>1, <1>2, <1>6, LastIsTop
<1>9. QED
  BY <1>1, <1>7, <1>8, LastIsTop DEF Relay!Next

\* The manager implements the relay: whatever blocked and direct messages the
\* handlers of a message send, each message reaches the engine once, as its
\* sender and its own handlers left it, or is dropped by a block or a hook.
THEOREM Refinement == PassingBy => (Spec => ImplementsRelay)
<1> SUFFICES ASSUME PassingBy PROVE Spec => ImplementsRelay
  OBVIOUS
<1>1. IInv /\ [Next]_vars => [Relay!Next]_<<Open, wire>>
  <2> SUFFICES ASSUME IInv, [Next]_vars
               PROVE  Relay!Next \/ UNCHANGED <<Open, wire>>
    OBVIOUS
  <2>1. CASE SenderStep
    BY <2>1, BeginSimulation, WriteSimulation, EndBlockedSimulation, EndPlainSimulation,
       EndHookedSimulation DEF SenderStep
  <2>2. CASE HookStep
    BY <2>2, HandlerReturnsSimulation, ExecMessageSimulation, MessageEndsSimulation DEF HookStep
  <2>3. CASE NativeStep
    <3>1. ASSUME NEW t \in Type,
                 \/ \E id \in Hook, kind \in Kind : RegisterHook(t, id, kind)
                 \/ \E i \in DOMAIN hooks[t] : UnregisterHook(t, i)
          PROVE  UNCHANGED <<Open, wire>>
      BY <3>1, HooksChanges, HooksChangeSimulation DEF IInv
    <3>2. ASSUME UNCHANGED <<wire, calls>>
          PROVE  UNCHANGED <<Open, wire>>
      BY <3>2, OpenIsView
    <3>3. QED
      BY <2>3, <3>1, <3>2, SetMsgArgSimulation
         DEF NativeStep, SetActive, SetMessageBlock, ClearMessages
  <2>4. CASE UNCHANGED vars
    BY <2>4, OpenIsView DEF vars
  <2>5. QED
    BY <2>1, <2>2, <2>3, <2>4 DEF Next
<1>2. Init => Relay!Init
  BY InitSimulation
<1>3. QED
  BY <1>1, <1>2, InductiveInvariant, PTL DEF Spec, ImplementsRelay, Relay!Spec
----------------------------------------------------------------------------
(* Blocks.                                                                 *)

\* The end of a blocked message lifts the block of its own type, if it was for
\* one message: m_msgType is still that of the message that ends.
LEMMA EndBlockedSpendsBlock ==
  ASSUME IInv, EndBlocked, NEW t \in Type
  PROVE  /\ BlockedEnds(t) => blocks'[t] = IF blocks[t] = "Once" THEN "Not" ELSE blocks[t]
         /\ blocks'[t] # blocks[t] => BlockedEnds(t)
<1>1. calls # <<>> /\ Pop /\ Top.way = "Blocked" /\ TypeOK /\ Writing
  BY DestinationOfWay DEF EndBlocked, Writing, IInv
<1>2. msgType = Top.type /\ Top \in Frame
  BY <1>1, TopType DEF IInv, NestedPassBy
<1>3. Top.type \in Type /\ blocks' = Unblocked(Top.type)
  BY <1>2 DEF EndBlocked, Frame
<1>4. Len(calls') < Len(calls)
  BY <1>1, PopEffect
<1>5. QED
  BY <1>1, <1>3, <1>4 DEF BlockedEnds, Unblocked, TypeOK

\* No other step ends a blocked message.
LEMMA NoBlockedEnds ==
  ASSUME IInv, Len(calls') >= Len(calls) \/ Top.way # "Blocked", NEW t \in Type
  PROVE  ~BlockedEnds(t)
<1>1. Len(calls) \in Nat
  BY DEF IInv, TypeOK
<1>2. CASE Top.way # "Blocked"
  BY <1>2 DEF BlockedEnds
<1>3. CASE Len(calls') >= Len(calls)
  BY <1>1, <1>3 DEF BlockedEnds
<1>4. QED
  BY <1>2, <1>3

\* A block for one message is spent by one message of its type, a permanent
\* one by none, though blocked messages are sent from within hooks.
THEOREM BlocksAreSpentOnce == PassingBy => (Spec => OnceBlocksOne)
<1> DEFINE Spent(t) ==
      /\ BlockedEnds(t) => blocks'[t] = IF blocks[t] = "Once" THEN "Not" ELSE blocks[t]
      /\ blocks'[t] # blocks[t] => BlockedEnds(t) \/ calls' = calls
<1> SUFFICES ASSUME PassingBy PROVE Spec => OnceBlocksOne
  OBVIOUS
<1>1. ASSUME IInv, [Next]_vars, NEW t \in Type
      PROVE  Spent(t)
  <2>1. TypeOK /\ Len(calls) \in Nat
    BY <1>1 DEF IInv, TypeOK
  <2>2. CASE EndBlocked
    BY <1>1, <2>2, EndBlockedSpendsBlock
  <2>3. CASE EndPlain \/ MessageEnds
    <3>1. Top.way # "Blocked" /\ blocks' = blocks
      <4>1. CASE EndPlain
        BY <1>1, <4>1, DestinationOfWay DEF EndPlain, manager
      <4>2. CASE MessageEnds
        BY <1>1, <4>2, HandlersMessage DEF MessageEnds, LoopEnded
      <4>3. QED
        BY <2>3, <4>1, <4>2
    <3>2. QED
      BY <1>1, <3>1, NoBlockedEnds
  <2>4. ASSUME blocks' = blocks, Len(calls') >= Len(calls)
        PROVE  Spent(t)
    BY <1>1, <2>4, NoBlockedEnds
  <2>5. ASSUME calls' = calls
        PROVE  Spent(t)
    BY <1>1, <2>1, <2>5, NoBlockedEnds
  <2>6. CASE EndHooked \/ ExecMessage \/ \E answer \in ReturnValue : HandlerReturns(answer)
    <3>1. blocks' = blocks /\ calls # <<>> /\ \E frame \in Frame : SetTop(frame)
      BY <1>1, <2>6, HooksStep DEF manager
    <3>2. Len(calls') = Len(calls)
      BY <2>1, <3>1, SetTopEffect
    <3>3. QED
      BY <2>1, <2>4, <3>1, <3>2
  <2>7. ASSUME NEW type \in Type, NEW sender \in Senders, NEW origin \in Origins,
               \/ BeginBlocked(type, sender, origin) \/ BeginHooked(type, sender, origin)
               \/ BeginPlain(type, sender, origin)   \/ BeginDirect(type, sender, origin)
        PROVE  Spent(t)
    <3>1. blocks' = blocks /\ \E way \in Way : Begin(type, way, sender, origin)
      BY <2>7 DEF BeginBlocked, BeginHooked, BeginPlain, BeginDirect, Way, manager
    <3>2. Len(calls') = Len(calls) + 1
      BY <2>1, <3>1, BeginEffect
    <3>3. QED
      BY <2>1, <2>4, <3>1, <3>2
  <2>8. ASSUME NEW v \in Value, WriteParam(v)
        PROVE  Spent(t)
    <3>1. blocks' = blocks /\ Len(calls') = Len(calls)
      BY <2>1, <2>8 DEF WriteParam, SetTop, TypeOK
    <3>2. QED
      BY <2>1, <2>4, <3>1
  <2>9. ASSUME NEW type \in Type,
               \/ \E id \in Hook, kind \in Kind : RegisterHook(type, id, kind)
               \/ \E i \in DOMAIN hooks[type] : UnregisterHook(type, i)
        PROVE  Spent(t)
    <3>1. blocks' = blocks /\ Len(calls') = Len(calls)
      BY <2>1, <2>9, HooksChanges, HooksChangeEffect DEF HooksChange
    <3>2. QED
      BY <2>1, <2>4, <3>1
  <2>10. ASSUME NEW i \in 1..MaxParams, NEW v \in Value, SetMsgArg(i, v)
         PROVE  Spent(t)
    <3>1. blocks' = blocks /\ Len(calls') = Len(calls)
      BY <2>1, <2>10 DEF SetMsgArg, SetTop, TypeOK
    <3>2. QED
      BY <2>1, <2>4, <3>1
  <2>11. CASE UNCHANGED vars
    BY <2>5, <2>11 DEF vars
  <2> HIDE DEF Spent
  <2>12. CASE SenderStep
    BY <2>2, <2>3, <2>6, <2>7, <2>8, <2>12 DEF SenderStep
  <2>13. CASE HookStep
    BY <2>3, <2>6, <2>13 DEF HookStep
  <2>14. CASE NativeStep
    BY <2>5, <2>9, <2>10, <2>14 DEF NativeStep, SetActive, SetMessageBlock, ClearMessages
  <2>15. QED
    BY <1>1, <2>11, <2>12, <2>13, <2>14 DEF Next
<1>2. IInv /\ [Next]_vars => [\A t \in Type : Spent(t)]_vars
  BY <1>1
<1>3. QED
  BY <1>2, InductiveInvariant, PTL DEF Spec, OnceBlocksOne
============================================================================
