---------------------------- MODULE MessageRelay ----------------------------
(***************************************************************************)
(* What a sender of user messages, and the plugins that hook them, may     *)
(* rely on.  Messages are nested: a hook handler may send others while     *)
(* the message it was called for is open.  Each message is delivered to    *)
(* the engine exactly once, as its sender wrote it and its own handlers    *)
(* rewrote it, unless it is dropped; a dropped message is never delivered. *)
(***************************************************************************)
EXTENDS Naturals, Sequences

CONSTANTS
  Type,          \* types of messages
  Value,         \* values of parameters
  NoType         \* the type of the message delivered before the first

VARIABLES
  open,          \* stack of the messages begun and not ended, innermost last
  wire           \* the message delivered last

Fate == {"Open", "Dropped", "Sent"}

Message == [type: Type \cup {NoType}, params: Seq(Value)]

Init ==
  /\ open = <<>>
  /\ wire = [type |-> NoType, params |-> <<>>]

last == open[Len(open)]

Replace(m) == open' = [open EXCEPT ![Len(open)] = m]

Closed == SubSeq(open, 1, Len(open) - 1)

Deliver == wire' = [type |-> last.type, params |-> last.params]

\* A message blocked by its type is dropped from the start.
Begin(t, fate) ==
  /\ fate \in {"Open", "Dropped"}
  /\ open' = Append(open, [type |-> t, params |-> <<>>, fate |-> fate])
  /\ UNCHANGED wire

Write(v) ==
  /\ Replace([last EXCEPT !.params = Append(@, v)])
  /\ UNCHANGED wire

Rewrite(i, v) ==
  /\ i \in DOMAIN last.params
  /\ Replace([last EXCEPT !.params[i] = v])
  /\ UNCHANGED wire

Drop ==
  /\ last.fate = "Open"
  /\ Replace([last EXCEPT !.fate = "Dropped"])
  /\ UNCHANGED wire

Send ==
  /\ last.fate = "Open"
  /\ Replace([last EXCEPT !.fate = "Sent"])
  /\ Deliver

\* A message ends once it is settled ...
End ==
  /\ last.fate # "Open"
  /\ open' = Closed
  /\ UNCHANGED wire

\* ... or when it ends without having met a hook.
SendAndEnd ==
  /\ last.fate = "Open"
  /\ open' = Closed
  /\ Deliver

Next ==
  \/ \E t \in Type, fate \in Fate : Begin(t, fate)
  \/ /\ open # <<>>
     /\ \/ \E v \in Value : Write(v) \/ \E i \in DOMAIN last.params : Rewrite(i, v)
        \/ Drop \/ Send \/ End \/ SendAndEnd

Spec == Init /\ [][Next]_<<open, wire>>
=============================================================================
