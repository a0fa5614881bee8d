---------------------------- MODULE ClientEvents ----------------------------
(***************************************************************************)
(* The handlers of src/dllapi.cpp for clients: their connections           *)
(* (PlayerMngr) and their commands (CmdMngr).  The engine calls one at a   *)
(* time, so a command starts when no event is running and the other way    *)
(* round; plugins register commands whenever their code runs.              *)
(***************************************************************************)
EXTENDS PlayerMngr, CmdMngr

ASSUME ClientsHaveSlots == Client \subseteq Slot

vars == <<playerVars, cmdVars>>

Init == PlayerInit /\ CmdInit

\* Plugin code registers commands from any forward, and when the map starts.
Register ==
  /\ \E c \in Pattern : RegisterClient(c) \/ RegisterServer(c)
  /\ UNCHANGED playerVars

\* The line of a client who is in the game, or of the server's console.
StartLine ==
  /\ event = Idle
  /\ \E t \in Typed : ServerTypes(t) \/ \E i \in Client : client[i] = "spawned" /\ ClientTypes(i, t)
  /\ UNCHANGED playerVars

Next ==
  \/ line = NoLine /\ PlayerEvent /\ UNCHANGED cmdVars
  \/ line = NoLine /\ ChangeMap /\ ClearCommands
  \/ Register
  \/ StartLine
  \/ CmdHandlerStep /\ UNCHANGED playerVars

Spec == Init /\ [][Next]_vars

\* The strengthening that the proofs use.
IInv == PlayerIInv /\ CmdIInv
=============================================================================
