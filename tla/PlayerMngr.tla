----------------------------- MODULE PlayerMngr -----------------------------
(***************************************************************************)
(* Players (src/PlayerSystem.cpp), the engine events that drive them       *)
(* (src/dllapi.cpp and the SV_DropClient hook of src/RehldsApi.cpp) and    *)
(* what the natives of PlayerNatives.cpp tell plugins about them.          *)
(*                                                                         *)
(* The engine has its own idea of each client slot, `client'; SPMod's is   *)
(* the Player object of that slot.  Plugin code runs in the forwards, in   *)
(* the middle of the handlers: `event' is the forward (or the exit handler *)
(* of a menu) that is running, and the rest of its handler is the action   *)
(* that ends it.                                                           *)
(***************************************************************************)
EXTENDS Integers, Sequences, FiniteSets, SequencesExt

CONSTANTS
  MaxClients,    \* m_maxClients
  Name,          \* names and addresses of clients
  SteamID,       \* IDs the engine gives to authorized clients
  BOT,           \* the ID of a fake client
  Wrap,          \* 2^32, where m_playersNum wraps around
  MaxPending,    \* bound on the length of m_playersToAuth
  Cooldown,      \* frames in the 0.5 seconds between two checks
  PendingAtChange   \* may the map change while players wait for authorization?

ASSUME SlotsAndBounds ==
  /\ MaxClients \in Nat \ {0} /\ MaxPending \in Nat /\ Cooldown \in Nat \ {0}
  /\ Wrap \in Nat /\ MaxClients < Wrap
ASSUME BotIsAnID == BOT \in SteamID /\ {"", "pending"} \cap (SteamID \cup Name) = {}
ASSUME ChoiceIsMade == PendingAtChange \in BOOLEAN

VARIABLES
  players,       \* m_players: the object of each slot
  playersNum,    \* m_playersNum
  toAuth,        \* m_playersToAuth: slots, and whether the object still exists
  wait,          \* m_nextAuthCheck, relative to gpGlobals->time
  event,         \* the plugin code that runs, and the slot it is about
  client,        \* the engine: what became of the client in each slot
  authid,        \* the engine: GETPLAYERAUTHID
  drifted        \* history: was a client counted twice, or not uncounted?

playerVars == <<players, playersNum, toAuth, wait, event, client, authid, drifted>>
engineVars == <<client, authid, drifted>>

Slot == 1..MaxClients

Idle == [name |-> "none", slot |-> 0]

EventName == {"CONNECT", "CONNECTED", "ENTER", "ENTERED", "DISCONNECT", "EXIT", "DISCONNECTED"}

\* A Player as its constructor leaves it.
NewPlayer ==
  [connected |-> FALSE, inGame |-> FALSE, name |-> "", ip |-> "", steamID |-> "", menu |-> FALSE]

\* Slots of the engine: free, taken by a client who has not been announced
\* (again, after a change of level), connected, spawned, or about to be
\* dropped since the game or a plugin refused the connection.
ClientState == {"free", "new", "again", "connected", "spawned", "refused"}

PlayerInit ==
  /\ players = [i \in Slot |-> NewPlayer]
  /\ playersNum = 0 /\ toAuth = <<>> /\ wait = 0
  /\ event = Idle
  /\ client = [i \in Slot |-> "free"] /\ authid = [i \in Slot |-> ""]
  /\ drifted = FALSE

----------------------------------------------------------------------------
(* Connecting.                                                             *)

Running(name, i) == event = [name |-> name, slot |-> i]

Start(name, i) == event' = [name |-> name, slot |-> i]

\* The engine gives a slot to a client, whose ID it may not know yet.
TakeSlot(i) ==
  /\ event = Idle /\ client[i] = "free"
  /\ client' = [client EXCEPT ![i] = "new"]
  /\ \E id \in SteamID \cup {"", "pending"} : authid' = [authid EXCEPT ![i] = id]
  /\ UNCHANGED <<players, playersNum, toAuth, wait, event, drifted>>

\* The engine learns the ID later.
LateAuthid(i) ==
  /\ event = Idle /\ client[i] # "free" /\ authid[i] \in {"", "pending"}
  /\ \E id \in (SteamID \ {BOT}) \cup {"pending"} : authid' = [authid EXCEPT ![i] = id]
  /\ UNCHANGED <<players, playersNum, toAuth, wait, event, client, drifted>>

\* ClientConnect(): the forward asks plugins whether the client may join.
ClientConnect(i) ==
  /\ event = Idle /\ client[i] \in {"new", "again"}
  /\ Len(toAuth) < MaxPending
  /\ Start("CONNECT", i)
  /\ UNCHANGED <<players, playersNum, toAuth, wait, engineVars>>

MustWait(i) == authid[i] \in {"", "pending"}

Connected(i, name) ==
  [players EXCEPT ![i] = [@ EXCEPT !.connected = TRUE, !.name = name, !.ip = name,
                                   !.steamID = IF MustWait(i) THEN players[i].steamID ELSE authid[i]]]

\* ClientConnectPost(): runs whether or not the connection was refused.
ClientConnectPost(i) ==
  /\ Running("CONNECT", i)
  /\ \E name \in Name : players' = Connected(i, name)
  /\ playersNum' = (playersNum + 1) % Wrap
  /\ toAuth' = IF MustWait(i) THEN Append(toAuth, [slot |-> i, live |-> TRUE]) ELSE toAuth
  /\ Start("CONNECTED", i)
  /\ \E refused \in BOOLEAN :
       client' = [client EXCEPT ![i] = IF refused THEN "refused" ELSE "connected"]
  /\ drifted' = (drifted \/ client[i] = "again")
  /\ UNCHANGED <<wait, authid>>

ClientPutInServer(i) ==
  /\ event = Idle /\ client[i] = "connected"
  /\ Start("ENTER", i)
  /\ UNCHANGED <<players, playersNum, toAuth, wait, engineVars>>

ClientPutInServerPost(i) ==
  /\ Running("ENTER", i)
  /\ players' = [players EXCEPT ![i] = [@ EXCEPT !.inGame = TRUE]]
  /\ client' = [client EXCEPT ![i] = "spawned"]
  /\ Start("ENTERED", i)
  /\ UNCHANGED <<playersNum, toAuth, wait, authid, drifted>>

\* ClientUserInfoChangedPost(): also before the client has been announced.
ClientUserInfoChangedPost(i) ==
  /\ event = Idle /\ client[i] # "free"
  /\ \E name \in Name : players' = [players EXCEPT ![i] = [@ EXCEPT !.name = name]]
  /\ UNCHANGED <<playersNum, toAuth, wait, event, engineVars>>

\* The last forward of a handler returns.
HandlerEnds ==
  /\ event.name \in {"CONNECTED", "ENTERED", "DISCONNECTED"}
  /\ event' = Idle
  /\ UNCHANGED <<players, playersNum, toAuth, wait, engineVars>>

----------------------------------------------------------------------------
(* Leaving: SV_DropClientHook().                                           *)

\* In the game "valve"; in all others basePlayer() is nullptr and the hook
\* goes on with it.  The engine also drops clients it has not announced.
DropClient(i) ==
  /\ event = Idle
  /\ client[i] # "free"
  /\ Start("DISCONNECT", i)
  /\ UNCHANGED <<players, playersNum, toAuth, wait, engineVars>>

ForgottenKeepsID(p) ==             \* mutant: the ID stays with the slot
  [p EXCEPT !.menu = FALSE, !.name = "", !.ip = ""]

\* disconnect() after closeMenu(), whose last step drops the menu.
Forgotten(p) == [p EXCEPT !.menu = FALSE, !.name = "", !.ip = "", !.steamID = ""]

DroppedStaysInGame(p) ==           \* mutant: only m_connected is cleared
  [p EXCEPT !.connected = FALSE]

\* disconnect() up to closeMenu().
Dropped(p) == [p EXCEPT !.connected = FALSE, !.inGame = FALSE]

UncountedIfEntered(i) ==           \* mutant: players who never entered stay counted
  IF players[i].inGame THEN (playersNum - 1) % Wrap ELSE playersNum

Uncounted(i) == (playersNum - 1) % Wrap

\* The chain goes on, the engine frees the slot, and disconnect() closes the
\* menu, which runs its exit handler.
DropReturns(i) ==
  /\ Running("DISCONNECT", i)
  /\ client' = [client EXCEPT ![i] = "free"]
  /\ authid' = [authid EXCEPT ![i] = ""]
  /\ playersNum' = Uncounted(i)
  /\ IF players[i].menu
     THEN players' = [players EXCEPT ![i] = Dropped(@)] /\ Start("EXIT", i)
     ELSE players' = [players EXCEPT ![i] = Forgotten(Dropped(@))] /\ Start("DISCONNECTED", i)
  /\ drifted' = (drifted \/ client[i] = "new")
  /\ UNCHANGED <<toAuth, wait>>

ExitHandlerReturns(i) ==
  /\ Running("EXIT", i)
  /\ players' = [players EXCEPT ![i] = Forgotten(@)]
  /\ Start("DISCONNECTED", i)
  /\ UNCHANGED <<playersNum, toAuth, wait, engineVars>>

----------------------------------------------------------------------------
(* Authorization and the change of map.                                    *)

\* The test of the check: it takes the players whose ID is still pending.
Taken(e) == authid[e.slot] = "pending"

\* What is left of the first k entries after the walk over them.
StillWaiting[k \in 0..Len(toAuth)] ==
  IF k = 0 THEN <<>> ELSE
  IF Taken(toAuth[k]) THEN StillWaiting[k-1] ELSE Append(StillWaiting[k-1], toAuth[k])

StartFrame ==
  /\ event = Idle
  /\ IF wait > 0 THEN wait' = wait - 1 /\ UNCHANGED <<players, toAuth>>
     ELSE /\ toAuth # <<>>
          /\ \A k \in DOMAIN toAuth : toAuth[k].live
          /\ wait' = Cooldown
          /\ players' = [i \in Slot |->
               IF \E k \in DOMAIN toAuth : toAuth[k].slot = i /\ Taken(toAuth[k])
               THEN [players[i] EXCEPT !.steamID = authid[i]] ELSE players[i]]
          /\ toAuth' = StillWaiting[Len(toAuth)]
  /\ UNCHANGED <<playersNum, event, engineVars>>

\* ServerDeactivatePost() forgets the menus, ServerActivatePost() makes new
\* objects.  A client stays and is announced again, or is dropped between the
\* two, where the hook is not installed and nothing uncounts him; m_nextAuthCheck
\* is absolute and may lie anywhere ahead of the new time.
ChangeMap ==
  /\ event = Idle
  /\ PendingAtChange \/ toAuth = <<>>
  /\ "refused" \notin {client[i] : i \in Slot}
  /\ players' = [i \in Slot |-> NewPlayer]
  /\ toAuth' = [k \in DOMAIN toAuth |-> [toAuth[k] EXCEPT !.live = FALSE]]
  /\ wait' \in 0..Cooldown
  /\ \E stay \in SUBSET {i \in Slot : client[i] # "free"} :
       /\ client' = [i \in Slot |-> IF i \notin stay THEN "free" ELSE
                                    IF client[i] \in {"connected", "spawned"} THEN "again"
                                    ELSE client[i]]
       /\ authid' = [i \in Slot |-> IF i \in stay THEN authid[i] ELSE ""]
       /\ drifted' = (drifted \/ \E i \in Slot \ stay : client[i] \notin {"free", "new"})
  /\ UNCHANGED <<playersNum, event>>

\* What plugins do with menus, seen from here; they show them to players who
\* are in the game.
ShowMenu(i) ==
  /\ event # Idle /\ players[i].inGame
  /\ \E shown \in BOOLEAN : players' = [players EXCEPT ![i] = [@ EXCEPT !.menu = shown]]
  /\ UNCHANGED <<playersNum, toAuth, wait, event, engineVars>>

PlayerEvent ==
  \/ \E i \in Slot :
       \/ TakeSlot(i) \/ LateAuthid(i) \/ ClientUserInfoChangedPost(i) \/ ShowMenu(i)
       \/ ClientConnect(i) \/ ClientConnectPost(i)
       \/ ClientPutInServer(i) \/ ClientPutInServerPost(i)
       \/ DropClient(i) \/ DropReturns(i) \/ ExitHandlerReturns(i)
  \/ HandlerEnds \/ StartFrame

----------------------------------------------------------------------------
(* The natives: each takes any index and begins with getPlayer().          *)

HasPlayer(i) == i \in Slot

IsFake(i) == authid[i] = BOT \/ players[i].steamID = BOT

\* The refusals of sendMsg().
MayBeTexted(i) == players[i].inGame /\ ~IsFake(i)

\* What a plugin reads of a player's state; an index without one is an error.
Told(i) ==
  IF ~HasPlayer(i) THEN [error |-> TRUE]
  ELSE [error |-> FALSE, connected |-> players[i].connected, inGame |-> players[i].inGame,
        fake |-> IsFake(i), texted |-> MayBeTexted(i)]

\* And of who it is.
Identity(i) == [name |-> players[i].name, ip |-> players[i].ip, steamID |-> players[i].steamID]

----------------------------------------------------------------------------
(* Properties.                                                             *)

\* The objects and the entries of m_playersToAuth.
Player ==
  [connected: BOOLEAN, inGame: BOOLEAN, name: Name \cup {""}, ip: Name \cup {""},
   steamID: SteamID \cup {"", "pending"}, menu: BOOLEAN]

Pending == [slot: Slot, live: BOOLEAN]

\* Types and bounds of the variables.
PlayerTypeOK ==
  /\ players \in [Slot -> Player]
  /\ playersNum \in 0..Wrap - 1
  /\ toAuth \in Seq(Pending) /\ Len(toAuth) <= MaxPending
  /\ wait \in 0..Cooldown
  /\ event \in [name: EventName, slot: Slot] \cup {Idle}
  /\ client \in [Slot -> ClientState] /\ authid \in [Slot -> SteamID \cup {"", "pending"}]
  /\ drifted \in BOOLEAN

\* Whatever index a plugin asks for, also in the middle of an event, the
\* natives (PlayerNatives.cpp) tell the state the engine's client is in, and
\* text messages go to clients who are in the game only.
NativesTellTheTruth ==
  /\ PlayerTypeOK
  /\ \A i \in 0..MaxClients + 1 :
       /\ Told(i).error <=> i \notin Slot
       /\ i \in Slot =>
            /\ Told(i).connected <=> client[i] \in {"connected", "spawned", "refused"}
            /\ Told(i).inGame <=> client[i] = "spawned"
            /\ Told(i).texted => client[i] = "spawned" /\ authid[i] # BOT
            /\ Told(i).connected => "" \notin {Identity(i).name, Identity(i).ip}
            /\ authid[i] = BOT => Told(i).fake

\* A client never inherits from the one who had the slot before: an ID of the
\* engine is the ID of the client who is connected, and menus and addresses
\* are gone when a slot is free (Player::disconnect).
NothingInherited ==
  \A i \in Slot :
    /\ players[i].steamID \in SteamID /\ ~Running("EXIT", i) => players[i].steamID = authid[i]
    /\ client[i] \in {"free", "new"} /\ ~Running("EXIT", i) => ~players[i].menu /\ players[i].ip = ""

\* getNumPlayers() is the number of connected clients, refused connections and
\* clients dropped before they entered included, until a client has been
\* announced again after a change of level (ClientConnectPost counts it twice),
\* dropped before it was announced, or dropped while the hook is away.
CountIsExact ==
  ~drifted => playersNum = Cardinality({i \in Slot : client[i] \notin {"free", "new"}})

\* What the proofs rest on: an event is about a client that its handler can
\* find, and the engine knows no ID for a slot without one.
EventsFitClients ==
  /\ \A i \in Slot :
       /\ Running("CONNECT", i) => client[i] \in {"new", "again"}
       /\ Running("ENTER", i) => client[i] = "connected"
       /\ Running("DISCONNECT", i) => client[i] # "free"
       /\ Running("EXIT", i) => client[i] = "free"

FreeSlotsHaveNoID == \A i \in Slot : client[i] = "free" => authid[i] = ""

\* The bound on m_playersToAuth, for the client who is connecting.
RoomIsLeft == event.name = "CONNECT" => Len(toAuth) < MaxPending

PlayerIInv ==
  /\ NativesTellTheTruth /\ NothingInherited /\ CountIsExact
  /\ EventsFitClients /\ FreeSlotsHaveNoID /\ RoomIsLeft
=============================================================================
