------------------------- MODULE ClientEvents_proofs -------------------------
(***************************************************************************)
(* Proofs about the events and the commands of clients, for any number of  *)
(* slots, any names, IDs, commands, patterns and lines, and whatever       *)
(* functions answer.  The inductive invariant has a half for the players   *)
(* (PlayerIInv), which is proved slot by slot, and one for the commands    *)
(* (CmdIInv); no step changes both but the change of map.                  *)
(***************************************************************************)
EXTENDS ClientEvents, FiniteSetTheorems, SequenceTheorems, WellFoundedInduction, TLAPS

----------------------------------------------------------------------------
(* Numbers.                                                                *)

\* The pairs of numbers of which the first is smaller.
Below == {p \in Nat \X Nat : p[1] < p[2]}

\* Every set of numbers that is not empty has a smallest one.
LEMMA SmallestNumber ==
  ASSUME NEW T, T \subseteq Nat, T # {}
  PROVE  \E x \in T : \A y \in T : x <= y
<1>1. IsWellFoundedOn(Below, Nat)
  BY NatLessThanWellFounded DEF OpToRel, Below
<1>2. PICK x \in T : \A y \in T : ~(<<y, x>> \in Below)
  BY <1>1, WFMin
<1>3. \A y \in T : ~(y < x)
  BY <1>2 DEF Below
<1>4. QED
  BY <1>3

\* m_playersNum wraps around, but not while it counts slots.
LEMMA Wrapping ==
  /\ Wrap \in Nat \ {0}
  /\ \A n \in Int : n % Wrap \in 0..Wrap - 1
  /\ \A n \in 0..MaxClients : n % Wrap = n
<1>1. Wrap \in Nat \ {0} /\ MaxClients \in Nat /\ MaxClients < Wrap
  BY SlotsAndBounds
<1>2. \A n \in Int : n % Wrap \in 0..Wrap - 1
  BY <1>1
<1>3. \A n \in 0..MaxClients : n % Wrap = n
  BY <1>1
<1>4. QED
  BY <1>1, <1>2, <1>3

----------------------------------------------------------------------------
(* One slot: what its player object, the engine's client and ID and the    *)
(* event that is about it have to do with each other.                      *)

Fits(p, c, a, e) ==
  /\ p.connected <=> c \in {"connected", "spawned", "refused"}
  /\ p.inGame <=> c = "spawned"
  /\ p.connected => p.name # "" /\ p.ip # ""
  /\ p.steamID \in SteamID /\ e # "EXIT" => p.steamID = a
  /\ c \in {"free", "new"} /\ e # "EXIT" => ~p.menu /\ p.ip = ""
  /\ e = "CONNECT" => c \in {"new", "again"}
  /\ e = "ENTER" => c = "connected"
  /\ e = "DISCONNECT" => c # "free"
  /\ e = "EXIT" => c = "free"
  /\ c = "free" => a = ""

EventOf(i) == IF event.slot = i THEN event.name ELSE "none"

SlotFits(i) == Fits(players[i], client[i], authid[i], EventOf(i))

AllFit == \A i \in Slot : SlotFits(i)

\* What is running about a slot is the event about it.
LEMMA EventsOfSlots ==
  ASSUME PlayerTypeOK, NEW i \in Slot, NEW x \in EventName
  PROVE  Running(x, i) <=> EventOf(i) = x
<1>1. CASE event = Idle
  <2>1. event.slot = 0 /\ i # 0
    BY <1>1, SlotsAndBounds DEF Idle, Slot
  <2>2. EventOf(i) = "none"
    BY <2>1 DEF EventOf
  <2>3. x # "none"
    BY DEF EventName
  <2>4. ~Running(x, i)
    BY <1>1, <2>3 DEF Running, Idle
  <2>5. QED
    BY <2>2, <2>3, <2>4
<1>2. CASE event \in [name: EventName, slot: Slot]
  <2>1. event = [name |-> event.name, slot |-> event.slot]
    BY <1>2
  <2>2. Running(x, i) <=> event.name = x /\ event.slot = i
    BY <2>1 DEF Running
  <2>3. x # "none"
    BY DEF EventName
  <2>4. QED
    BY <2>2, <2>3 DEF EventOf
<1>3. QED
  BY <1>1, <1>2 DEF PlayerTypeOK

\* The half of the invariant about the players, slot by slot.
LEMMA BySlots == PlayerIInv <=> PlayerTypeOK /\ AllFit /\ CountIsExact /\ RoomIsLeft
<1>1. ASSUME PlayerIInv
      PROVE  PlayerTypeOK /\ AllFit /\ CountIsExact /\ RoomIsLeft
  <2>1. PlayerTypeOK /\ CountIsExact /\ RoomIsLeft
    BY <1>1 DEF PlayerIInv, NativesTellTheTruth
  <2>2. ASSUME NEW i \in Slot
        PROVE  SlotFits(i)
    <3>1. i \in 0..MaxClients + 1
      BY SlotsAndBounds DEF Slot
    <3>2. /\ Told(i).connected <=> client[i] \in {"connected", "spawned", "refused"}
          /\ Told(i).inGame <=> client[i] = "spawned"
          /\ Told(i).connected => "" \notin {Identity(i).name, Identity(i).ip}
      BY <1>1, <3>1 DEF PlayerIInv, NativesTellTheTruth
    <3>3. Told(i).connected = players[i].connected /\ Told(i).inGame = players[i].inGame
      BY DEF Told, HasPlayer
    <3>4. Identity(i).name = players[i].name /\ Identity(i).ip = players[i].ip
      BY DEF Identity
    <3>5. \A x \in EventName : Running(x, i) <=> EventOf(i) = x
      BY <2>1, EventsOfSlots
    <3>6. {"CONNECT", "ENTER", "DISCONNECT", "EXIT"} \subseteq EventName
      BY DEF EventName
    <3>7. /\ players[i].steamID \in SteamID /\ EventOf(i) # "EXIT" => players[i].steamID = authid[i]
          /\ client[i] \in {"free", "new"} /\ EventOf(i) # "EXIT" => ~players[i].menu /\ players[i].ip = ""
      BY <1>1, <3>5, <3>6 DEF PlayerIInv, NothingInherited
    <3>8. /\ EventOf(i) = "CONNECT" => client[i] \in {"new", "again"}
          /\ EventOf(i) = "ENTER" => client[i] = "connected"
          /\ EventOf(i) = "DISCONNECT" => client[i] # "free"
          /\ EventOf(i) = "EXIT" => client[i] = "free"
      BY <1>1, <3>5, <3>6 DEF PlayerIInv, EventsFitClients
    <3>9. client[i] = "free" => authid[i] = ""
      BY <1>1 DEF PlayerIInv, FreeSlotsHaveNoID
    <3>10. players[i].connected => players[i].name # "" /\ players[i].ip # ""
      BY <3>2, <3>3, <3>4
    <3>11. QED
      BY <3>2, <3>3, <3>7, <3>8, <3>9, <3>10 DEF SlotFits, Fits
  <2>3. QED
    BY <2>1, <2>2 DEF AllFit
<1>2. ASSUME PlayerTypeOK, AllFit, CountIsExact, RoomIsLeft
      PROVE  PlayerIInv
  <2>1. ASSUME NEW i \in Slot
        PROVE  /\ Fits(players[i], client[i], authid[i], EventOf(i))
               /\ \A x \in EventName : Running(x, i) <=> EventOf(i) = x
    BY <1>2, EventsOfSlots DEF AllFit, SlotFits
  <2>2. {"CONNECT", "ENTER", "DISCONNECT", "EXIT"} \subseteq EventName
    BY DEF EventName
  <2>3. NothingInherited
    BY <2>1, <2>2 DEF NothingInherited, Fits
  <2>4. EventsFitClients
    BY <2>1, <2>2 DEF EventsFitClients, Fits
  <2>5. FreeSlotsHaveNoID
    BY <2>1 DEF FreeSlotsHaveNoID, Fits
  <2>6. ASSUME NEW i \in 0..MaxClients + 1
        PROVE  /\ Told(i).error <=> i \notin Slot
               /\ i \in Slot =>
                    /\ Told(i).connected <=> client[i] \in {"connected", "spawned", "refused"}
                    /\ Told(i).inGame <=> client[i] = "spawned"
                    /\ Told(i).texted => client[i] = "spawned" /\ authid[i] # BOT
                    /\ Told(i).connected => "" \notin {Identity(i).name, Identity(i).ip}
                    /\ authid[i] = BOT => Told(i).fake
    <3>1. CASE i \notin Slot
      BY <3>1 DEF Told, HasPlayer
    <3>2. CASE i \in Slot
      <4>1. Told(i) = [error |-> FALSE, connected |-> players[i].connected, inGame |-> players[i].inGame,
                       fake |-> IsFake(i), texted |-> MayBeTexted(i)]
        BY <3>2 DEF Told, HasPlayer
      <4>2. /\ Told(i).error = FALSE
            /\ Told(i).connected = players[i].connected /\ Told(i).inGame = players[i].inGame
            /\ Told(i).fake = IsFake(i) /\ Told(i).texted = MayBeTexted(i)
        BY <4>1
      <4>3. /\ players[i].connected <=> client[i] \in {"connected", "spawned", "refused"}
            /\ players[i].inGame <=> client[i] = "spawned"
            /\ players[i].connected => players[i].name # "" /\ players[i].ip # ""
        BY <2>1, <3>2 DEF Fits
      <4>4. MayBeTexted(i) => client[i] = "spawned" /\ authid[i] # BOT
        BY <4>3 DEF MayBeTexted, IsFake
      <4>5. authid[i] = BOT => IsFake(i)
        BY DEF IsFake
      <4>6. players[i].connected => "" \notin {Identity(i).name, Identity(i).ip}
        BY <4>3 DEF Identity
      <4>7. QED
        BY <3>2, <4>2, <4>3, <4>4, <4>5, <4>6
    <3>3. QED
      BY <3>1, <3>2
  <2>7. NativesTellTheTruth
    BY <1>2, <2>6 DEF NativesTellTheTruth
  <2>8. QED
    BY <1>2, <2>3, <2>4, <2>5, <2>7 DEF PlayerIInv
<1>3. QED
  BY <1>1, <1>2

\* A step that is about one slot.
LEMMA OneSlot ==
  ASSUME AllFit, NEW i \in Slot,
         \A j \in Slot \ {i} : /\ players'[j] = players[j] /\ client'[j] = client[j]
                               /\ authid'[j] = authid[j] /\ EventOf(j)' = EventOf(j),
         Fits(players'[i], client'[i], authid'[i], EventOf(i)')
  PROVE  AllFit'
<1>1. Slot' = Slot
  BY DEF Slot
<1>2. ASSUME NEW j \in Slot
      PROVE  Fits(players'[j], client'[j], authid'[j], EventOf(j)')
  <2>1. CASE j = i
    BY <2>1
  <2>2. CASE j # i
    <3>1. Fits(players[j], client[j], authid[j], EventOf(j))
      BY DEF AllFit, SlotFits
    <3>2. QED
      BY <2>2, <3>1
  <2>3. QED
    BY <2>1, <2>2
<1>3. \A j \in Slot : SlotFits(j)'
  BY <1>2 DEF SlotFits, Fits
<1>4. QED
  BY <1>1, <1>3 DEF AllFit

\* An event starts about a slot, or goes on to its next forward: the other
\* slots have none.
LEMMA EventStarts ==
  ASSUME NEW i \in Slot, event = Idle \/ event.slot = i, NEW y, Start(y, i)
  PROVE  /\ EventOf(i)' = y
         /\ \A j \in Slot \ {i} : EventOf(j)' = EventOf(j)
<1>1. event' = [name |-> y, slot |-> i]
  BY DEF Start
<1>2. EventOf(i)' = y
  BY <1>1 DEF EventOf
<1>3. ASSUME NEW j \in Slot \ {i}
      PROVE  EventOf(j) = "none" /\ EventOf(j)' = "none"
  <2>1. event.slot = 0 \/ event.slot = i
    BY DEF Idle
  <2>2. j # 0
    BY SlotsAndBounds DEF Slot
  <2>3. event.slot # j /\ event'.slot # j
    BY <1>1, <2>1, <2>2
  <2>4. QED
    BY <2>3 DEF EventOf
<1>4. QED
  BY <1>2, <1>3

LEMMA RunningAbout ==
  ASSUME NEW i \in Slot, NEW x, Running(x, i)
  PROVE  event.slot = i /\ EventOf(i) = x /\ event # Idle
<1>1. event = [name |-> x, slot |-> i]
  BY DEF Running
<1>2. i # 0
  BY SlotsAndBounds DEF Slot
<1>3. QED
  BY <1>1, <1>2 DEF EventOf, Idle

LEMMA NoEvent ==
  ASSUME NEW i \in Slot, event = Idle
  PROVE  EventOf(i) = "none"
<1>1. event.slot = 0
  BY DEF Idle
<1>2. i # 0
  BY SlotsAndBounds DEF Slot
<1>3. QED
  BY <1>1, <1>2 DEF EventOf

LEMMA EventType ==
  ASSUME NEW i \in Slot, NEW x \in EventName, Start(x, i)
  PROVE  event' \in [name: EventName, slot: Slot] \cup {Idle}
  BY DEF Start

----------------------------------------------------------------------------
(* Counting the slots.                                                     *)

Counted == {i \in Slot : client[i] \notin {"free", "new"}}

LEMMA CountOfSlots ==
  ASSUME NEW S, S \subseteq Slot
  PROVE  IsFiniteSet(S) /\ Cardinality(S) \in 0..MaxClients
<1>1. MaxClients \in Nat
  BY SlotsAndBounds
<1>2. IsFiniteSet(Slot) /\ Cardinality(Slot) = MaxClients
  BY <1>1, FS_Interval DEF Slot
<1>3. IsFiniteSet(S) /\ Cardinality(S) <= Cardinality(Slot)
  BY <1>2, FS_Subset
<1>4. Cardinality(S) \in Nat
  BY <1>3, FS_CardinalityType
<1>5. QED
  BY <1>1, <1>2, <1>3, <1>4

LEMMA CountStays ==
  ASSUME CountIsExact, playersNum' = playersNum, drifted => drifted',
         drifted' \/ \A j \in Slot : client'[j] \in {"free", "new"} <=> client[j] \in {"free", "new"}
  PROVE  CountIsExact'
<1>1. SUFFICES ASSUME ~drifted'
               PROVE  playersNum' = Cardinality(Counted')
  BY DEF CountIsExact, Counted, Slot
<1>2. Slot' = Slot
  BY DEF Slot
<1>3. Counted' = Counted
  BY <1>1, <1>2 DEF Counted
<1>4. playersNum = Cardinality(Counted)
  BY <1>1 DEF CountIsExact, Counted
<1>5. QED
  BY <1>3, <1>4

LEMMA CountGrows ==
  ASSUME CountIsExact, NEW i \in Slot, playersNum' = (playersNum + 1) % Wrap, drifted => drifted',
         drifted' \/ client[i] \in {"free", "new"},
         client'[i] \notin {"free", "new"}, \A j \in Slot \ {i} : client'[j] = client[j]
  PROVE  CountIsExact'
<1>1. SUFFICES ASSUME ~drifted'
               PROVE  playersNum' = Cardinality(Counted')
  BY DEF CountIsExact, Counted, Slot
<1>2. Slot' = Slot
  BY DEF Slot
<1>3. Counted' = Counted \cup {i} /\ i \notin Counted
  BY <1>1, <1>2 DEF Counted
<1>4. playersNum = Cardinality(Counted)
  BY <1>1 DEF CountIsExact, Counted
<1>5. Counted \subseteq Slot /\ Counted \cup {i} \subseteq Slot
  BY DEF Counted
<1>6. IsFiniteSet(Counted) /\ Cardinality(Counted) \in Nat /\ Cardinality(Counted \cup {i}) \in 0..MaxClients
  <2>1. Cardinality(Counted) \in 0..MaxClients /\ IsFiniteSet(Counted)
    BY <1>5, CountOfSlots
  <2>2. Cardinality(Counted \cup {i}) \in 0..MaxClients
    BY <1>5, CountOfSlots
  <2>3. QED
    BY <2>1, <2>2
<1>7. Cardinality(Counted \cup {i}) = Cardinality(Counted) + 1
  BY <1>3, <1>6, FS_AddElement
<1>8. (Cardinality(Counted) + 1) % Wrap = Cardinality(Counted) + 1
  BY <1>6, <1>7, Wrapping
<1>9. QED
  BY <1>3, <1>4, <1>7, <1>8

LEMMA CountShrinks ==
  ASSUME CountIsExact, NEW i \in Slot, playersNum' = (playersNum - 1) % Wrap, drifted => drifted',
         drifted' \/ client[i] \notin {"free", "new"},
         client'[i] \in {"free", "new"}, \A j \in Slot \ {i} : client'[j] = client[j]
  PROVE  CountIsExact'
<1>1. SUFFICES ASSUME ~drifted'
               PROVE  playersNum' = Cardinality(Counted')
  BY DEF CountIsExact, Counted, Slot
<1>2. Slot' = Slot
  BY DEF Slot
<1>3. Counted' = Counted \ {i} /\ i \in Counted
  BY <1>1, <1>2 DEF Counted
<1>4. playersNum = Cardinality(Counted)
  BY <1>1 DEF CountIsExact, Counted
<1>5. Counted \subseteq Slot /\ Counted \ {i} \subseteq Slot
  BY DEF Counted
<1>6. IsFiniteSet(Counted) /\ Cardinality(Counted) \in Nat /\ Cardinality(Counted \ {i}) \in 0..MaxClients
  <2>1. Cardinality(Counted) \in 0..MaxClients /\ IsFiniteSet(Counted)
    BY <1>5, CountOfSlots
  <2>2. Cardinality(Counted \ {i}) \in 0..MaxClients
    BY <1>5, CountOfSlots
  <2>3. QED
    BY <2>1, <2>2
<1>7. Cardinality(Counted \ {i}) = Cardinality(Counted) - 1
  BY <1>3, <1>6, FS_RemoveElement
<1>8. (Cardinality(Counted) - 1) % Wrap = Cardinality(Counted) - 1
  BY <1>6, <1>7, Wrapping
<1>9. QED
  BY <1>3, <1>4, <1>7, <1>8

----------------------------------------------------------------------------
(* The steps of the players.                                               *)

LEMMA TakeSlotKeeps ==
  ASSUME PlayerTypeOK, AllFit, CountIsExact, RoomIsLeft, NEW i \in Slot, TakeSlot(i)
  PROVE  PlayerTypeOK' /\ AllFit' /\ CountIsExact' /\ RoomIsLeft'
<1>1. PICK id \in SteamID \cup {"", "pending"} : authid' = [authid EXCEPT ![i] = id]
  BY DEF TakeSlot
<1>2. /\ client' = [client EXCEPT ![i] = "new"] /\ client[i] = "free" /\ event = Idle
      /\ players' = players /\ playersNum' = playersNum /\ toAuth' = toAuth
      /\ wait' = wait /\ event' = event /\ drifted' = drifted
  BY DEF TakeSlot
<1>3. /\ client'[i] = "new" /\ authid'[i] = id
      /\ \A j \in Slot \ {i} : client'[j] = client[j] /\ authid'[j] = authid[j]
  BY <1>1, <1>2 DEF PlayerTypeOK
<1>4. PlayerTypeOK'
  BY <1>1, <1>2 DEF PlayerTypeOK, ClientState
<1>5. AllFit'
  <2>1. \A j \in Slot : EventOf(j)' = EventOf(j)
    BY <1>2 DEF EventOf
  <2>2. Fits(players[i], client[i], authid[i], EventOf(i)) /\ EventOf(i) = "none"
    BY <1>2, NoEvent DEF AllFit, SlotFits
  <2>3. players[i].steamID \notin SteamID
    BY <1>2, <2>2, BotIsAnID DEF Fits
  <2>4. Fits(players'[i], client'[i], authid'[i], EventOf(i)')
    BY <1>2, <1>3, <2>1, <2>2, <2>3 DEF Fits
  <2>5. QED
    BY <1>2, <1>3, <2>1, <2>4, OneSlot
<1>6. CountIsExact'
  <2>1. \A j \in Slot : client'[j] \in {"free", "new"} <=> client[j] \in {"free", "new"}
    BY <1>2, <1>3
  <2>2. QED
    BY <1>2, <2>1, CountStays
<1>7. RoomIsLeft'
  BY <1>2 DEF RoomIsLeft
<1>8. QED
  BY <1>4, <1>5, <1>6, <1>7

LEMMA LateAuthidKeeps ==
  ASSUME PlayerTypeOK, AllFit, CountIsExact, RoomIsLeft, NEW i \in Slot, LateAuthid(i)
  PROVE  PlayerTypeOK' /\ AllFit' /\ CountIsExact' /\ RoomIsLeft'
<1>1. PICK id \in (SteamID \ {BOT}) \cup {"pending"} : authid' = [authid EXCEPT ![i] = id]
  BY DEF LateAuthid
<1>2. /\ client[i] # "free" /\ event = Idle /\ authid[i] \in {"", "pending"}
      /\ players' = players /\ playersNum' = playersNum /\ toAuth' = toAuth
      /\ wait' = wait /\ event' = event /\ drifted' = drifted /\ client' = client
  BY DEF LateAuthid
<1>3. authid'[i] = id /\ \A j \in Slot \ {i} : authid'[j] = authid[j]
  BY <1>1, <1>2 DEF PlayerTypeOK
<1>4. PlayerTypeOK'
  BY <1>1, <1>2 DEF PlayerTypeOK
<1>5. AllFit'
  <2>1. \A j \in Slot : EventOf(j)' = EventOf(j)
    BY <1>2 DEF EventOf
  <2>2. Fits(players[i], client[i], authid[i], EventOf(i)) /\ EventOf(i) = "none"
    BY <1>2, NoEvent DEF AllFit, SlotFits
  <2>3. players[i].steamID \notin SteamID
    BY <1>2, <2>2, BotIsAnID DEF Fits
  <2>4. Fits(players'[i], client'[i], authid'[i], EventOf(i)')
    BY <1>2, <1>3, <2>1, <2>2, <2>3 DEF Fits
  <2>5. QED
    BY <1>2, <1>3, <2>1, <2>4, OneSlot
<1>6. CountIsExact'
  BY <1>2, CountStays
<1>7. RoomIsLeft'
  BY <1>2 DEF RoomIsLeft
<1>8. QED
  BY <1>4, <1>5, <1>6, <1>7

\* The steps that only start a forward about a client it can be about.
LEMMA ForwardStartKeeps ==
  ASSUME PlayerTypeOK, AllFit, CountIsExact, RoomIsLeft, NEW i \in Slot,
         ClientConnect(i) \/ ClientPutInServer(i) \/ DropClient(i)
  PROVE  PlayerTypeOK' /\ AllFit' /\ CountIsExact' /\ RoomIsLeft'
<1>1. /\ event = Idle
      /\ players' = players /\ playersNum' = playersNum /\ toAuth' = toAuth
      /\ wait' = wait /\ client' = client /\ authid' = authid /\ drifted' = drifted
  BY DEF ClientConnect, ClientPutInServer, DropClient, engineVars
<1>2. PICK x \in {"CONNECT", "ENTER", "DISCONNECT"} :
        /\ Start(x, i)
        /\ x = "CONNECT" => client[i] \in {"new", "again"}
        /\ x = "ENTER" => client[i] = "connected"
        /\ x = "DISCONNECT" => client[i] # "free"
  BY DEF ClientConnect, ClientPutInServer, DropClient
<1>3. PlayerTypeOK'
  <2>1. x \in EventName
    BY DEF EventName
  <2>2. event' \in [name: EventName, slot: Slot] \cup {Idle}
    BY <1>2, <2>1, EventType
  <2>3. QED
    BY <1>1, <2>2 DEF PlayerTypeOK
<1>4. AllFit'
  <2>1. EventOf(i)' = x /\ \A j \in Slot \ {i} : EventOf(j)' = EventOf(j)
    BY <1>1, <1>2, EventStarts
  <2>2. Fits(players[i], client[i], authid[i], EventOf(i)) /\ EventOf(i) = "none"
    BY <1>1, NoEvent DEF AllFit, SlotFits
  <2>3. Fits(players'[i], client'[i], authid'[i], EventOf(i)')
    BY <1>1, <1>2, <2>1, <2>2 DEF Fits
  <2>4. QED
    BY <1>1, <2>1, <2>3, OneSlot
<1>5. CountIsExact'
  BY <1>1, CountStays
<1>6. RoomIsLeft'
  <2>1. x = "CONNECT" => Len(toAuth) < MaxPending
    BY <1>2, <1>1 DEF ClientConnect, ClientPutInServer, DropClient, Start
  <2>2. event'.name = x
    BY <1>2 DEF Start
  <2>3. QED
    BY <1>1, <2>1, <2>2 DEF RoomIsLeft
<1>7. QED
  BY <1>3, <1>4, <1>5, <1>6

\* The object of a slot after its client has connected.
Joined(p, name, id) == [p EXCEPT !.connected = TRUE, !.name = name, !.ip = name, !.steamID = id]

\* What that is, field by field.
IsJoined(q, p, name, id) ==
  /\ q \in Player
  /\ q.connected = TRUE /\ q.inGame = p.inGame /\ q.name = name /\ q.ip = name
  /\ q.steamID = id /\ q.menu = p.menu

LEMMA ConnectedPlayer ==
  ASSUME NEW p \in Player, NEW name \in Name, NEW id \in SteamID \cup {"", "pending"}
  PROVE  IsJoined(Joined(p, name, id), p, name, id)
<1> DEFINE q == [p EXCEPT !.connected = TRUE]
           r == [q EXCEPT !.name = name]
           s == [r EXCEPT !.ip = name]
           t == [s EXCEPT !.steamID = id]
<1>1. q \in Player /\ q.connected = TRUE /\ q.inGame = p.inGame /\ q.menu = p.menu
  BY DEF Player
<1> HIDE DEF q
<1>2. /\ r \in Player /\ r.connected = q.connected /\ r.inGame = q.inGame /\ r.menu = q.menu
      /\ r.name = name
  BY <1>1 DEF Player
<1> HIDE DEF r
<1>3. /\ s \in Player /\ s.connected = r.connected /\ s.inGame = r.inGame /\ s.menu = r.menu
      /\ s.name = r.name /\ s.ip = name
  BY <1>2 DEF Player
<1> HIDE DEF s
<1>4. /\ t \in Player /\ t.connected = s.connected /\ t.inGame = s.inGame /\ t.menu = s.menu
      /\ t.name = s.name /\ t.ip = s.ip /\ t.steamID = id
  BY <1>3 DEF Player
<1> HIDE DEF t
<1>5. /\ t \in Player /\ t.connected = TRUE /\ t.inGame = p.inGame /\ t.name = name /\ t.ip = name
      /\ t.steamID = id /\ t.menu = p.menu
  BY <1>1, <1>2, <1>3, <1>4
<1>6. t = Joined(p, name, id)
  BY DEF t, s, r, q, Joined
<1>7. QED
  BY <1>5, <1>6 DEF IsJoined

LEMMA ConnectKeeps ==
  ASSUME PlayerTypeOK, AllFit, CountIsExact, RoomIsLeft, NEW i \in Slot, ClientConnectPost(i)
  PROVE  PlayerTypeOK' /\ AllFit' /\ CountIsExact' /\ RoomIsLeft'
<1>1. PICK name \in Name : players' = Connected(i, name)
  BY DEF ClientConnectPost
<1>2. PICK refused \in BOOLEAN : client' = [client EXCEPT ![i] = IF refused THEN "refused" ELSE "connected"]
  BY DEF ClientConnectPost
<1>3. /\ playersNum' = (playersNum + 1) % Wrap
      /\ toAuth' = IF MustWait(i) THEN Append(toAuth, [slot |-> i, live |-> TRUE]) ELSE toAuth
      /\ Running("CONNECT", i) /\ Start("CONNECTED", i)
      /\ wait' = wait /\ authid' = authid
  BY DEF ClientConnectPost
<1>4. drifted' = (drifted \/ client[i] = "again")
  BY DEF ClientConnectPost
<1>5. event.slot = i /\ EventOf(i) = "CONNECT"
  BY <1>3, RunningAbout
<1>6. Fits(players[i], client[i], authid[i], EventOf(i))
  BY DEF AllFit, SlotFits
<1>7. /\ client'[i] \in {"refused", "connected"}
      /\ \A j \in Slot \ {i} : client'[j] = client[j]
  BY <1>2 DEF PlayerTypeOK
<1>8. \E p \in Player :
        /\ players' = [players EXCEPT ![i] = p]
        /\ p.connected = TRUE /\ p.inGame = players[i].inGame
        /\ p.name = name /\ p.ip = name
        /\ p.steamID = IF MustWait(i) THEN players[i].steamID ELSE authid[i]
        /\ p.menu = players[i].menu
  <2> DEFINE id == IF MustWait(i) THEN players[i].steamID ELSE authid[i]
             p == Joined(players[i], name, id)
  <2>1. players[i] \in Player
    BY DEF PlayerTypeOK
  <2>2. id \in SteamID \cup {"", "pending"}
    <3>1. players[i].steamID \in SteamID \cup {"", "pending"}
      BY <2>1 DEF Player
    <3>2. authid[i] \in SteamID \cup {"", "pending"}
      BY DEF PlayerTypeOK
    <3>3. QED
      BY <3>1, <3>2
  <2>3. players' = [players EXCEPT ![i] = p]
    BY <1>1 DEF Connected, Joined
  <2> HIDE DEF id
  <2>4. IsJoined(p, players[i], name, id)
    BY <2>1, <2>2, ConnectedPlayer
  <2> HIDE DEF p
  <2>6. id = IF MustWait(i) THEN players[i].steamID ELSE authid[i]
    BY DEF id
  <2>7. QED
    BY <2>3, <2>4, <2>6 DEF IsJoined
<1>9. PICK p \in Player :
        /\ players' = [players EXCEPT ![i] = p]
        /\ p.connected = TRUE /\ p.inGame = players[i].inGame
        /\ p.name = name /\ p.ip = name
        /\ p.steamID = IF MustWait(i) THEN players[i].steamID ELSE authid[i]
        /\ p.menu = players[i].menu
  BY <1>8
<1>10. players'[i] = p /\ \A j \in Slot \ {i} : players'[j] = players[j]
  BY <1>9 DEF PlayerTypeOK
<1>11. PlayerTypeOK'
  <2>1. players' \in [Slot -> Player]
    BY <1>9 DEF PlayerTypeOK
  <2>2. playersNum' \in 0..Wrap - 1
    <3>1. playersNum + 1 \in Int
      <4>1. playersNum \in 0..Wrap - 1
        BY DEF PlayerTypeOK
      <4>2. QED
        BY <4>1
    <3>2. QED
      BY <1>3, <3>1, Wrapping
  <2>3. toAuth' \in Seq(Pending) /\ Len(toAuth') <= MaxPending
    <3> DEFINE e == [slot |-> i, live |-> TRUE]
    <3>1. e \in Pending
      BY DEF Pending
    <3>2. toAuth \in Seq(Pending) /\ Len(toAuth) <= MaxPending
      BY DEF PlayerTypeOK
    <3>3. Len(toAuth) < MaxPending
      BY <1>3 DEF RoomIsLeft, Running
    <3> HIDE DEF e
    <3>4. Append(toAuth, e) \in Seq(Pending) /\ Len(Append(toAuth, e)) = Len(toAuth) + 1
      BY <3>1, <3>2, AppendProperties
    <3>5. Len(toAuth) \in Nat /\ MaxPending \in Nat
      BY <3>2, LenProperties, SlotsAndBounds
    <3>6. toAuth' = toAuth \/ toAuth' = Append(toAuth, e)
      BY <1>3 DEF e
    <3>7. QED
      BY <3>2, <3>3, <3>4, <3>5, <3>6
  <2>4. event' \in [name: EventName, slot: Slot] \cup {Idle}
    <3>1. "CONNECTED" \in EventName
      BY DEF EventName
    <3>2. QED
      BY <1>3, <3>1, EventType
  <2>5. client' \in [Slot -> ClientState]
    BY <1>2 DEF PlayerTypeOK, ClientState
  <2>6. drifted' \in BOOLEAN
    BY <1>4
  <2>7. wait' \in 0..Cooldown /\ authid' \in [Slot -> SteamID \cup {"", "pending"}]
    BY <1>3 DEF PlayerTypeOK
  <2>8. QED
    BY <2>1, <2>2, <2>3, <2>4, <2>5, <2>6, <2>7 DEF PlayerTypeOK
<1>12. AllFit'
  <2>1. EventOf(i)' = "CONNECTED" /\ \A j \in Slot \ {i} : EventOf(j)' = EventOf(j)
    BY <1>3, <1>5, EventStarts
  <2>2. "" \notin Name
    BY BotIsAnID
  <2>3. p.steamID \in SteamID => p.steamID = authid[i]
    BY <1>5, <1>6, <1>9 DEF Fits
  <2>4. Fits(p, client'[i], authid'[i], "CONNECTED")
    BY <1>3, <1>5, <1>6, <1>7, <1>9, <2>2, <2>3 DEF Fits
  <2>5. QED
    BY <1>3, <1>7, <1>10, <2>1, <2>4, OneSlot
<1>13. CountIsExact'
  <2>1. client[i] \in {"new", "again"}
    BY <1>5, <1>6 DEF Fits
  <2>2. drifted => drifted'
    BY <1>4
  <2>3. drifted' \/ client[i] \in {"free", "new"}
    BY <1>4, <2>1
  <2>4. QED
    BY <1>3, <1>7, <2>2, <2>3, CountGrows
<1>14. RoomIsLeft'
  BY <1>3 DEF RoomIsLeft, Start
<1>15. QED
  BY <1>11, <1>12, <1>13, <1>14

LEMMA PutInServerKeeps ==
  ASSUME PlayerTypeOK, AllFit, CountIsExact, RoomIsLeft, NEW i \in Slot, ClientPutInServerPost(i)
  PROVE  PlayerTypeOK' /\ AllFit' /\ CountIsExact' /\ RoomIsLeft'
<1> DEFINE p == [players[i] EXCEPT !.inGame = TRUE]
<1>1. /\ players' = [players EXCEPT ![i] = p]
      /\ client' = [client EXCEPT ![i] = "spawned"]
      /\ Running("ENTER", i) /\ Start("ENTERED", i)
      /\ playersNum' = playersNum /\ toAuth' = toAuth /\ wait' = wait
      /\ authid' = authid /\ drifted' = drifted
  BY DEF ClientPutInServerPost
<1>2. event.slot = i /\ EventOf(i) = "ENTER"
  BY <1>1, RunningAbout
<1>3. Fits(players[i], client[i], authid[i], EventOf(i)) /\ client[i] = "connected"
  BY <1>2 DEF AllFit, SlotFits, Fits
<1>4. /\ p \in Player /\ p.inGame = TRUE /\ p.connected = players[i].connected
      /\ p.name = players[i].name /\ p.ip = players[i].ip
      /\ p.steamID = players[i].steamID /\ p.menu = players[i].menu
  <2>1. players[i] \in Player
    BY DEF PlayerTypeOK
  <2>2. QED
    BY <2>1 DEF Player
<1> HIDE DEF p
<1>5. /\ players'[i] = p /\ client'[i] = "spawned"
      /\ \A j \in Slot \ {i} : players'[j] = players[j] /\ client'[j] = client[j]
  BY <1>1 DEF PlayerTypeOK
<1>6. PlayerTypeOK'
  <2>1. "ENTERED" \in EventName
    BY DEF EventName
  <2>2. event' \in [name: EventName, slot: Slot] \cup {Idle}
    BY <1>1, <2>1, EventType
  <2>3. players' \in [Slot -> Player] /\ client' \in [Slot -> ClientState]
    BY <1>1, <1>4 DEF PlayerTypeOK, ClientState
  <2>4. QED
    BY <1>1, <2>2, <2>3 DEF PlayerTypeOK
<1>7. AllFit'
  <2>1. EventOf(i)' = "ENTERED" /\ \A j \in Slot \ {i} : EventOf(j)' = EventOf(j)
    BY <1>1, <1>2, EventStarts
  <2>2. Fits(p, "spawned", authid[i], "ENTERED")
    BY <1>2, <1>3, <1>4 DEF Fits
  <2>3. QED
    BY <1>1, <1>5, <2>1, <2>2, OneSlot
<1>8. CountIsExact'
  <2>1. \A j \in Slot : client'[j] \in {"free", "new"} <=> client[j] \in {"free", "new"}
    BY <1>3, <1>5
  <2>2. QED
    BY <1>1, <2>1, CountStays
<1>9. RoomIsLeft'
  BY <1>1 DEF RoomIsLeft, Start
<1>10. QED
  BY <1>6, <1>7, <1>8, <1>9

\* The steps that change the name or the menu of a player who may have them.
LEMMA OtherFieldsKeep ==
  ASSUME PlayerTypeOK, AllFit, CountIsExact, RoomIsLeft, NEW i \in Slot,
         ClientUserInfoChangedPost(i) \/ ShowMenu(i)
  PROVE  PlayerTypeOK' /\ AllFit' /\ CountIsExact' /\ RoomIsLeft'
<1>1. players[i] \in Player /\ Fits(players[i], client[i], authid[i], EventOf(i))
  BY DEF PlayerTypeOK, AllFit, SlotFits
<1>2. PICK p \in Player :
        players' = [players EXCEPT ![i] = p] /\ Fits(p, client[i], authid[i], EventOf(i))
  <2>1. CASE ClientUserInfoChangedPost(i)
    <3>1. PICK name \in Name : players' = [players EXCEPT ![i] = [players[i] EXCEPT !.name = name]]
      BY <2>1 DEF ClientUserInfoChangedPost
    <3> DEFINE p == [players[i] EXCEPT !.name = name]
    <3>2. /\ p \in Player /\ p.name = name /\ p.connected = players[i].connected
          /\ p.inGame = players[i].inGame /\ p.ip = players[i].ip
          /\ p.steamID = players[i].steamID /\ p.menu = players[i].menu
      BY <1>1, <3>1 DEF Player
    <3>3. players' = [players EXCEPT ![i] = p]
      BY <3>1
    <3> HIDE DEF p
    <3>4. name # ""
      BY <3>1, BotIsAnID
    <3>5. Fits(p, client[i], authid[i], EventOf(i))
      BY <1>1, <3>2, <3>4 DEF Fits
    <3>6. QED
      BY <3>2, <3>3, <3>5
  <2>2. CASE ShowMenu(i)
    <3>1. PICK shown \in BOOLEAN : players' = [players EXCEPT ![i] = [players[i] EXCEPT !.menu = shown]]
      BY <2>2 DEF ShowMenu
    <3> DEFINE p == [players[i] EXCEPT !.menu = shown]
    <3>2. /\ p \in Player /\ p.name = players[i].name /\ p.connected = players[i].connected
          /\ p.inGame = players[i].inGame /\ p.ip = players[i].ip
          /\ p.steamID = players[i].steamID
      BY <1>1 DEF Player
    <3>3. players' = [players EXCEPT ![i] = p]
      BY <3>1
    <3> HIDE DEF p
    <3>4. players[i].inGame
      BY <2>2 DEF ShowMenu
    <3>5. Fits(p, client[i], authid[i], EventOf(i))
      BY <1>1, <3>2, <3>4 DEF Fits
    <3>6. QED
      BY <3>2, <3>3, <3>5
  <2>3. QED
    BY <2>1, <2>2
<1>3. /\ playersNum' = playersNum /\ toAuth' = toAuth /\ wait' = wait /\ event' = event
      /\ client' = client /\ authid' = authid /\ drifted' = drifted
  BY DEF ClientUserInfoChangedPost, ShowMenu, engineVars
<1>4. players'[i] = p /\ \A j \in Slot \ {i} : players'[j] = players[j]
  BY <1>2 DEF PlayerTypeOK
<1>5. PlayerTypeOK'
  <2>1. players' \in [Slot -> Player]
    BY <1>2 DEF PlayerTypeOK
  <2>2. QED
    BY <1>3, <2>1 DEF PlayerTypeOK
<1>6. AllFit'
  <2>1. \A j \in Slot : EventOf(j)' = EventOf(j)
    BY <1>3 DEF EventOf
  <2>2. QED
    BY <1>2, <1>3, <1>4, <2>1, OneSlot
<1>7. CountIsExact' /\ RoomIsLeft'
  <2>1. CountIsExact'
    BY <1>3, CountStays
  <2>2. RoomIsLeft'
    BY <1>3 DEF RoomIsLeft
  <2>3. QED
    BY <2>1, <2>2
<1>8. QED
  BY <1>5, <1>6, <1>7

LEMMA HandlerEndsKeeps ==
  ASSUME PlayerTypeOK, AllFit, CountIsExact, RoomIsLeft, HandlerEnds
  PROVE  PlayerTypeOK' /\ AllFit' /\ CountIsExact' /\ RoomIsLeft'
<1>1. /\ event.name \in {"CONNECTED", "ENTERED", "DISCONNECTED"} /\ event' = Idle
      /\ players' = players /\ playersNum' = playersNum /\ toAuth' = toAuth /\ wait' = wait
      /\ client' = client /\ authid' = authid /\ drifted' = drifted
  BY DEF HandlerEnds, engineVars
<1>2. PlayerTypeOK'
  BY <1>1 DEF PlayerTypeOK
<1>3. AllFit'
  <2>1. ASSUME NEW j \in Slot
        PROVE  SlotFits(j)'
    <3>1. EventOf(j) \in {"CONNECTED", "ENTERED", "DISCONNECTED", "none"}
      BY <1>1 DEF EventOf
    <3>2. EventOf(j)' = "none"
      <4>1. event'.slot = 0 /\ j # 0
        BY <1>1, SlotsAndBounds DEF Idle, Slot
      <4>2. QED
        BY <4>1 DEF EventOf
    <3>3. Fits(players[j], client[j], authid[j], EventOf(j))
      BY DEF AllFit, SlotFits
    <3>4. Fits(players[j], client[j], authid[j], "none")
      BY <3>1, <3>3 DEF Fits
    <3>5. Fits(players'[j], client'[j], authid'[j], EventOf(j)')
      BY <1>1, <3>2, <3>4
    <3>6. QED
      BY <3>5 DEF SlotFits, Fits
  <2>2. Slot' = Slot
    BY DEF Slot
  <2>3. QED
    BY <2>1, <2>2 DEF AllFit
<1>4. CountIsExact'
  BY <1>1, CountStays
<1>5. RoomIsLeft'
  BY <1>1 DEF RoomIsLeft, Idle
<1>6. QED
  BY <1>2, <1>3, <1>4, <1>5

\* The object of a slot after the client has left, field by field.
IsForgotten(q, p) ==
  /\ q \in Player
  /\ q.connected = p.connected /\ q.inGame = p.inGame
  /\ q.name = "" /\ q.ip = "" /\ q.steamID = "" /\ q.menu = FALSE

LEMMA ForgottenPlayer ==
  ASSUME NEW p \in Player
  PROVE  IsForgotten(Forgotten(p), p)
<1> DEFINE q == [p EXCEPT !.menu = FALSE]
           r == [q EXCEPT !.name = ""]
           s == [r EXCEPT !.ip = ""]
           t == [s EXCEPT !.steamID = ""]
<1>1. q \in Player /\ q.connected = p.connected /\ q.inGame = p.inGame /\ q.menu = FALSE
  BY DEF Player
<1> HIDE DEF q
<1>2. /\ r \in Player /\ r.connected = q.connected /\ r.inGame = q.inGame /\ r.menu = q.menu
      /\ r.name = ""
  BY <1>1 DEF Player
<1> HIDE DEF r
<1>3. /\ s \in Player /\ s.connected = r.connected /\ s.inGame = r.inGame /\ s.menu = r.menu
      /\ s.name = r.name /\ s.ip = ""
  BY <1>2 DEF Player
<1> HIDE DEF s
<1>4. /\ t \in Player /\ t.connected = s.connected /\ t.inGame = s.inGame /\ t.menu = s.menu
      /\ t.name = s.name /\ t.ip = s.ip /\ t.steamID = ""
  BY <1>3 DEF Player
<1> HIDE DEF t
<1>5. IsForgotten(t, p)
  BY <1>1, <1>2, <1>3, <1>4 DEF IsForgotten
<1>6. t = Forgotten(p)
  BY DEF t, s, r, q, Forgotten
<1>7. QED
  BY <1>5, <1>6

LEMMA DroppedPlayer ==
  ASSUME NEW p \in Player
  PROVE  Dropped(p) \in Player /\ Dropped(p).connected = FALSE /\ Dropped(p).inGame = FALSE
<1> DEFINE q == [p EXCEPT !.connected = FALSE]
           r == [q EXCEPT !.inGame = FALSE]
<1>1. q \in Player /\ q.connected = FALSE
  BY DEF Player
<1> HIDE DEF q
<1>2. r \in Player /\ r.connected = q.connected /\ r.inGame = FALSE
  BY <1>1 DEF Player
<1> HIDE DEF r
<1>3. r = Dropped(p)
  BY DEF r, q, Dropped
<1>4. QED
  BY <1>1, <1>2, <1>3

LEMMA DropKeeps ==
  ASSUME PlayerTypeOK, AllFit, CountIsExact, RoomIsLeft, NEW i \in Slot, DropReturns(i)
  PROVE  PlayerTypeOK' /\ AllFit' /\ CountIsExact' /\ RoomIsLeft'
<1>1. /\ client' = [client EXCEPT ![i] = "free"] /\ authid' = [authid EXCEPT ![i] = ""]
      /\ playersNum' = (playersNum - 1) % Wrap
      /\ Running("DISCONNECT", i) /\ toAuth' = toAuth /\ wait' = wait
  BY DEF DropReturns, Uncounted
<1>2. drifted' = (drifted \/ client[i] = "new")
  BY DEF DropReturns
<1>3. event.slot = i /\ EventOf(i) = "DISCONNECT"
  BY <1>1, RunningAbout
<1>4. players[i] \in Player /\ Fits(players[i], client[i], authid[i], "DISCONNECT")
  BY <1>3 DEF PlayerTypeOK, AllFit, SlotFits
<1>5. PICK p \in Player, x \in {"EXIT", "DISCONNECTED"} :
        /\ players' = [players EXCEPT ![i] = p] /\ Start(x, i)
        /\ p.connected = FALSE /\ p.inGame = FALSE
        /\ x = "DISCONNECTED" => p.steamID = "" /\ p.menu = FALSE /\ p.ip = ""
  <2>1. Dropped(players[i]) \in Player /\ Dropped(players[i]).connected = FALSE
        /\ Dropped(players[i]).inGame = FALSE
    BY <1>4, DroppedPlayer
  <2>2. CASE players[i].menu
    <3>1. players' = [players EXCEPT ![i] = Dropped(players[i])] /\ Start("EXIT", i)
      BY <2>2 DEF DropReturns
    <3>2. QED
      BY <2>1, <3>1
  <2>3. CASE ~players[i].menu
    <3>1. players' = [players EXCEPT ![i] = Forgotten(Dropped(players[i]))] /\ Start("DISCONNECTED", i)
      BY <2>3 DEF DropReturns
    <3>2. IsForgotten(Forgotten(Dropped(players[i])), Dropped(players[i]))
      BY <2>1, ForgottenPlayer
    <3>3. QED
      BY <2>1, <3>1, <3>2 DEF IsForgotten
  <2>4. QED
    BY <2>2, <2>3
<1>6. /\ players'[i] = p /\ client'[i] = "free" /\ authid'[i] = ""
      /\ \A j \in Slot \ {i} : players'[j] = players[j] /\ client'[j] = client[j] /\ authid'[j] = authid[j]
  BY <1>1, <1>5 DEF PlayerTypeOK
<1>7. PlayerTypeOK'
  <2>1. x \in EventName
    BY <1>5 DEF EventName
  <2>2. event' \in [name: EventName, slot: Slot] \cup {Idle}
    BY <1>5, <2>1, EventType
  <2>3. players' \in [Slot -> Player]
    BY <1>5 DEF PlayerTypeOK
  <2>4. client' \in [Slot -> ClientState] /\ authid' \in [Slot -> SteamID \cup {"", "pending"}]
    BY <1>1 DEF PlayerTypeOK, ClientState
  <2>5. playersNum' \in 0..Wrap - 1
    <3>1. playersNum - 1 \in Int
      <4>1. playersNum \in 0..Wrap - 1
        BY DEF PlayerTypeOK
      <4>2. QED
        BY <4>1
    <3>2. QED
      BY <1>1, <3>1, Wrapping
  <2>6. drifted' \in BOOLEAN
    BY <1>2
  <2>7. QED
    BY <1>1, <2>2, <2>3, <2>4, <2>5, <2>6 DEF PlayerTypeOK
<1>8. AllFit'
  <2>1. EventOf(i)' = x /\ \A j \in Slot \ {i} : EventOf(j)' = EventOf(j)
    BY <1>3, <1>5, EventStarts
  <2>2. "" \notin SteamID
    BY BotIsAnID
  <2>3. Fits(p, "free", "", x)
    BY <1>5, <2>2 DEF Fits
  <2>4. QED
    BY <1>6, <2>1, <2>3, OneSlot
<1>9. CountIsExact'
  <2>1. client[i] # "free"
    BY <1>4 DEF Fits
  <2>2. drifted => drifted'
    BY <1>2
  <2>3. drifted' \/ client[i] \notin {"free", "new"}
    BY <1>2, <2>1
  <2>4. QED
    BY <1>1, <1>6, <2>2, <2>3, CountShrinks
<1>10. RoomIsLeft'
  BY <1>5 DEF RoomIsLeft, Start
<1>11. QED
  BY <1>7, <1>8, <1>9, <1>10

LEMMA ExitHandlerKeeps ==
  ASSUME PlayerTypeOK, AllFit, CountIsExact, RoomIsLeft, NEW i \in Slot, ExitHandlerReturns(i)
  PROVE  PlayerTypeOK' /\ AllFit' /\ CountIsExact' /\ RoomIsLeft'
<1> DEFINE p == Forgotten(players[i])
<1>1. /\ players' = [players EXCEPT ![i] = p]
      /\ Running("EXIT", i) /\ Start("DISCONNECTED", i)
      /\ playersNum' = playersNum /\ toAuth' = toAuth /\ wait' = wait
      /\ client' = client /\ authid' = authid /\ drifted' = drifted
  BY DEF ExitHandlerReturns, engineVars
<1>2. event.slot = i /\ EventOf(i) = "EXIT"
  BY <1>1, RunningAbout
<1>3. players[i] \in Player /\ Fits(players[i], client[i], authid[i], "EXIT")
  BY <1>2 DEF PlayerTypeOK, AllFit, SlotFits
<1>4. IsForgotten(p, players[i])
  BY <1>3, ForgottenPlayer
<1> HIDE DEF p
<1>5. players'[i] = p /\ \A j \in Slot \ {i} : players'[j] = players[j]
  BY <1>1 DEF PlayerTypeOK
<1>6. PlayerTypeOK'
  <2>1. "DISCONNECTED" \in EventName
    BY DEF EventName
  <2>2. event' \in [name: EventName, slot: Slot] \cup {Idle}
    BY <1>1, <2>1, EventType
  <2>3. players' \in [Slot -> Player]
    BY <1>1, <1>4 DEF PlayerTypeOK, IsForgotten
  <2>4. QED
    BY <1>1, <2>2, <2>3 DEF PlayerTypeOK
<1>7. AllFit'
  <2>1. EventOf(i)' = "DISCONNECTED" /\ \A j \in Slot \ {i} : EventOf(j)' = EventOf(j)
    BY <1>1, <1>2, EventStarts
  <2>2. "" \notin SteamID
    BY BotIsAnID
  <2>3. Fits(p, client[i], authid[i], "DISCONNECTED")
    BY <1>3, <1>4, <2>2 DEF Fits, IsForgotten
  <2>4. QED
    BY <1>1, <1>5, <2>1, <2>3, OneSlot
<1>8. CountIsExact'
  BY <1>1, CountStays
<1>9. RoomIsLeft'
  BY <1>1 DEF RoomIsLeft, Start
<1>10. QED
  BY <1>6, <1>7, <1>8, <1>9

\* The walk over the first n entries of m_playersToAuth.
IsWalk(f, n) ==
  f = [k \in 0..n |-> IF k = 0 THEN <<>> ELSE
                      IF Taken(toAuth[k]) THEN f[k-1] ELSE Append(f[k-1], toAuth[k])]

\* What it keeps.
KeepsFew(f, n) == \A k \in 0..n : f[k] \in Seq(Pending) /\ Len(f[k]) <= k

LEMMA FirstWalk == \E f : IsWalk(f, 0) /\ KeepsFew(f, 0)
<1> DEFINE f == [k \in 0..0 |-> <<>>]
<1>1. \A k \in 0..0 : k = 0
  OBVIOUS
<1>2. f = [k \in 0..0 |-> IF k = 0 THEN <<>> ELSE
                          IF Taken(toAuth[k]) THEN f[k-1] ELSE Append(f[k-1], toAuth[k])]
  BY <1>1
<1>3. <<>> \in Seq(Pending) /\ Len(<<>>) = 0
  BY EmptySeq
<1>4. KeepsFew(f, 0)
  BY <1>1, <1>3 DEF KeepsFew
<1>5. QED
  BY <1>2, <1>4 DEF IsWalk

LEMMA NextWalk ==
  ASSUME toAuth \in Seq(Pending), NEW n \in Nat, n + 1 <= Len(toAuth), NEW f,
         IsWalk(f, n), KeepsFew(f, n)
  PROVE  \E g : IsWalk(g, n + 1) /\ KeepsFew(g, n + 1)
<1> DEFINE last == IF Taken(toAuth[n + 1]) THEN f[n] ELSE Append(f[n], toAuth[n + 1])
           g == [k \in 0..n + 1 |-> IF k = n + 1 THEN last ELSE f[k]]
<1>1. Len(toAuth) \in Nat
  BY LenProperties
<1>2. toAuth[n + 1] \in Pending
  <2>1. n + 1 \in 1..Len(toAuth)
    BY <1>1
  <2>2. QED
    BY <2>1, ElementOfSeq
<1>3. f[n] \in Seq(Pending) /\ Len(f[n]) <= n /\ Len(f[n]) \in Nat
  <2>1. n \in 0..n
    OBVIOUS
  <2>2. f[n] \in Seq(Pending) /\ Len(f[n]) <= n
    BY <2>1 DEF KeepsFew
  <2>3. QED
    BY <2>2, LenProperties
<1>4. last \in Seq(Pending) /\ Len(last) <= n + 1
  <2>1. Append(f[n], toAuth[n + 1]) \in Seq(Pending) /\ Len(Append(f[n], toAuth[n + 1])) = Len(f[n]) + 1
    BY <1>2, <1>3, AppendProperties
  <2>2. QED
    BY <1>3, <2>1
<1> HIDE DEF last
<1>5. ASSUME NEW k \in 0..n + 1
      PROVE  g[k] \in Seq(Pending) /\ Len(g[k]) <= k
  <2>1. CASE k = n + 1
    BY <1>4, <2>1
  <2>2. CASE k # n + 1
    <3>1. k \in 0..n
      BY <2>2
    <3>2. QED
      BY <2>2, <3>1 DEF KeepsFew
  <2>3. QED
    BY <2>1, <2>2
<1>6. KeepsFew(g, n + 1)
  <2> HIDE DEF g
  <2>1. QED
    BY <1>5 DEF KeepsFew
<1>7. ASSUME NEW k \in 0..n + 1
      PROVE  g[k] = IF k = 0 THEN <<>> ELSE
                    IF Taken(toAuth[k]) THEN g[k-1] ELSE Append(g[k-1], toAuth[k])
  <2>1. CASE k = n + 1
    <3>1. k # 0 /\ k - 1 = n /\ n # n + 1 /\ n \in 0..n + 1
      BY <2>1
    <3>2. g[k-1] = f[n] /\ g[k] = last
      BY <2>1, <3>1
    <3>3. QED
      BY <2>1, <3>1, <3>2 DEF last
  <2>2. CASE k # n + 1
    <3>1. k \in 0..n /\ k \in Nat
      BY <2>2
    <3>2. f[k] = IF k = 0 THEN <<>> ELSE
                 IF Taken(toAuth[k]) THEN f[k-1] ELSE Append(f[k-1], toAuth[k])
      BY <3>1 DEF IsWalk
    <3>3. g[k] = f[k]
      BY <2>2
    <3>4. k # 0 => g[k-1] = f[k-1]
      BY <3>1
    <3>5. QED
      BY <3>2, <3>3, <3>4
  <2>3. QED
    BY <2>1, <2>2
<1>8. IsWalk(g, n + 1)
  <2>1. g = [k \in 0..n + 1 |-> g[k]]
    OBVIOUS
  <2> HIDE DEF g
  <2>2. QED
    BY <1>7, <2>1 DEF IsWalk
<1>9. QED
  BY <1>6, <1>8

LEMMA WalksExist ==
  ASSUME toAuth \in Seq(Pending), NEW m \in 0..Len(toAuth)
  PROVE  \E f : IsWalk(f, m) /\ KeepsFew(f, m)
<1> DEFINE Bad == {n \in 0..Len(toAuth) : ~ \E f : IsWalk(f, n) /\ KeepsFew(f, n)}
<1>1. Len(toAuth) \in Nat
  BY LenProperties
<1>2. SUFFICES ASSUME Bad # {}
               PROVE  FALSE
  OBVIOUS
<1>3. Bad \subseteq Nat
  BY <1>1
<1>4. PICK n \in Bad : \A l \in Bad : n <= l
  <2> HIDE DEF Bad
  <2>1. QED
    BY <1>2, <1>3, SmallestNumber
<1>5. n \in 0..Len(toAuth) /\ ~ \E f : IsWalk(f, n) /\ KeepsFew(f, n)
  BY <1>4
<1>6. n # 0
  BY <1>5, FirstWalk
<1>7. n - 1 \in Nat /\ n - 1 \in 0..Len(toAuth) /\ (n - 1) + 1 = n /\ n <= Len(toAuth) /\ n - 1 < n
  BY <1>1, <1>5, <1>6
<1>8. n - 1 \notin Bad
  <2> HIDE DEF Bad
  <2>1. n \in Nat
    BY <1>3, <1>4
  <2>2. QED
    BY <1>4, <1>7, <2>1
<1>9. PICK f : IsWalk(f, n - 1) /\ KeepsFew(f, n - 1)
  BY <1>7, <1>8
<1>10. \E g : IsWalk(g, (n - 1) + 1) /\ KeepsFew(g, (n - 1) + 1)
  BY <1>7, <1>9, NextWalk
<1>11. QED
  BY <1>5, <1>7, <1>10

\* What the check leaves in m_playersToAuth.
LEMMA StillWaitingType ==
  ASSUME toAuth \in Seq(Pending)
  PROVE  StillWaiting[Len(toAuth)] \in Seq(Pending) /\ Len(StillWaiting[Len(toAuth)]) <= Len(toAuth)
<1> DEFINE n == Len(toAuth)
<1>1. n \in Nat /\ n \in 0..n
  BY LenProperties
<1>2. PICK f : IsWalk(f, n) /\ KeepsFew(f, n)
  BY <1>1, WalksExist
<1>3. IsWalk(StillWaiting, n)
  <2>1. StillWaiting = CHOOSE g : IsWalk(g, n)
    BY DEF StillWaiting, IsWalk
  <2>2. QED
    BY <1>2, <2>1
<1>4. KeepsFew(StillWaiting, n)
  <2>1. ASSUME NEW g, IsWalk(g, n), NEW h, IsWalk(h, n), KeepsFew(h, n)
        PROVE  \A k \in 0..n : g[k] = h[k]
    <3> DEFINE Bad == {k \in 0..n : g[k] # h[k]}
    <3>1. SUFFICES ASSUME Bad # {}
                   PROVE  FALSE
      OBVIOUS
    <3>2. Bad \subseteq Nat
      BY <1>1
    <3>3. PICK k \in Bad : \A l \in Bad : k <= l
      <4> HIDE DEF Bad
      <4>1. QED
        BY <3>1, <3>2, SmallestNumber
    <3>4. k \in 0..n /\ g[k] # h[k]
      BY <3>3
    <3>5. /\ g[k] = IF k = 0 THEN <<>> ELSE
                    IF Taken(toAuth[k]) THEN g[k-1] ELSE Append(g[k-1], toAuth[k])
          /\ h[k] = IF k = 0 THEN <<>> ELSE
                    IF Taken(toAuth[k]) THEN h[k-1] ELSE Append(h[k-1], toAuth[k])
      <4> HIDE DEF n
      <4>1. \A j \in 0..n : g[j] = IF j = 0 THEN <<>> ELSE
                    IF Taken(toAuth[j]) THEN g[j-1] ELSE Append(g[j-1], toAuth[j])
        BY <2>1 DEF IsWalk
      <4>2. \A j \in 0..n : h[j] = IF j = 0 THEN <<>> ELSE
                    IF Taken(toAuth[j]) THEN h[j-1] ELSE Append(h[j-1], toAuth[j])
        BY <2>1 DEF IsWalk
      <4>3. QED
        BY <3>4, <4>1, <4>2
    <3>6. k # 0
      BY <3>4, <3>5
    <3>7. k - 1 \in 0..n /\ k - 1 < k /\ k \in Nat /\ k - 1 \in Nat
      BY <1>1, <3>4, <3>6
    <3>8. k - 1 \notin Bad
      <4> HIDE DEF Bad
      <4>1. QED
        BY <3>3, <3>7
    <3>9. g[k-1] = h[k-1]
      BY <3>7, <3>8
    <3>10. QED
      BY <3>4, <3>5, <3>6, <3>9
  <2>2. QED
    BY <1>2, <1>3, <2>1 DEF KeepsFew
<1>5. QED
  BY <1>1, <1>4 DEF KeepsFew

LEMMA StartFrameKeeps ==
  ASSUME PlayerTypeOK, AllFit, CountIsExact, RoomIsLeft, StartFrame
  PROVE  PlayerTypeOK' /\ AllFit' /\ CountIsExact' /\ RoomIsLeft'
<1>1. /\ event = Idle /\ event' = event /\ playersNum' = playersNum
      /\ client' = client /\ authid' = authid /\ drifted' = drifted
  BY DEF StartFrame, engineVars
<1>2. toAuth \in Seq(Pending) /\ Len(toAuth) <= MaxPending /\ Len(toAuth) \in Nat /\ MaxPending \in Nat
  BY LenProperties, SlotsAndBounds DEF PlayerTypeOK
<1>3. toAuth' \in Seq(Pending) /\ Len(toAuth') <= MaxPending
  <2>1. CASE toAuth' = toAuth
    BY <1>2, <2>1
  <2>2. CASE toAuth' = StillWaiting[Len(toAuth)]
    <3>1. toAuth' \in Seq(Pending) /\ Len(toAuth') <= Len(toAuth)
      BY <1>2, <2>2, StillWaitingType
    <3>2. Len(toAuth') \in Nat
      BY <3>1, LenProperties
    <3>3. QED
      BY <1>2, <3>1, <3>2
  <2>3. QED
    BY <2>1, <2>2 DEF StartFrame
<1>4. wait' \in 0..Cooldown
  <2>1. wait \in 0..Cooldown /\ Cooldown \in Nat
    BY SlotsAndBounds DEF PlayerTypeOK
  <2>2. (wait > 0 /\ wait' = wait - 1) \/ wait' = Cooldown
    BY DEF StartFrame
  <2>3. QED
    BY <2>1, <2>2
<1>5. /\ players' \in [Slot -> Player]
      /\ \A j \in Slot : Fits(players'[j], client[j], authid[j], EventOf(j))
  <2>1. CASE players' = players
    BY <2>1 DEF PlayerTypeOK, AllFit, SlotFits
  <2>2. CASE players' = [i \in Slot |->
               IF \E k \in DOMAIN toAuth : toAuth[k].slot = i /\ Taken(toAuth[k])
               THEN [players[i] EXCEPT !.steamID = authid[i]] ELSE players[i]]
    <3>1. ASSUME NEW j \in Slot
          PROVE  players'[j] \in Player /\ Fits(players'[j], client[j], authid[j], EventOf(j))
      <4>1. players[j] \in Player /\ Fits(players[j], client[j], authid[j], EventOf(j))
            /\ authid[j] \in SteamID \cup {"", "pending"}
        BY DEF PlayerTypeOK, AllFit, SlotFits
      <4>2. CASE \E k \in DOMAIN toAuth : toAuth[k].slot = j /\ Taken(toAuth[k])
        <5> DEFINE p == [players[j] EXCEPT !.steamID = authid[j]]
        <5>1. players'[j] = p
          BY <2>2, <4>2
        <5>2. /\ p \in Player /\ p.connected = players[j].connected /\ p.inGame = players[j].inGame
              /\ p.name = players[j].name /\ p.ip = players[j].ip /\ p.menu = players[j].menu
              /\ p.steamID = authid[j]
          BY <4>1 DEF Player
        <5> HIDE DEF p
        <5>3. Fits(p, client[j], authid[j], EventOf(j))
          BY <4>1, <5>2 DEF Fits
        <5>4. QED
          BY <5>1, <5>2, <5>3
      <4>3. CASE ~ \E k \in DOMAIN toAuth : toAuth[k].slot = j /\ Taken(toAuth[k])
        <5>1. players'[j] = players[j]
          BY <2>2, <4>3
        <5>2. QED
          BY <4>1, <5>1
      <4>4. QED
        BY <4>2, <4>3
    <3>2. players' = [j \in Slot |-> players'[j]]
      BY <2>2
    <3>3. QED
      BY <3>1, <3>2
  <2>3. QED
    BY <2>1, <2>2 DEF StartFrame
<1>6. PlayerTypeOK'
  BY <1>1, <1>3, <1>4, <1>5 DEF PlayerTypeOK
<1>7. AllFit'
  <2>1. ASSUME NEW j \in Slot
        PROVE  SlotFits(j)'
    <3>1. EventOf(j)' = EventOf(j)
      BY <1>1 DEF EventOf
    <3>2. Fits(players'[j], client'[j], authid'[j], EventOf(j)')
      BY <1>1, <1>5, <3>1
    <3>3. QED
      BY <3>2 DEF SlotFits, Fits
  <2>2. Slot' = Slot
    BY DEF Slot
  <2>3. QED
    BY <2>1, <2>2 DEF AllFit
<1>8. CountIsExact'
  BY <1>1, CountStays
<1>9. RoomIsLeft'
  BY <1>1 DEF RoomIsLeft, Idle
<1>10. QED
  BY <1>6, <1>7, <1>8, <1>9

\* A slot after the change of map: a new object, and the client who stays.
LEMMA NewFits ==
  ASSUME NEW c \in ClientState, NEW a, c \notin {"connected", "spawned", "refused"}, c = "free" => a = ""
  PROVE  NewPlayer \in Player /\ Fits(NewPlayer, c, a, "none")
<1>1. /\ NewPlayer.connected = FALSE /\ NewPlayer.inGame = FALSE /\ NewPlayer.steamID = ""
      /\ NewPlayer.menu = FALSE /\ NewPlayer.ip = ""
  BY DEF NewPlayer
<1>2. NewPlayer \in Player
  BY DEF NewPlayer, Player
<1>3. "" \notin SteamID
  BY BotIsAnID
<1>4. QED
  BY <1>1, <1>2, <1>3 DEF Fits

LEMMA ChangeMapKeeps ==
  ASSUME PlayerTypeOK, AllFit, CountIsExact, RoomIsLeft, ChangeMap
  PROVE  PlayerTypeOK' /\ AllFit' /\ CountIsExact' /\ RoomIsLeft'
<1>1. /\ event = Idle /\ event' = event /\ playersNum' = playersNum
      /\ "refused" \notin {client[i] : i \in Slot}
      /\ players' = [i \in Slot |-> NewPlayer]
      /\ toAuth' = [k \in DOMAIN toAuth |-> [toAuth[k] EXCEPT !.live = FALSE]]
      /\ wait' \in 0..Cooldown
  BY DEF ChangeMap
<1>2. PICK stay \in SUBSET {i \in Slot : client[i] # "free"} :
       /\ client' = [i \in Slot |-> IF i \notin stay THEN "free" ELSE
                                    IF client[i] \in {"connected", "spawned"} THEN "again"
                                    ELSE client[i]]
       /\ authid' = [i \in Slot |-> IF i \in stay THEN authid[i] ELSE ""]
       /\ drifted' = (drifted \/ \E i \in Slot \ stay : client[i] \notin {"free", "new"})
  BY DEF ChangeMap
<1>3. ASSUME NEW i \in Slot
      PROVE  /\ i \notin stay => client'[i] = "free" /\ authid'[i] = ""
             /\ i \in stay => /\ authid'[i] = authid[i] /\ client[i] # "free"
                              /\ client[i] \in {"connected", "spawned"} => client'[i] = "again"
                              /\ client[i] \notin {"connected", "spawned"} => client'[i] = client[i]
             /\ client[i] \in ClientState \ {"refused"}
             /\ authid[i] \in SteamID \cup {"", "pending"}
  <2>1. client[i] \in ClientState /\ authid[i] \in SteamID \cup {"", "pending"} /\ client[i] # "refused"
    BY <1>1 DEF PlayerTypeOK
  <2>2. client'[i] = IF i \notin stay THEN "free" ELSE
                     IF client[i] \in {"connected", "spawned"} THEN "again" ELSE client[i]
    BY <1>2
  <2>3. authid'[i] = IF i \in stay THEN authid[i] ELSE ""
    BY <1>2
  <2>4. i \in stay => client[i] # "free"
    BY <1>2
  <2>5. QED
    BY <2>1, <2>2, <2>3, <2>4
<1>4. ASSUME NEW i \in Slot
      PROVE  /\ client'[i] \in {"free", "new", "again"}
             /\ client'[i] = "free" => authid'[i] = ""
             /\ authid'[i] \in SteamID \cup {"", "pending"}
  BY <1>3 DEF ClientState
<1>5. PlayerTypeOK'
  <2>1. client' \in [Slot -> ClientState] /\ authid' \in [Slot -> SteamID \cup {"", "pending"}]
    <3>1. client' = [i \in Slot |-> client'[i]] /\ authid' = [i \in Slot |-> authid'[i]]
      BY <1>2
    <3>2. \A i \in Slot : client'[i] \in ClientState
      BY <1>4 DEF ClientState
    <3>3. QED
      BY <1>4, <3>1, <3>2
  <2>2. players' \in [Slot -> Player]
    <3>1. NewPlayer \in Player
      BY DEF NewPlayer, Player
    <3>2. QED
      BY <1>1, <3>1
  <2>3. toAuth' \in Seq(Pending) /\ Len(toAuth') <= MaxPending
    <3>1. toAuth \in Seq(Pending) /\ Len(toAuth) \in Nat /\ DOMAIN toAuth = 1..Len(toAuth)
          /\ Len(toAuth) <= MaxPending
      BY LenProperties DEF PlayerTypeOK
    <3>2. ASSUME NEW k \in 1..Len(toAuth)
          PROVE  [toAuth[k] EXCEPT !.live = FALSE] \in Pending
      <4>1. toAuth[k] \in Pending
        BY <3>1, ElementOfSeq
      <4>2. QED
        BY <4>1 DEF Pending
    <3>3. toAuth' \in [1..Len(toAuth) -> Pending]
      BY <1>1, <3>1, <3>2
    <3>4. toAuth' \in Seq(Pending) /\ Len(toAuth') = Len(toAuth)
      BY <3>1, <3>3
    <3>5. QED
      BY <3>1, <3>4
  <2>4. drifted' \in BOOLEAN
    BY <1>2
  <2>5. QED
    BY <1>1, <2>1, <2>2, <2>3, <2>4 DEF PlayerTypeOK
<1>6. AllFit'
  <2>1. ASSUME NEW j \in Slot
        PROVE  SlotFits(j)'
    <3>1. EventOf(j)' = "none"
      <4>1. EventOf(j) = "none"
        BY <1>1, NoEvent
      <4>2. QED
        BY <1>1, <4>1 DEF EventOf
    <3>2. Fits(NewPlayer, client'[j], authid'[j], "none")
      <4>1. client'[j] \in ClientState /\ client'[j] \notin {"connected", "spawned", "refused"}
        BY <1>4 DEF ClientState
      <4>2. QED
        BY <1>4, <4>1, NewFits
    <3>3. Fits(players'[j], client'[j], authid'[j], EventOf(j)')
      BY <1>1, <3>1, <3>2
    <3>4. QED
      BY <3>3 DEF SlotFits, Fits
  <2>2. Slot' = Slot
    BY DEF Slot
  <2>3. QED
    BY <2>1, <2>2 DEF AllFit
<1>7. CountIsExact'
  <2>1. drifted => drifted'
    BY <1>2
  <2>2. drifted' \/ \A j \in Slot \ stay : client[j] \in {"free", "new"}
    BY <1>2
  <2>3. ASSUME \A j \in Slot \ stay : client[j] \in {"free", "new"}
        PROVE  \A j \in Slot : client'[j] \in {"free", "new"} <=> client[j] \in {"free", "new"}
    BY <1>3, <2>3
  <2>4. QED
    BY <1>1, <2>1, <2>2, <2>3, CountStays
<1>8. RoomIsLeft'
  BY <1>1 DEF RoomIsLeft, Idle
<1>9. QED
  BY <1>5, <1>6, <1>7, <1>8

\* Every step about players keeps what is known about them.
LEMMA PlayersKeep ==
  ASSUME PlayerIInv, PlayerEvent \/ ChangeMap \/ UNCHANGED playerVars
  PROVE  PlayerIInv'
<1>1. PlayerTypeOK /\ AllFit /\ CountIsExact /\ RoomIsLeft
  BY BySlots
<1>2. PlayerTypeOK' /\ AllFit' /\ CountIsExact' /\ RoomIsLeft'
  <2>1. CASE UNCHANGED playerVars
    <3>1. /\ players' = players /\ playersNum' = playersNum /\ toAuth' = toAuth /\ wait' = wait
          /\ event' = event /\ client' = client /\ authid' = authid /\ drifted' = drifted
      BY <2>1 DEF playerVars
    <3>2. PlayerTypeOK'
      BY <1>1, <3>1 DEF PlayerTypeOK
    <3>3. AllFit'
      <4>1. ASSUME NEW j \in Slot
            PROVE  SlotFits(j)'
        <5>1. EventOf(j)' = EventOf(j)
          BY <3>1 DEF EventOf
        <5>2. Fits(players'[j], client'[j], authid'[j], EventOf(j)')
          BY <1>1, <3>1, <5>1 DEF AllFit, SlotFits
        <5>3. QED
          BY <5>2 DEF SlotFits, Fits
      <4>2. Slot' = Slot
        BY DEF Slot
      <4>3. QED
        BY <4>1, <4>2 DEF AllFit
    <3>4. CountIsExact' /\ RoomIsLeft'
      BY <1>1, <3>1 DEF CountIsExact, RoomIsLeft, Slot
    <3>5. QED
      BY <3>2, <3>3, <3>4
  <2>2. CASE ChangeMap
    BY <1>1, <2>2, ChangeMapKeeps
  <2>3. CASE HandlerEnds
    BY <1>1, <2>3, HandlerEndsKeeps
  <2>4. CASE StartFrame
    BY <1>1, <2>4, StartFrameKeeps
  <2>5. ASSUME NEW i \in Slot, TakeSlot(i)
        PROVE  PlayerTypeOK' /\ AllFit' /\ CountIsExact' /\ RoomIsLeft'
    BY <1>1, <2>5, TakeSlotKeeps
  <2>6. ASSUME NEW i \in Slot, LateAuthid(i)
        PROVE  PlayerTypeOK' /\ AllFit' /\ CountIsExact' /\ RoomIsLeft'
    BY <1>1, <2>6, LateAuthidKeeps
  <2>7. ASSUME NEW i \in Slot, ClientUserInfoChangedPost(i) \/ ShowMenu(i)
        PROVE  PlayerTypeOK' /\ AllFit' /\ CountIsExact' /\ RoomIsLeft'
    BY <1>1, <2>7, OtherFieldsKeep
  <2>8. ASSUME NEW i \in Slot, ClientConnect(i) \/ ClientPutInServer(i) \/ DropClient(i)
        PROVE  PlayerTypeOK' /\ AllFit' /\ CountIsExact' /\ RoomIsLeft'
    BY <1>1, <2>8, ForwardStartKeeps
  <2>9. ASSUME NEW i \in Slot, ClientConnectPost(i)
        PROVE  PlayerTypeOK' /\ AllFit' /\ CountIsExact' /\ RoomIsLeft'
    BY <1>1, <2>9, ConnectKeeps
  <2>10. ASSUME NEW i \in Slot, ClientPutInServerPost(i)
         PROVE  PlayerTypeOK' /\ AllFit' /\ CountIsExact' /\ RoomIsLeft'
    BY <1>1, <2>10, PutInServerKeeps
  <2>11. ASSUME NEW i \in Slot, DropReturns(i)
         PROVE  PlayerTypeOK' /\ AllFit' /\ CountIsExact' /\ RoomIsLeft'
    BY <1>1, <2>11, DropKeeps
  <2>12. ASSUME NEW i \in Slot, ExitHandlerReturns(i)
         PROVE  PlayerTypeOK' /\ AllFit' /\ CountIsExact' /\ RoomIsLeft'
    BY <1>1, <2>12, ExitHandlerKeeps
  <2>13. QED
    BY <2>1, <2>2, <2>3, <2>4, <2>5, <2>6, <2>7, <2>8, <2>9, <2>10, <2>11, <2>12 DEF PlayerEvent
<1>3. (PlayerTypeOK /\ AllFit /\ CountIsExact /\ RoomIsLeft)' => PlayerIInv'
  BY BySlots, PTL
<1>4. QED
  BY <1>2, <1>3

LEMMA PlayersStart == PlayerInit => PlayerIInv
<1>1. SUFFICES ASSUME PlayerInit
               PROVE  PlayerTypeOK /\ AllFit /\ CountIsExact /\ RoomIsLeft
  BY BySlots
<1>2. /\ players = [i \in Slot |-> NewPlayer] /\ playersNum = 0 /\ toAuth = <<>> /\ wait = 0
      /\ event = Idle /\ client = [i \in Slot |-> "free"] /\ authid = [i \in Slot |-> ""]
      /\ drifted = FALSE
  BY <1>1 DEF PlayerInit
<1>3. NewPlayer \in Player /\ Fits(NewPlayer, "free", "", "none")
  BY NewFits DEF ClientState
<1>4. PlayerTypeOK
  <2>1. 0 \in 0..Wrap - 1 /\ 0 \in 0..Cooldown
    BY SlotsAndBounds
  <2>2. toAuth \in Seq(Pending) /\ Len(toAuth) <= MaxPending
    <3>1. <<>> \in Seq(Pending) /\ Len(<<>>) = 0
      BY EmptySeq
    <3>2. MaxPending \in Nat
      BY SlotsAndBounds
    <3>3. toAuth = <<>>
      BY <1>2
    <3>4. toAuth \in Seq(Pending) /\ Len(toAuth) = 0
      BY <3>1, <3>3, Zenon
    <3>5. QED
      BY <3>2, <3>4
  <2>3. client \in [Slot -> ClientState]
    BY <1>2 DEF ClientState
  <2>4. QED
    BY <1>2, <1>3, <2>1, <2>2, <2>3 DEF PlayerTypeOK
<1>5. AllFit
  <2>1. ASSUME NEW i \in Slot
        PROVE  SlotFits(i)
    <3>1. EventOf(i) = "none"
      BY <1>2, NoEvent
    <3>2. QED
      BY <1>2, <1>3, <3>1 DEF SlotFits
  <2>2. QED
    BY <2>1 DEF AllFit
<1>6. CountIsExact
  <2>1. {i \in Slot : client[i] \notin {"free", "new"}} = {}
    BY <1>2
  <2>2. QED
    BY <1>2, <2>1, FS_EmptySet DEF CountIsExact
<1>7. RoomIsLeft
  BY <1>2 DEF RoomIsLeft, Idle
<1>8. QED
  BY <1>4, <1>5, <1>6, <1>7

----------------------------------------------------------------------------
(* Lines and the functions they are for.                                   *)

\* A line on its way is a record.
LEMMA OnItsWay ==
  ASSUME CmdTypeOK, line.stage # "none"
  PROVE  line \in Line
<1>1. NoLine.stage = "none"
  BY DEF NoLine
<1>2. QED
  BY <1>1 DEF CmdTypeOK

LEMMA SameMatching ==
  ASSUME line'.by = line.by, line'.typed = line.typed, UNCHANGED listVars
  PROVE  List(line)' = List(line) /\ Matching' = Matching
<1>1. clientCommands' = clientCommands /\ serverCommands' = serverCommands
  BY DEF listVars
<1>2. List(line)' = List(line)
  BY <1>1 DEF List
<1>3. CmdName(line)' = CmdName(line)
  BY DEF CmdName
<1>4. QED
  BY <1>2, <1>3 DEF Matching

LEMMA MatchingIsNat ==
  ASSUME CmdTypeOK
  PROVE  Matching \subseteq Nat \ {0} /\ Matching \subseteq DOMAIN List(line)
<1>1. List(line) \in Seq(Pattern)
  BY DEF CmdTypeOK, List
<1>2. DOMAIN List(line) = 1..Len(List(line)) /\ Len(List(line)) \in Nat
  BY <1>1, LenProperties
<1>3. QED
  BY <1>2 DEF Matching

\* The next match is the first one, or there is none.
IsNext(n, k) ==
  /\ n = 0 => \A m \in Matching : m <= k
  /\ n # 0 => n \in Matching /\ n > k /\ \A m \in Matching : m > k => n <= m

LEMMA NextMatchIsNext ==
  ASSUME CmdTypeOK, NEW k \in Nat
  PROVE  NextMatch(k) \in Nat /\ IsNext(NextMatch(k), k)
<1> DEFINE later == {n \in DOMAIN List(line) : n > k /\ Matched(List(line)[n], line)}
<1>1. Matching \subseteq Nat \ {0}
  BY MatchingIsNat
<1>2. later = {n \in Matching : n > k}
  BY DEF Matching, Matched
<1>3. NextMatch(k) = IF later = {} THEN 0 ELSE CHOOSE n \in later : \A other \in later : n <= other
  BY DEF NextMatch
<1> HIDE DEF later
<1>4. CASE later = {}
  <2>1. NextMatch(k) = 0
    BY <1>3, <1>4
  <2>2. \A m \in Matching : m <= k
    BY <1>1, <1>2, <1>4
  <2>3. QED
    BY <2>1, <2>2 DEF IsNext
<1>5. CASE later # {}
  <2>1. later \subseteq Nat
    BY <1>1, <1>2
  <2>2. \E n \in later : \A other \in later : n <= other
    BY <1>5, <2>1, SmallestNumber
  <2>3. NextMatch(k) \in later /\ \A other \in later : NextMatch(k) <= other
    BY <1>3, <1>5, <2>2
  <2>4. NextMatch(k) # 0 /\ NextMatch(k) \in Nat
    BY <1>1, <1>2, <2>3
  <2>5. QED
    BY <1>2, <2>3, <2>4 DEF IsNext
<1>6. QED
  BY <1>4, <1>5

----------------------------------------------------------------------------
(* The records of a line.                                                  *)

Outcome == {"IGNORED", "SUPERCEDE"}

IsEnded(q, l, result) ==
  /\ q \in Line /\ q.by = l.by /\ q.typed = l.typed /\ q.heard = l.heard
  /\ q.stage = "done" /\ q.result = result

IsInLoop(q, l, k, result) ==
  /\ q \in Line /\ q.by = l.by /\ q.typed = l.typed /\ q.heard = l.heard
  /\ q.stage = "loop" /\ q.at = k /\ q.result = result

LEMMA EndedLine ==
  ASSUME line \in Line, NEW result \in Outcome
  PROVE  IsEnded(Ended(result), line, result)
<1> DEFINE q == [line EXCEPT !.stage = "done"]
           r == [q EXCEPT !.result = result]
<1>1. q \in Line /\ q.by = line.by /\ q.typed = line.typed /\ q.heard = line.heard /\ q.stage = "done"
  BY DEF Line
<1> HIDE DEF q
<1>2. /\ r \in Line /\ r.by = q.by /\ r.typed = q.typed /\ r.heard = q.heard /\ r.stage = q.stage
      /\ r.result = result
  BY <1>1 DEF Line, Outcome
<1> HIDE DEF r
<1>3. r = Ended(result)
  BY DEF r, q, Ended
<1>4. QED
  BY <1>1, <1>2, <1>3 DEF IsEnded

LEMMA LoopLine ==
  ASSUME line \in Line, NEW result \in Outcome, NEW k \in Nat, k # 0
  PROVE  IsInLoop(At(k, result), line, k, result)
<1> DEFINE q == [line EXCEPT !.stage = "loop"]
           r == [q EXCEPT !.at = k]
           s == [r EXCEPT !.result = result]
<1>1. q \in Line /\ q.by = line.by /\ q.typed = line.typed /\ q.heard = line.heard /\ q.stage = "loop"
  BY DEF Line
<1> HIDE DEF q
<1>2. /\ r \in Line /\ r.by = q.by /\ r.typed = q.typed /\ r.heard = q.heard /\ r.stage = q.stage
      /\ r.at = k
  BY <1>1 DEF Line
<1> HIDE DEF r
<1>3. /\ s \in Line /\ s.by = r.by /\ s.typed = r.typed /\ s.heard = r.heard /\ s.stage = r.stage
      /\ s.at = r.at /\ s.result = result
  BY <1>2 DEF Line, Outcome
<1> HIDE DEF s
<1>4. s = At(k, result)
  BY DEF s, r, q, At
<1>5. QED
  BY <1>1, <1>2, <1>3, <1>4 DEF IsInLoop

\* What a function answers is added to what is heard.
HeardNow(r) == [cmd |-> line.at, answer |-> r]

LEMMA HeardLine ==
  ASSUME NEW q \in Line, NEW h \in Heard
  PROVE  LET p == [q EXCEPT !.heard = Append(@, h)]
         IN  /\ p \in Line /\ p.by = q.by /\ p.typed = q.typed /\ p.stage = q.stage
             /\ p.at = q.at /\ p.result = q.result /\ p.heard = Append(q.heard, h)
<1>1. q.heard \in Seq(Heard)
  BY DEF Line
<1>2. Append(q.heard, h) \in Seq(Heard)
  BY <1>1, AppendProperties
<1>3. QED
  BY <1>2 DEF Line

LEMMA HeardAppend ==
  ASSUME NEW s \in Seq(Heard), NEW h \in Heard
  PROVE  /\ Len(s) \in Nat /\ DOMAIN s = 1..Len(s) /\ \A k \in 1..Len(s) : s[k] \in Heard
         /\ Len(Append(s, h)) = Len(s) + 1
         /\ DOMAIN Append(s, h) = 1..Len(s) + 1
         /\ \A k \in 1..Len(s) : Append(s, h)[k] = s[k]
         /\ Append(s, h)[Len(s) + 1] = h
<1>1. Len(s) \in Nat /\ DOMAIN s = 1..Len(s) /\ \A k \in 1..Len(s) : s[k] \in Heard
  BY LenProperties, ElementOfSeq
<1>2. /\ Append(s, h) \in Seq(Heard) /\ Len(Append(s, h)) = Len(s) + 1
      /\ \A k \in 1..Len(s) : Append(s, h)[k] = s[k]
      /\ Append(s, h)[Len(s) + 1] = h
  BY AppendProperties
<1>3. DOMAIN Append(s, h) = 1..Len(s) + 1
  BY <1>2, LenProperties
<1>4. QED
  BY <1>1, <1>2, <1>3

----------------------------------------------------------------------------
(* The steps of the commands.                                              *)

\* Nothing is to be shown of the lists while no line is in the loop.
LEMMA ListsMayChange ==
  ASSUME CmdIInv, line' = line, line.stage \in {"none", "forward", "menu"},
         clientCommands' \in Seq(Pattern), serverCommands' \in Seq(Pattern),
         Len(clientCommands') <= MaxCommands, Len(serverCommands') <= MaxCommands
  PROVE  CmdIInv'
<1>1. CmdTypeOK'
  BY DEF CmdIInv, LinesAreHeard, CmdTypeOK
<1>2. HeardInOrder' /\ KeptFromGame'
  BY DEF HeardInOrder, KeptFromGame
<1>3. WaysOfLines'
  BY DEF CmdIInv, WaysOfLines, NobodyHeard
<1>4. QED
  BY <1>1, <1>2, <1>3 DEF CmdIInv, LinesAreHeard

LEMMA GrowingLists ==
  ASSUME NEW s \in Seq(Pattern), NEW t \in Seq(Pattern), NEW c \in Pattern, Len(s) + Len(t) < MaxCommands
  PROVE  Append(s, c) \in Seq(Pattern) /\ Len(Append(s, c)) <= MaxCommands
<1>1. Append(s, c) \in Seq(Pattern) /\ Len(Append(s, c)) = Len(s) + 1
  BY AppendProperties
<1>2. Len(s) \in Nat /\ Len(t) \in Nat /\ MaxCommands \in Nat
  BY LenProperties, CommandBounds
<1>3. QED
  BY <1>1, <1>2

LEMMA RegisterKeeps ==
  ASSUME CmdIInv, NEW c \in Pattern, RegisterClient(c) \/ RegisterServer(c)
  PROVE  CmdIInv'
<1>1. /\ clientCommands \in Seq(Pattern) /\ serverCommands \in Seq(Pattern)
      /\ Len(clientCommands) <= MaxCommands /\ Len(serverCommands) <= MaxCommands
  BY DEF CmdIInv, LinesAreHeard, CmdTypeOK
<1>2. /\ line' = line /\ line.stage \in {"none", "forward", "menu"}
      /\ Len(clientCommands) + Len(serverCommands) < MaxCommands
  BY DEF RegisterClient, RegisterServer, MayRegister, MayGrow
<1>3. Len(serverCommands) + Len(clientCommands) < MaxCommands
  <2>1. Len(clientCommands) \in Nat /\ Len(serverCommands) \in Nat
    BY <1>1, LenProperties
  <2>2. QED
    BY <1>2, <2>1
<1>4. CASE RegisterClient(c)
  <2>1. clientCommands' = Append(clientCommands, c) /\ serverCommands' = serverCommands
    BY <1>4 DEF RegisterClient
  <2>2. clientCommands' \in Seq(Pattern) /\ Len(clientCommands') <= MaxCommands
    BY <1>1, <1>2, <2>1, GrowingLists
  <2>3. QED
    BY <1>1, <1>2, <2>1, <2>2, ListsMayChange
<1>5. CASE RegisterServer(c)
  <2>1. serverCommands' = Append(serverCommands, c) /\ clientCommands' = clientCommands
    BY <1>5 DEF RegisterServer
  <2>2. serverCommands' \in Seq(Pattern) /\ Len(serverCommands') <= MaxCommands
    BY <1>1, <1>3, <2>1, GrowingLists
  <2>3. QED
    BY <1>1, <1>2, <2>1, <2>2, ListsMayChange
<1>6. QED
  BY <1>4, <1>5

LEMMA ClearKeeps ==
  ASSUME CmdIInv, line = NoLine, ClearCommands
  PROVE  CmdIInv'
<1>1. line' = line /\ clientCommands' = <<>> /\ serverCommands' = <<>>
  BY DEF ClearCommands
<1>2. line.stage = "none"
  BY DEF NoLine
<1>3. <<>> \in Seq(Pattern) /\ Len(<<>>) = 0 /\ MaxCommands \in Nat
  BY EmptySeq, CommandBounds
<1>4. /\ clientCommands' \in Seq(Pattern) /\ serverCommands' \in Seq(Pattern)
      /\ Len(clientCommands') = 0 /\ Len(serverCommands') = 0
  BY <1>1, <1>3, Zenon
<1>5. QED
  BY <1>1, <1>2, <1>3, <1>4, ListsMayChange

\* A line starts, with the stage that fits who typed it.
LEMMA NewLineKeeps ==
  ASSUME CmdIInv, line = NoLine, UNCHANGED listVars, NEW i \in Client \cup {0}, NEW t \in Typed,
         NEW stage \in {"forward", "server"}, line' = NewLine(i, t, stage),
         stage = "server" <=> i = 0
  PROVE  CmdIInv'
<1>1. clientCommands' = clientCommands /\ serverCommands' = serverCommands
  BY DEF listVars
<1>2. /\ line'.stage = stage /\ line'.by = i /\ line'.typed = t /\ line'.heard = <<>>
      /\ line'.result = "IGNORED"
  BY DEF NewLine
<1>3. line' \in Line
  <2>1. <<>> \in Seq(Heard)
    BY EmptySeq
  <2>2. QED
    BY <2>1 DEF NewLine, Line
<1>4. CmdTypeOK'
  BY <1>1, <1>2, <1>3 DEF CmdIInv, LinesAreHeard, CmdTypeOK
<1>5. HeardInOrder' /\ KeptFromGame'
  BY <1>2 DEF HeardInOrder, KeptFromGame
<1>6. WaysOfLines'
  <2>1. line' # NoLine
    BY <1>2 DEF NoLine
  <2>2. NobodyHeard'
    BY <1>2 DEF NobodyHeard
  <2>3. QED
    BY <1>2, <2>1, <2>2 DEF WaysOfLines
<1>7. QED
  BY <1>4, <1>5, <1>6 DEF CmdIInv, LinesAreHeard

\* The line comes to the loop and finds the first function, or none.
LEMMA FirstMatchKeeps ==
  ASSUME CmdIInv, line.stage \in {"forward", "server"}, UNCHANGED listVars,
         line' = At(NextMatch(0), "IGNORED"), line.by # 0 => line.typed.word # "menuselect"
  PROVE  CmdIInv'
<1> DEFINE n == NextMatch(0)
<1>1. CmdTypeOK /\ line \in Line
  BY OnItsWay DEF CmdIInv, LinesAreHeard
<1>2. line.heard = <<>> /\ DOMAIN <<>> = {}
  BY DEF CmdIInv, WaysOfLines, NobodyHeard
<1>3. n \in Nat /\ IsNext(n, 0)
  BY <1>1, NextMatchIsNext
<1>4. Matching \subseteq Nat \ {0} /\ Matching \subseteq DOMAIN List(line)
  BY <1>1, MatchingIsNat
<1>5. "IGNORED" \in Outcome
  BY DEF Outcome
<1> HIDE DEF n
<1>6. CASE n = 0
  <2>1. IsEnded(line', line, "IGNORED")
    BY <1>1, <1>5, <1>6, EndedLine DEF At, n
  <2>2. /\ line' \in Line /\ line'.by = line.by /\ line'.typed = line.typed /\ line'.heard = <<>>
        /\ line'.stage = "done" /\ line'.result = "IGNORED"
    BY <1>2, <2>1 DEF IsEnded
  <2>3. List(line)' = List(line) /\ Matching' = Matching
    BY <2>2, SameMatching
  <2>4. Matching = {}
    BY <1>3, <1>4, <1>6 DEF IsNext
  <2>5. CmdTypeOK'
    BY <1>1, <2>2 DEF CmdTypeOK, listVars
  <2>6. HeardInOrder'
    BY <1>2, <2>2, <2>3, <2>4 DEF HeardInOrder
  <2>7. KeptFromGame'
    BY <2>2 DEF KeptFromGame
  <2>8. WaysOfLines'
    BY <2>2 DEF WaysOfLines
  <2>9. QED
    BY <2>5, <2>6, <2>7, <2>8 DEF CmdIInv, LinesAreHeard
<1>7. CASE n # 0
  <2>1. IsInLoop(line', line, n, "IGNORED")
    BY <1>1, <1>3, <1>5, <1>7, LoopLine DEF n
  <2>2. /\ line' \in Line /\ line'.by = line.by /\ line'.typed = line.typed /\ line'.heard = <<>>
        /\ line'.stage = "loop" /\ line'.at = n /\ line'.result = "IGNORED"
    BY <1>2, <2>1 DEF IsInLoop
  <2>3. List(line)' = List(line) /\ Matching' = Matching
    BY <2>2, SameMatching
  <2>4. n \in Matching /\ \A m \in Matching : n <= m
    <3>1. n \in Matching /\ \A m \in Matching : m > 0 => n <= m
      BY <1>3, <1>7 DEF IsNext
    <3>2. \A m \in Matching : m > 0
      BY <1>4
    <3>3. QED
      BY <3>1, <3>2
  <2>5. CmdTypeOK'
    <3>1. line'.at \in DOMAIN List(line)'
      BY <1>4, <2>2, <2>3, <2>4
    <3>2. QED
      BY <1>1, <2>2, <3>1 DEF CmdTypeOK, listVars
  <2>6. HeardInOrder' /\ KeptFromGame'
    BY <2>2 DEF HeardInOrder, KeptFromGame
  <2>7. HeardUpTo(line.at - 1)'
    <3>1. \A m \in Matching : ~(m <= line'.at - 1)
      <4>1. \A m \in Matching : ~(m <= n - 1)
        BY <1>3, <1>4, <2>4
      <4>2. line'.at = n
        BY <2>2
      <4>3. QED
        BY <4>1, <4>2
    <3>2. DOMAIN line'.heard = {}
      BY <1>2, <2>2
    <3>3. QED
      BY <2>3, <3>1, <3>2 DEF HeardUpTo
  <2>8. WaysOfLines'
    <3>2. line'.at \in Matching'
      BY <2>2, <2>3, <2>4
    <3>3. DOMAIN line'.heard = {}
      BY <1>2, <2>2
    <3>4. QED
      BY <2>2, <2>7, <3>2, <3>3 DEF WaysOfLines
  <2>9. QED
    BY <2>5, <2>6, <2>8 DEF CmdIInv, LinesAreHeard
<1>8. QED
  BY <1>6, <1>7

\* A line that the forward or the menu takes.
LEMMA TakenKeeps ==
  ASSUME CmdIInv, line.stage \in {"forward", "menu"}, UNCHANGED listVars,
         NEW result \in Outcome, line' = Ended(result),
         result = "SUPERCEDE" \/ line.typed.word = "menuselect"
  PROVE  CmdIInv'
<1>1. CmdTypeOK /\ line \in Line
  BY OnItsWay DEF CmdIInv, LinesAreHeard
<1>2. NoLine.stage = "none"
  BY DEF NoLine
<1>3. line.heard = <<>> /\ line.by # 0
  BY <1>2 DEF CmdIInv, WaysOfLines, NobodyHeard
<1>4. DOMAIN <<>> = {}
  OBVIOUS
<1>5. IsEnded(line', line, result)
  BY <1>1, EndedLine
<1>6. /\ line' \in Line /\ line'.by = line.by /\ line'.typed = line.typed /\ line'.heard = <<>>
      /\ line'.stage = "done" /\ line'.result = result
  BY <1>3, <1>5 DEF IsEnded
<1>7. CmdTypeOK'
  BY <1>1, <1>6 DEF CmdTypeOK, listVars
<1>8. NotForFunctions'
  BY <1>3, <1>6 DEF NotForFunctions
<1>9. HeardInOrder'
  BY <1>3, <1>4, <1>6, <1>8 DEF HeardInOrder
<1>10. KeptFromGame'
  BY <1>6 DEF KeptFromGame
<1>11. WaysOfLines'
  BY <1>6 DEF WaysOfLines
<1>12. QED
  BY <1>7, <1>9, <1>10, <1>11 DEF CmdIInv, LinesAreHeard

LEMMA ForwardKeeps ==
  ASSUME CmdIInv, NEW r \in ReturnValue, ForwardAnswers(r)
  PROVE  CmdIInv'
<1>1. line.stage = "forward" /\ UNCHANGED listVars
  BY DEF ForwardAnswers
<1>2. CASE r = "Stop"
  <2>1. line' = Ended("SUPERCEDE") /\ "SUPERCEDE" \in Outcome
    BY <1>2 DEF ForwardAnswers, Outcome
  <2>2. QED
    BY <1>1, <2>1, TakenKeeps
<1>3. CASE r # "Stop" /\ line.typed.word # "menuselect"
  <2>1. line' = At(NextMatch(0), "IGNORED")
    BY <1>3 DEF ForwardAnswers
  <2>2. QED
    BY <1>1, <1>3, <2>1, FirstMatchKeeps
<1>4. CASE r # "Stop" /\ line.typed.word = "menuselect"
  <2>1. line' = [line EXCEPT !.stage = "menu"]
    BY <1>4 DEF ForwardAnswers
  <2>2. CmdTypeOK /\ line \in Line
    BY <1>1, OnItsWay DEF CmdIInv, LinesAreHeard
  <2>3. /\ line' \in Line /\ line'.by = line.by /\ line'.typed = line.typed /\ line'.heard = line.heard
        /\ line'.stage = "menu" /\ line'.result = line.result
    BY <2>1, <2>2 DEF Line
  <2>4. NobodyHeard /\ line.by # 0
    <3>1. NoLine.stage = "none"
      BY DEF NoLine
    <3>2. QED
      BY <1>1, <3>1 DEF CmdIInv, WaysOfLines
  <2>5. CmdTypeOK'
    BY <1>1, <2>2, <2>3 DEF CmdTypeOK, listVars
  <2>6. HeardInOrder' /\ KeptFromGame'
    BY <2>3 DEF HeardInOrder, KeptFromGame
  <2>7. WaysOfLines'
    BY <1>4, <2>3, <2>4 DEF WaysOfLines, NobodyHeard
  <2>8. QED
    BY <2>5, <2>6, <2>7 DEF CmdIInv, LinesAreHeard
<1>5. QED
  BY <1>2, <1>3, <1>4

LEMMA OutsideLoopKeeps ==
  ASSUME CmdIInv,
         ServerStarts \/ FunctionCrashes \/ HandlerReturns
         \/ \E m \in {"IGNORED", "SUPERCEDE"} : MenuAnswers(m)
  PROVE  CmdIInv'
<1>1. UNCHANGED listVars
  BY DEF ServerStarts, FunctionCrashes, HandlerReturns, MenuAnswers
<1>2. NoLine.stage = "none"
  BY DEF NoLine
<1>3. CASE ServerStarts
  <2>1. line.stage = "server" /\ line' = At(NextMatch(0), "IGNORED")
    BY <1>3 DEF ServerStarts
  <2>2. line.by = 0
    BY <2>1 DEF CmdIInv, WaysOfLines
  <2>3. QED
    BY <1>1, <2>1, <2>2, FirstMatchKeeps
<1>4. ASSUME NEW m \in {"IGNORED", "SUPERCEDE"}, MenuAnswers(m)
      PROVE  CmdIInv'
  <2>1. line.stage = "menu" /\ line' = Ended(m) /\ m \in Outcome
    BY <1>4 DEF MenuAnswers, Outcome
  <2>2. line.typed.word = "menuselect"
    BY <2>1 DEF CmdIInv, WaysOfLines
  <2>3. QED
    BY <1>1, <2>1, <2>2, TakenKeeps
<1>5. CASE FunctionCrashes
  <2>1. line.stage = "loop" /\ line' = [line EXCEPT !.stage = "crashed"]
    BY <1>5 DEF FunctionCrashes
  <2>2. CmdTypeOK /\ line \in Line
    BY <2>1, OnItsWay DEF CmdIInv, LinesAreHeard
  <2>3. line' \in Line /\ line'.stage = "crashed"
    BY <2>1, <2>2 DEF Line
  <2>4. CmdTypeOK' /\ HeardInOrder' /\ KeptFromGame' /\ WaysOfLines'
    BY <1>1, <2>2, <2>3 DEF CmdTypeOK, HeardInOrder, KeptFromGame, WaysOfLines, listVars
  <2>5. QED
    BY <2>4 DEF CmdIInv, LinesAreHeard
<1>6. CASE HandlerReturns
  <2>1. line' = NoLine
    BY <1>6 DEF HandlerReturns
  <2>2. CmdTypeOK' /\ HeardInOrder' /\ KeptFromGame' /\ WaysOfLines'
    BY <1>1, <1>2, <2>1
    DEF CmdIInv, LinesAreHeard, CmdTypeOK, HeardInOrder, KeptFromGame, WaysOfLines, listVars
  <2>3. QED
    BY <2>2 DEF CmdIInv, LinesAreHeard
<1>7. QED
  BY <1>3, <1>4, <1>5, <1>6

\* A function of the loop answers: it has now heard of the line, and the loop
\* goes on to the next one, or ends.
LEMMA CallbackKeeps ==
  ASSUME CmdIInv, NEW r \in Answer, CallbackReturns(r)
  PROVE  CmdIInv'
<1> DEFINE h == [cmd |-> line.at, answer |-> r]
           n == After(r)
           res == IF line.by = 0 THEN "IGNORED" ELSE NewMetaResult(r)
           a == line.at
           len == Len(line.heard)
<1>1. line.stage = "loop" /\ UNCHANGED listVars
  BY DEF CallbackReturns
<1>2. CmdTypeOK /\ line \in Line
  BY <1>1, OnItsWay DEF CmdIInv, LinesAreHeard
<1>3. Matching \subseteq Nat \ {0} /\ Matching \subseteq DOMAIN List(line)
  BY <1>2, MatchingIsNat
<1>4. /\ a \in Matching /\ HeardUpTo(a - 1)
      /\ line.by # 0 =>
           /\ line.typed.word # "menuselect"
           /\ \A k \in DOMAIN line.heard : line.heard[k].answer # "Stop"
           /\ line.result = "SUPERCEDE" <=> \E k \in DOMAIN line.heard : line.heard[k].answer = "Handled"
  BY <1>1 DEF CmdIInv, WaysOfLines
<1>5. a \in Nat /\ h \in Heard /\ line.heard \in Seq(Heard) /\ line.result \in Outcome
  BY <1>2, <1>4 DEF Line, Heard, Outcome
<1>6. h.cmd = a /\ h.answer = r
  OBVIOUS
<1>7. res \in Outcome
  BY <1>5 DEF NewMetaResult, Outcome
<1>8. NextMatch(a) \in Nat /\ IsNext(NextMatch(a), a)
  BY <1>2, <1>5, NextMatchIsNext
<1>9. n \in Nat /\ (r = "Stop" /\ line.by # 0 => n = 0) /\ (r # "Stop" \/ line.by = 0 => IsNext(n, a))
  BY <1>8 DEF After
<1>10. line' = [At(n, res) EXCEPT !.heard = Append(@, h)]
  BY DEF CallbackReturns
<1> HIDE DEF h, n, res
<1>11. /\ line' \in Line /\ line'.by = line.by /\ line'.typed = line.typed
       /\ line'.heard = Append(line.heard, h) /\ line'.result = res
       /\ line'.stage = IF n = 0 THEN "done" ELSE "loop"
       /\ n # 0 => line'.at = n
  <2>1. /\ At(n, res) \in Line /\ At(n, res).by = line.by /\ At(n, res).typed = line.typed
        /\ At(n, res).heard = line.heard /\ At(n, res).result = res
        /\ At(n, res).stage = IF n = 0 THEN "done" ELSE "loop"
        /\ n # 0 => At(n, res).at = n
    <3>1. CASE n = 0
      <4>1. IsEnded(At(n, res), line, res)
        BY <1>2, <1>7, <3>1, EndedLine DEF At
      <4>2. QED
        BY <3>1, <4>1 DEF IsEnded
    <3>2. CASE n # 0
      <4>1. IsInLoop(At(n, res), line, n, res)
        BY <1>2, <1>7, <1>9, <3>2, LoopLine
      <4>2. QED
        BY <3>2, <4>1 DEF IsInLoop
    <3>3. QED
      BY <3>1, <3>2
  <2> DEFINE q == At(n, res)
  <2> HIDE DEF q
  <2>2. LET p == [q EXCEPT !.heard = Append(@, h)]
        IN  /\ p \in Line /\ p.by = q.by /\ p.typed = q.typed /\ p.stage = q.stage
            /\ p.at = q.at /\ p.result = q.result /\ p.heard = Append(q.heard, h)
    <3>1. q \in Line
      BY <2>1 DEF q
    <3>2. QED
      BY <1>5, <3>1, HeardLine
  <2>3. line' = [q EXCEPT !.heard = Append(@, h)]
    BY <1>10 DEF q
  <2>4. /\ line' \in Line /\ line'.by = q.by /\ line'.typed = q.typed /\ line'.stage = q.stage
        /\ line'.at = q.at /\ line'.result = q.result /\ line'.heard = Append(q.heard, h)
    BY <2>2, <2>3
  <2>5. QED
    BY <2>1, <2>4 DEF q
<1>12. List(line)' = List(line) /\ Matching' = Matching
  BY <1>1, <1>11, SameMatching
<1>13. /\ len \in Nat /\ DOMAIN line.heard = 1..len
       /\ DOMAIN line'.heard = 1..len + 1 /\ Len(line'.heard) = len + 1
       /\ \A k \in 1..len : line'.heard[k] = line.heard[k] /\ line.heard[k] \in Heard
       /\ line'.heard[len + 1] = h
  BY <1>5, <1>11, HeardAppend
<1> HIDE DEF len, a
<1>14. CmdTypeOK'
  <2>1. n # 0 => n \in Matching
    BY <1>9 DEF IsNext
  <2>2. line'.stage = "loop" => line'.at \in DOMAIN List(line)'
    BY <1>3, <1>11, <1>12, <2>1
  <2>3. QED
    BY <1>1, <1>2, <1>11, <2>2 DEF CmdTypeOK, listVars
\* What has been heard, with the function that has just answered.
<1>15. ASSUME NEW k \in 1..len + 1
       PROVE  /\ line'.heard[k].cmd \in Matching /\ line'.heard[k].cmd <= a
              /\ k <= len => line'.heard[k] = line.heard[k] /\ line.heard[k].cmd <= a - 1
              /\ k > len => k = len + 1 /\ line'.heard[k] = h
  <2>1. CASE k \in 1..len
    <3>1. line.heard[k].cmd \in Matching /\ line.heard[k].cmd <= a - 1
      BY <1>4, <1>13, <2>1 DEF HeardUpTo
    <3>2. line.heard[k].cmd \in Nat
      BY <1>3, <3>1
    <3>3. line.heard[k].cmd <= a
      BY <1>5, <3>1, <3>2
    <3>4. QED
      BY <1>13, <2>1, <3>1, <3>3
  <2>2. CASE k \notin 1..len
    <3>1. k = len + 1
      BY <1>13, <2>2
    <3>2. QED
      BY <1>4, <1>5, <1>6, <1>13, <3>1
  <2>3. QED
    BY <2>1, <2>2
<1>16. ASSUME NEW k \in 1..len + 1, NEW j \in 1..len + 1, j < k
       PROVE  line'.heard[j].cmd < line'.heard[k].cmd
  <2>1. j \in 1..len
    BY <1>13, <1>16
  <2>2. CASE k \in 1..len
    BY <1>4, <1>13, <1>16, <2>1, <2>2 DEF HeardUpTo
  <2>3. CASE k \notin 1..len
    <3>1. k = len + 1
      BY <1>13, <2>3
    <3>2. line'.heard[k].cmd = a
      BY <1>6, <1>13, <3>1
    <3>3. line'.heard[j].cmd <= a - 1 /\ line'.heard[j].cmd \in Nat
      <4>1. j \in 1..len + 1 /\ j <= len
        BY <1>13, <2>1
      <4>2. line'.heard[j].cmd \in Matching /\ line'.heard[j].cmd <= a - 1
        BY <1>15, <4>1
      <4>3. QED
        BY <1>3, <4>2
    <3>4. QED
      BY <1>5, <3>2, <3>3
  <2>4. QED
    BY <2>2, <2>3
<1>17. ASSUME NEW m \in Matching, m <= a
       PROVE  \E k \in 1..len + 1 : line'.heard[k].cmd = m
  <2>1. CASE m = a
    <3>1. len + 1 \in 1..len + 1
      BY <1>13
    <3>2. QED
      BY <1>6, <1>13, <2>1, <3>1
  <2>2. CASE m # a
    <3>1. m <= a - 1
      BY <1>3, <1>5, <1>17, <2>2
    <3>2. PICK k \in 1..len : line.heard[k].cmd = m
      BY <1>4, <1>13, <3>1 DEF HeardUpTo
    <3>3. k \in 1..len + 1 /\ line'.heard[k].cmd = m
      BY <1>13, <3>2
    <3>4. QED
      BY <3>3
  <2>3. QED
    BY <2>1, <2>2
\* What it makes of the result of the handler.
<1>18. ASSUME line.by # 0
       PROVE  /\ res = "SUPERCEDE" <=> r \in {"Stop", "Handled"} \/ line.result = "SUPERCEDE"
              /\ line.result = "SUPERCEDE" <=> \E k \in 1..len : line.heard[k].answer = "Handled"
              /\ \A k \in 1..len : line.heard[k].answer # "Stop"
  <2>1. res = NewMetaResult(r)
    BY <1>18 DEF res
  <2>2. res = "SUPERCEDE" <=> r \in {"Stop", "Handled"} \/ line.result = "SUPERCEDE"
    BY <2>1 DEF NewMetaResult
  <2>3. QED
    BY <1>4, <1>13, <1>18, <2>2
<1>19. CASE n = 0
  <2>1. line'.stage = "done" /\ line'.stage # "loop"
    BY <1>11, <1>19
  <2>2. \/ r = "Stop" /\ line.by # 0
        \/ \A m \in Matching : m <= a
    BY <1>9, <1>19 DEF IsNext
  <2>3. HeardInOrder'
    <3> DEFINE order == [k \in 1..len + 1 |-> line'.heard[k].cmd]
               stops == {k \in 1..len + 1 : line'.heard[k].answer = "Stop"}
    <3>1. ASSUME NEW k \in 1..len + 1
          PROVE  /\ order[k] \in Matching
                 /\ \A j \in 1..len + 1 : j < k => order[j] < order[k]
                 /\ \A m \in Matching : m < order[k] => \E j \in 1..len + 1 : order[j] = m
      <4>1. order[k] \in Matching /\ order[k] <= a /\ order[k] \in Nat
        BY <1>3, <1>15
      <4>2. \A m \in Matching : m < order[k] => m <= a
        BY <1>3, <1>5, <4>1
      <4>3. \A m \in Matching : m < order[k] => \E j \in 1..len + 1 : order[j] = m
        BY <1>17, <4>2
      <4>4. \A j \in 1..len + 1 : j < k => order[j] < order[k]
        BY <1>16
      <4>5. QED
        BY <4>1, <4>3, <4>4
    <3>2. line.by # 0 => stops \subseteq {len + 1}
      BY <1>13, <1>15, <1>18
    <3>3. r = "Stop" => stops # {}
      <4>1. len + 1 \in 1..len + 1
        BY <1>13
      <4>2. line'.heard[len + 1].answer = r
        BY <1>6, <1>13
      <4>3. QED
        BY <4>1, <4>2
    <3>4. (\A m \in Matching : m <= a) => \A m \in Matching : \E k \in 1..len + 1 : order[k] = m
      BY <1>17
    <3>5. /\ \A k \in 1..len + 1 :
                /\ order[k] \in Matching
                /\ \A j \in 1..len + 1 : j < k => order[j] < order[k]
                /\ \A m \in Matching : m < order[k] => \E j \in 1..len + 1 : order[j] = m
          /\ line.by # 0 => stops \subseteq {len + 1}
          /\ \/ stops # {} /\ line.by # 0
             \/ \A m \in Matching : \E k \in 1..len + 1 : order[k] = m
      <4> HIDE DEF order, stops
      <4>1. QED
        BY <2>2, <3>1, <3>2, <3>3, <3>4
    <3>6. DOMAIN order = 1..len + 1
      OBVIOUS
    <3>7. /\ order = [k \in DOMAIN line'.heard |-> line'.heard[k].cmd]
          /\ stops = {k \in DOMAIN line'.heard : line'.heard[k].answer = "Stop"}
      BY <1>13
    <3> HIDE DEF order, stops
    <3>8. /\ \A k \in DOMAIN order :
               /\ order[k] \in Matching'
               /\ \A j \in DOMAIN order : j < k => order[j] < order[k]
               /\ \A m \in Matching' : m < order[k] => \E j \in DOMAIN order : order[j] = m
          /\ line'.by # 0 => stops \subseteq {Len(line'.heard)}
          /\ \/ stops # {} /\ line'.by # 0
             \/ \A m \in Matching' : \E k \in DOMAIN order : order[k] = m
      <4>1. Len(line'.heard) = len + 1 /\ Matching' = Matching /\ line'.by = line.by
        BY <1>11, <1>12, <1>13
      <4>2. QED
        BY <3>5, <3>6, <4>1, Zenon
    <3>9. QED
      BY <3>7, <3>8, Zenon DEF HeardInOrder
  <2>4. KeptFromGame'
    <3>1. SUFFICES ASSUME line.by # 0
                   PROVE  /\ res = "SUPERCEDE" <=>
                               \E k \in 1..len + 1 : line'.heard[k].answer \in {"Stop", "Handled"}
                          /\ line.typed.word # "menuselect"
      BY <1>11, <1>13 DEF KeptFromGame
    <3>2. len + 1 \in 1..len + 1 /\ \A k \in 1..len : k \in 1..len + 1
      BY <1>13
    <3>3. line'.heard[len + 1].answer = r
      BY <1>6, <1>13
    <3>4. ASSUME res = "SUPERCEDE"
          PROVE  \E k \in 1..len + 1 : line'.heard[k].answer \in {"Stop", "Handled"}
      <4>1. CASE r \in {"Stop", "Handled"}
        BY <3>2, <3>3, <4>1
      <4>2. CASE r \notin {"Stop", "Handled"}
        <5>1. PICK k \in 1..len : line.heard[k].answer = "Handled"
          BY <1>18, <3>1, <3>4, <4>2
        <5>2. line'.heard[k].answer = "Handled"
          BY <1>13, <5>1
        <5>3. QED
          BY <3>2, <5>2
      <4>3. QED
        BY <4>1, <4>2
    <3>5. ASSUME NEW k \in 1..len + 1, line'.heard[k].answer \in {"Stop", "Handled"}
          PROVE  res = "SUPERCEDE"
      <4>1. CASE k \in 1..len
        BY <1>13, <1>18, <3>1, <3>5, <4>1
      <4>2. CASE k \notin 1..len
        <5>1. k = len + 1
          BY <1>13, <4>2
        <5>2. r \in {"Stop", "Handled"}
          BY <3>3, <3>5, <5>1
        <5>3. QED
          BY <1>18, <3>1, <5>2
      <4>3. QED
        BY <4>1, <4>2
    <3>6. QED
      BY <1>4, <3>1, <3>4, <3>5
  <2>5. WaysOfLines'
    BY <1>11, <1>19 DEF WaysOfLines
  <2>6. QED
    BY <1>14, <2>3, <2>4, <2>5 DEF CmdIInv, LinesAreHeard
<1>20. CASE n # 0
  <2>1. line'.stage = "loop" /\ line'.at = n
    BY <1>11, <1>20
  <2>2. IsNext(n, a) /\ ~(r = "Stop" /\ line.by # 0)
    BY <1>9, <1>20
  <2>3. n \in Matching /\ n > a /\ \A m \in Matching : m > a => n <= m
    BY <1>20, <2>2 DEF IsNext
  <2>4. HeardInOrder' /\ KeptFromGame'
    BY <2>1 DEF HeardInOrder, KeptFromGame
  <2>5. HeardUpTo(line.at - 1)'
    <3>1. ASSUME NEW k \in 1..len + 1
          PROVE  line'.heard[k].cmd \in Matching /\ line'.heard[k].cmd <= n - 1
      <4>1. line'.heard[k].cmd \in Matching /\ line'.heard[k].cmd <= a
        BY <1>15
      <4>2. line'.heard[k].cmd \in Nat
        BY <1>3, <4>1
      <4>3. QED
        BY <1>5, <1>9, <2>3, <4>1, <4>2
    <3>2. ASSUME NEW m \in Matching, m <= n - 1
          PROVE  \E k \in 1..len + 1 : line'.heard[k].cmd = m
      <4>1. m \in Nat
        BY <1>3
      <4>2. ~(m > a)
        BY <1>9, <2>3, <3>2, <4>1
      <4>3. m <= a
        BY <1>5, <4>1, <4>2
      <4>4. QED
        BY <1>17, <4>3
    <3>3. QED
      BY <1>12, <1>13, <1>16, <2>1, <3>1, <3>2 DEF HeardUpTo
  <2>6. WaysOfLines'
    <3>1. line.by # 0 =>
            /\ line.typed.word # "menuselect"
            /\ \A k \in 1..len + 1 : line'.heard[k].answer # "Stop"
            /\ res = "SUPERCEDE" <=> \E k \in 1..len + 1 : line'.heard[k].answer = "Handled"
      <4>1. SUFFICES ASSUME line.by # 0
                     PROVE  /\ \A k \in 1..len + 1 : line'.heard[k].answer # "Stop"
                            /\ res = "SUPERCEDE" <=> \E k \in 1..len + 1 : line'.heard[k].answer = "Handled"
        BY <1>4
      <4>2. r # "Stop" /\ line'.heard[len + 1].answer = r
        BY <1>6, <1>13, <2>2, <4>1
      <4>3. ASSUME NEW k \in 1..len + 1
            PROVE  line'.heard[k].answer = IF k \in 1..len THEN line.heard[k].answer ELSE r
        <5>1. CASE k \in 1..len
          BY <1>13, <5>1
        <5>2. CASE k \notin 1..len
          <6>1. k = len + 1
            BY <1>13, <5>2
          <6>2. QED
            BY <4>2, <5>2, <6>1
        <5>3. QED
          BY <5>1, <5>2
      <4>4. \A k \in 1..len + 1 : line'.heard[k].answer # "Stop"
        BY <1>18, <4>1, <4>2, <4>3
      <4>5. len + 1 \in 1..len + 1 /\ \A k \in 1..len : k \in 1..len + 1
        BY <1>13
      <4>6. ASSUME res = "SUPERCEDE"
            PROVE  \E k \in 1..len + 1 : line'.heard[k].answer = "Handled"
        <5>1. CASE r = "Handled"
          BY <4>2, <4>5, <5>1
        <5>2. CASE r # "Handled"
          <6>1. PICK k \in 1..len : line.heard[k].answer = "Handled"
            BY <1>18, <4>1, <4>2, <4>6, <5>2
          <6>2. QED
            BY <4>3, <4>5, <6>1
        <5>3. QED
          BY <5>1, <5>2
      <4>7. ASSUME NEW k \in 1..len + 1, line'.heard[k].answer = "Handled"
            PROVE  res = "SUPERCEDE"
        <5>1. CASE k \in 1..len
          BY <1>18, <4>1, <4>3, <4>7, <5>1
        <5>2. CASE k \notin 1..len
          BY <1>18, <4>1, <4>3, <4>7, <5>2
        <5>3. QED
          BY <5>1, <5>2
      <4>8. QED
        BY <4>4, <4>6, <4>7
    <3>2. line'.at \in Matching'
      BY <1>12, <2>1, <2>3
    <3>3. line'.stage \notin {"forward", "menu", "server"}
      BY <2>1
    <3>4. line'.by # 0 =>
            /\ line'.typed.word # "menuselect"
            /\ \A k \in DOMAIN line'.heard : line'.heard[k].answer # "Stop"
            /\ line'.result = "SUPERCEDE" <=> \E k \in DOMAIN line'.heard : line'.heard[k].answer = "Handled"
      BY <1>11, <1>13, <3>1
    <3>5. QED
      BY <2>1, <2>5, <3>2, <3>3, <3>4 DEF WaysOfLines
  <2>7. QED
    BY <1>14, <2>4, <2>6 DEF CmdIInv, LinesAreHeard
<1>21. QED
  BY <1>19, <1>20

LEMMA CommandsStart == CmdInit => CmdIInv
<1>1. SUFFICES ASSUME CmdInit
               PROVE  CmdIInv
  OBVIOUS
<1>2. clientCommands = <<>> /\ serverCommands = <<>> /\ line = NoLine /\ line.stage = "none"
  BY <1>1 DEF CmdInit, NoLine
<1>3. <<>> \in Seq(Pattern) /\ Len(<<>>) = 0 /\ MaxCommands \in Nat
  BY EmptySeq, CommandBounds
<1>4. /\ clientCommands \in Seq(Pattern) /\ serverCommands \in Seq(Pattern)
      /\ Len(clientCommands) = 0 /\ Len(serverCommands) = 0
  BY <1>2, <1>3, Zenon
<1>5. CmdTypeOK
  BY <1>2, <1>3, <1>4 DEF CmdTypeOK
<1>6. HeardInOrder /\ KeptFromGame /\ WaysOfLines
  BY <1>2 DEF HeardInOrder, KeptFromGame, WaysOfLines
<1>7. QED
  BY <1>5, <1>6 DEF CmdIInv, LinesAreHeard

LEMMA CommandsStay ==
  ASSUME CmdIInv, UNCHANGED cmdVars
  PROVE  CmdIInv'
<1>1. clientCommands' = clientCommands /\ serverCommands' = serverCommands /\ line' = line
  BY DEF cmdVars
<1>2. List(line)' = List(line) /\ Matching' = Matching
  BY <1>1, SameMatching DEF listVars
<1>3. CmdTypeOK' /\ HeardInOrder' /\ KeptFromGame'
  BY <1>1, <1>2
  DEF CmdIInv, LinesAreHeard, CmdTypeOK, HeardInOrder, KeptFromGame, NotForFunctions
<1>4. WaysOfLines'
  BY <1>1, <1>2 DEF CmdIInv, WaysOfLines, NobodyHeard, HeardUpTo
<1>5. QED
  BY <1>3, <1>4 DEF CmdIInv, LinesAreHeard

\* The line of a client or of the server, which has no slot.
LEMMA StartLineKeeps ==
  ASSUME CmdIInv, StartLine
  PROVE  CmdIInv'
<1>1. ASSUME NEW t \in Typed, ServerTypes(t)
      PROVE  CmdIInv'
  <2>1. line = NoLine /\ line' = NewLine(0, t, "server") /\ UNCHANGED listVars
    BY <1>1 DEF ServerTypes
  <2>2. QED
    BY <2>1, NewLineKeeps
<1>2. ASSUME NEW t \in Typed, NEW i \in Client, ClientTypes(i, t)
      PROVE  CmdIInv'
  <2>1. line = NoLine /\ line' = NewLine(i, t, "forward") /\ UNCHANGED listVars
    BY <1>2 DEF ClientTypes
  <2>2. i # 0
    BY ClientsHaveSlots, SlotsAndBounds DEF Slot
  <2>3. QED
    BY <2>1, <2>2, NewLineKeeps
<1>3. QED
  BY <1>1, <1>2 DEF StartLine

----------------------------------------------------------------------------
(* The specification.                                                      *)

\* The players' objects, the engine's clients and the count agree, and lines
\* are heard in their order, in every state.
THEOREM InductiveInvariant == Spec => []IInv
<1>1. Init => IInv
  BY PlayersStart, CommandsStart DEF Init, IInv
<1>2. IInv /\ [Next]_vars => IInv'
  <2>1. SUFFICES ASSUME IInv, [Next]_vars
                 PROVE  PlayerIInv' /\ CmdIInv'
    BY DEF IInv
  <2>2. PlayerIInv /\ CmdIInv
    BY <2>1 DEF IInv
  <2>3. CASE line = NoLine /\ PlayerEvent /\ UNCHANGED cmdVars
    BY <2>2, <2>3, PlayersKeep, CommandsStay
  <2>4. CASE line = NoLine /\ ChangeMap /\ ClearCommands
    BY <2>2, <2>4, PlayersKeep, ClearKeeps
  <2>5. CASE Register
    <3>1. UNCHANGED playerVars /\ \E c \in Pattern : RegisterClient(c) \/ RegisterServer(c)
      BY <2>5 DEF Register
    <3>2. QED
      BY <2>2, <3>1, PlayersKeep, RegisterKeeps
  <2>6. CASE StartLine
    <3>1. UNCHANGED playerVars
      BY <2>6 DEF StartLine
    <3>2. QED
      BY <2>2, <2>6, <3>1, PlayersKeep, StartLineKeeps
  <2>7. CASE CmdHandlerStep /\ UNCHANGED playerVars
    <3>1. CmdIInv'
      BY <2>2, <2>7, ForwardKeeps, CallbackKeeps, OutsideLoopKeeps DEF CmdHandlerStep
    <3>2. QED
      BY <2>2, <2>7, <3>1, PlayersKeep
  <2>8. CASE UNCHANGED vars
    <3>1. UNCHANGED playerVars /\ UNCHANGED cmdVars
      BY <2>8 DEF vars
    <3>2. QED
      BY <2>2, <3>1, PlayersKeep, CommandsStay
  <2>9. QED
    BY <2>1, <2>3, <2>4, <2>5, <2>6, <2>7, <2>8 DEF Next
<1>3. QED
  BY <1>1, <1>2, PTL DEF Spec

\* Whatever index a plugin asks for, also in the middle of an event, the
\* natives tell the state the engine's client is in (PlayerNatives.cpp).
THEOREM NativesAreRight == Spec => []NativesTellTheTruth
<1>1. IInv => NativesTellTheTruth
  BY DEF IInv, PlayerIInv
<1>2. QED
  BY <1>1, InductiveInvariant, PTL

\* A client never has the ID, the menu or the address of the one who had the
\* slot before (Player::disconnect).
THEOREM SlotsAreCleared == Spec => []NothingInherited
<1>1. IInv => NothingInherited
  BY DEF IInv, PlayerIInv
<1>2. QED
  BY <1>1, InductiveInvariant, PTL

\* m_playersNum is the number of connected clients while nobody was counted
\* twice or left uncounted, and does not wrap around (PlayerMngr::getNumPlayers).
THEOREM PlayersAreCounted == Spec => []CountIsExact
<1>1. IInv => CountIsExact
  BY DEF IInv, PlayerIInv
<1>2. QED
  BY <1>1, InductiveInvariant, PTL

\* A line is heard by the functions of the matching commands in their order,
\* up to the first Stop, and by the game unless one of them wants it
\* (CommandMngr::ClientCommandMeta, CommandMngr::PluginSrvCommand).
THEOREM FunctionsHearTheirLines == Spec => []LinesAreHeard
<1>1. IInv => LinesAreHeard
  BY DEF IInv, CmdIInv
<1>2. QED
  BY <1>1, InductiveInvariant, PTL
=============================================================================
