------------------------------ MODULE MenuMngr ------------------------------
(***************************************************************************)
(* The menus players look at: MenuMngr and the handlers of Menu            *)
(* (src/MenuSystem.cpp), the menu a Player holds (src/PlayerSystem.cpp)    *)
(* and the menu natives of the SourcePawn adapter (MenuNatives.cpp).       *)
(* What a page holds is the business of MenuPages; here a key stands for   *)
(* an item of a page, for one of the navigation items, or for Exit.        *)
(*                                                                         *)
(* Everything runs on one thread, but the handlers and the callbacks of    *)
(* items are plugin code: while ClientCommand(), closeMenu(), display() or *)
(* the loop of destroyMenu() waits for one, it may create, display, close  *)
(* and destroy menus.  `calls' is the stack of what waits.  m_slots and    *)
(* m_keys belong to the menu, not to the player who looks at it: whoever   *)
(* is shown a menu last overwrites those of the others.                    *)
(***************************************************************************)
EXTENDS Integers, Sequences, FiniteSets

CONSTANTS
  Menu,          \* addresses of Menu objects
  NoMenu,        \* nullptr
  MaxClients,    \* getMaxClients()
  LastPage,      \* the last page of each menu
  MaxDepth,      \* bound on nested handlers and callbacks
  Kinds,         \* the menus plugins register: styles, and global or not
  Habits         \* what plugins do to a menu or a player that the code
                 \* cannot survive: see MayDisplay and MayDestroy

ASSUME NoMenuIsNone  == NoMenu \notin Menu
ASSUME NumbersAreNat == MaxClients \in Nat \ {0} /\ LastPage \in Nat /\ MaxDepth \in Nat \ {0}
ASSUME KindsAre      == Kinds \in [Menu -> SUBSET ({"Item", "Text"} \X BOOLEAN)]
ASSUME HabitsAre     == Habits \subseteq {"Lobby", "Redisplay", "DestroyUsed"}

VARIABLES
  menus,         \* m_menus: live menus and their fields
  players,       \* m_players
  screen,        \* what each client has on its screen: a page of a menu
  calls,         \* stack of suspended calls, innermost last
  marks          \* history: what crossed the menu each player was shown last

vars == <<menus, players, screen, calls, marks>>

Player == 1..MaxClients
Page == 0..LastPage
KeyName == {"item", "next", "back", "exit"}
live == DOMAIN menus

\* m_slots: the page the first rows are of, and the one of all that is written
\* after them: the other rows, the navigation items and m_keys.
MenuObject == [global: BOOLEAN, style: {"Item", "Text"}, rows: Page, drawn: Page]

PlayerObject == [menu: Menu \cup {NoMenu}, page: Page, inGame: BOOLEAN]

Screen == [menu: Menu \cup {NoMenu}, page: Page, keys: SUBSET KeyName]

Nothing == [menu |-> NoMenu, page |-> 0, keys |-> {}]

\* Somebody else was shown the menu since, or another display() or a closeMenu()
\* for the player began or ended while display() showed it to him.
Mark == {"shared", "crossed"}

\* Suspended calls: ClientCommand() in the handler of the chosen key, with the
\* page of the slot and what the player saw; closeMenu() in the exit handler;
\* destroyMenu() at a player; display() in the callback of an item.  `marks' are
\* the player's when he chose, and whether he was shown a menu since ("moved"), or
\* whether display() has written the first rows ("rows").
Frame ==
  [kind: {"select", "exit", "destroy", "display"}, menu: Menu, player: 1..MaxClients + 1,
   key: KeyName, page: Page, seen: Screen, marks: SUBSET (Mark \cup {"moved", "rows"})]

Fresh == [menu |-> NoMenu, page |-> 0, inGame |-> FALSE]

Init ==
  /\ menus = [m \in {} |-> {}]
  /\ players = [p \in Player |-> Fresh]
  /\ screen = [p \in Player |-> Nothing]
  /\ calls = <<>>
  /\ marks = [p \in Player |-> {}]

----------------------------------------------------------------------------
Top == calls[Len(calls)]

\* The handlers and callbacks that run; the loop of destroyMenu() is none.
Depth(stack) == Cardinality({k \in DOMAIN stack : stack[k].kind # "destroy"})

Pop == SubSeq(calls, 1, Len(calls) - 1)

Waiting(kinds) == {k \in DOMAIN calls : calls[k].kind \in kinds}

\* Plugin code runs on an event of its own, in a handler or in a callback.
PluginRuns == calls # <<>> => Top.kind \in {"select", "exit", "display"}

Call(kind, m, p) ==
  [kind |-> kind, menu |-> m, player |-> p, key |-> "exit", page |-> 0,
   seen |-> Nothing, marks |-> {}]

KeysOfBeyond(m, page) ==           \* mutant: the last page has a Next key, too
  IF menus[m].style = "Text" THEN {"item"}
  ELSE {"item", "exit", "next"} \cup (IF page > 0 THEN {"back"} ELSE {})

\* The keys a page of a menu offers (m_keys).
KeysOf(m, page) ==
  IF menus[m].style = "Text" THEN {"item"}
  ELSE {"item", "exit"} \cup (IF page < LastPage THEN {"next"} ELSE {})
                        \cup (IF page > 0 THEN {"back"} ELSE {})

Shown(m, page) == [menu |-> m, page |-> page, keys |-> KeysOf(m, page)]

\* registerMenu(); a text menu is treated as global whatever it was given.
RegisterMenu(m, style, global) ==
  /\ m \notin live
  /\ menus' = [n \in live \cup {m} |->
                 IF n = m THEN [global |-> global, style |-> style, rows |-> 0, drawn |-> 0]
                 ELSE menus[n]]
  /\ UNCHANGED <<players, screen, calls, marks>>

----------------------------------------------------------------------------
(* Menu::display(), called from `stack'.                                   *)

Displaying(p) == \E k \in Waiting({"display"}) : calls[k].player = p

\* What is done to a player's menu crosses a display() that shows him one.
Crossing(p) == IF Displaying(p) THEN {"crossed"} ELSE {}

\* A handler of his that waits will read the page that is set now.
Moved(stack, p) ==
  [k \in DOMAIN stack |->
     IF stack[k].kind = "select" /\ stack[k].player = p
     THEN [stack[k] EXCEPT !.marks = @ \cup {"moved"}] ELSE stack[k]]

\* The player gets the menu and the page; the text of a text menu is sent at
\* once, that of the others when the callbacks of the items have answered.
Displayed(m, p, page, stack) ==
  /\ players' = [players EXCEPT ![p].menu = m, ![p].page = page]
  /\ marks' = [marks EXCEPT ![p] = Crossing(p)]
  /\ IF menus[m].style = "Text"
     THEN screen' = [screen EXCEPT ![p] = Shown(m, page)] /\ calls' = Moved(stack, p)
     ELSE /\ Depth(stack) < MaxDepth
          /\ calls' = Append(Moved(stack, p), [Call("display", m, p) EXCEPT !.page = page])
          /\ UNCHANGED screen
  /\ UNCHANGED menus

\* Who else holds the menu finds another page in its slots, or the same page with
\* other items hidden.
Overwritten(m, p) ==
  marks' = [q \in Player |->
              IF q # p /\ players[q].menu = m THEN marks[q] \cup {"shared"} ELSE marks[q]]

DisplayRowsStale ==                \* mutant: a slot that is taken keeps its item
  /\ calls # <<>> /\ Top.kind = "display" /\ Top.marks = {}
  /\ Top.menu \in live
  /\ calls' = [calls EXCEPT ![Len(calls)].marks = {"rows"}]
  /\ Overwritten(Top.menu, Top.player)
  /\ UNCHANGED <<menus, players, screen>>

\* The callbacks of the items before the page and of its first rows have
\* answered, and these are in their slots.
DisplayRows ==
  /\ calls # <<>> /\ Top.kind = "display" /\ Top.marks = {}
  /\ Top.menu \in live
  /\ menus' = [menus EXCEPT ![Top.menu].rows = Top.page]
  /\ calls' = [calls EXCEPT ![Len(calls)].marks = {"rows"}]
  /\ Overwritten(Top.menu, Top.player)
  /\ UNCHANGED <<players, screen>>

\* The others have, the navigation items and m_keys are set and the menu is sent.
DisplaySends ==
  /\ calls # <<>> /\ Top.kind = "display" /\ Top.marks = {"rows"}
  /\ Top.menu \in live
  /\ menus' = [menus EXCEPT ![Top.menu].drawn = Top.page]
  /\ screen' = [screen EXCEPT ![Top.player] = Shown(Top.menu, Top.page)]
  /\ calls' = Pop
  /\ Overwritten(Top.menu, Top.player)
  /\ UNCHANGED players

----------------------------------------------------------------------------
(* Player::closeMenu().                                                    *)

ClosedOnScreen(p) ==               \* mutant: setMenu(nullptr) is left out
  /\ screen' = [screen EXCEPT ![p] = Nothing]
  /\ marks' = [marks EXCEPT ![p] = Crossing(p)]
  /\ UNCHANGED players

\* Player::closeMenu() after the exit handler: the screen is cleared.
Closed(p) ==
  /\ players' = [players EXCEPT ![p].menu = NoMenu]
  /\ screen' = [screen EXCEPT ![p] = Nothing]
  /\ marks' = [marks EXCEPT ![p] = Crossing(p)]

\* closeMenu() for a player who has a menu; `stack' is what it was called from.
\* Nothing is said of a menu that was destroyed.
CloseMenu(p, stack) ==
  /\ players[p].menu \in live
  /\ IF menus[players[p].menu].style = "Item"
     THEN /\ Depth(stack) < MaxDepth
          /\ calls' = Append(stack, Call("exit", players[p].menu, p))
          /\ UNCHANGED <<players, screen, marks>>
     ELSE Closed(p) /\ calls' = stack
  /\ UNCHANGED menus

ExitReturns ==
  /\ calls # <<>> /\ Top.kind = "exit"
  /\ Closed(Top.player)
  /\ calls' = Pop
  /\ UNCHANGED menus

----------------------------------------------------------------------------
(* destroyMenu().                                                          *)

AffectedFirst(m, p) ==             \* mutant: the loop ends at the first player
  p = 1 /\ players[p].inGame /\ players[p].menu = m

\* The players its loop closes the menu for.
Affected(m, p) == players[p].inGame /\ players[p].menu = m

DestroyLoops ==
  /\ calls # <<>> /\ Top.kind = "destroy"
  /\ Top.player \in Player
  /\ LET next == [calls EXCEPT ![Len(calls)].player = @ + 1]
     IN  IF Affected(Top.menu, Top.player)
         THEN CloseMenu(Top.player, next)
         ELSE calls' = next /\ UNCHANGED <<menus, players, screen, marks>>

DestroyEnds ==
  /\ calls # <<>> /\ Top.kind = "destroy"
  /\ Top.player \notin Player
  /\ menus' = [m \in live \ {Top.menu} |-> menus[m]]
  /\ calls' = Pop
  /\ UNCHANGED <<players, screen, marks>>

----------------------------------------------------------------------------
(* ClientCommand(): the player presses a key of the page on his screen.    *)

\* The key is looked up in the menu's slots, whoever they were drawn for.
KeyTaken(m, key) == key \in KeysOf(m, menus[m].drawn)

\* keyToItem(): the page the item in the key's slot is of; a text menu has no
\* slots, and its handler gets the key.
PageInSlot(m, key, page) ==
  CASE menus[m].style = "Text" -> page
    [] menus[m].style = "Item" /\ key = "item" -> menus[m].rows
    [] menus[m].style = "Item" /\ key # "item" -> menus[m].drawn

Select(p, key) ==
  /\ calls = <<>>
  /\ key \in screen[p].keys
  /\ LET m == players[p].menu
     IN  /\ m \in live /\ KeyTaken(m, key)
         /\ calls' = <<[Call("select", m, p) EXCEPT
                          !.key = key, !.page = PageInSlot(m, key, screen[p].page),
                          !.seen = screen[p], !.marks = marks[p]]>>
  /\ players' = [players EXCEPT ![p].menu = NoMenu]
  /\ screen' = [screen EXCEPT ![p] = Nothing]
  /\ marks' = [marks EXCEPT ![p] = {}]
  /\ UNCHANGED menus

\* A key that the server does not take: the client has cleared its screen.
Ignored(p, key) ==
  /\ calls = <<>>
  /\ key \in screen[p].keys
  /\ \/ players[p].menu = NoMenu
     \/ players[p].menu \in live /\ ~KeyTaken(players[p].menu, key)
  /\ screen' = [screen EXCEPT ![p] = Nothing]
  /\ marks' = [marks EXCEPT ![p] = IF players[p].menu = NoMenu THEN {} ELSE @]
  /\ UNCHANGED <<menus, players, calls>>

TurnedOver(p, key) == IF key = "next" THEN players[p].page ELSE players[p].page - 1  \* mutant

\* The page display() is given after Next and Back: m_menuPage as it is now.
Turned(p, key) == IF key = "next" THEN players[p].page + 1 ELSE players[p].page - 1

Turns(call) == menus[call.menu].style = "Item" /\ call.key \in {"next", "back"}

\* After the handler: turn the page, or destroy a menu that is not global.  Past
\* the pages of the menu display() reads no items, and no behaviour is continued.
AfterHandler(m, p, key) ==
  IF Turns(Top)
  THEN Turned(p, key) \in Page /\ Displayed(m, p, Turned(p, key), Pop)
  ELSE /\ calls' = IF menus[m].style = "Item" /\ ~menus[m].global
                   THEN Append(Pop, Call("destroy", m, 1))
                   ELSE Pop
       /\ UNCHANGED <<menus, players, screen, marks>>

\* The handler returns.  The item that is looked at now is gone with its menu;
\* no behaviour is continued then.
SelectReturns ==
  /\ calls # <<>> /\ Top.kind = "select"
  /\ Top.menu \in live
  /\ AfterHandler(Top.menu, Top.player, Top.key)

----------------------------------------------------------------------------
(* The natives.                                                            *)

\* Plugins display nothing to who is not in the game, and not a menu that is
\* being destroyed ...
MayDisplay(m, p) ==
  /\ "Lobby" \notin Habits => players[p].inGame
  /\ "Redisplay" \notin Habits => \A k \in Waiting({"destroy"}) : calls[k].menu # m

Display(m, p, page) ==
  /\ PluginRuns
  /\ MayDisplay(m, p)
  /\ Displayed(m, p, page, calls)

\* ... and destroy no menu that a suspended call works on.
MayDestroy(m) ==
  "DestroyUsed" \notin Habits => \A k \in DOMAIN calls : calls[k].menu # m

\* The Destroy native refuses text menus.
DestroyMenu(m) ==
  /\ PluginRuns
  /\ MayDestroy(m)
  /\ menus[m].style = "Item"
  /\ Depth(calls) < MaxDepth
  /\ calls' = Append(calls, Call("destroy", m, 1))
  /\ UNCHANGED <<menus, players, screen, marks>>

\* The CloseMenu native.
Close(p) == PluginRuns /\ CloseMenu(p, calls)

NativeStep ==
  \/ /\ PluginRuns
     /\ \E m \in Menu : \E kind \in Kinds[m] : RegisterMenu(m, kind[1], kind[2])
  \/ \E m \in live :
       \/ DestroyMenu(m)
       \/ \E p \in Player, page \in Page : Display(m, p, page)
  \/ \E p \in Player : Close(p)

----------------------------------------------------------------------------
(* The engine.  The game's own menus (MessageBegin_Pre) close ours as the  *)
(* native does.                                                            *)

PutInServer(p) ==
  /\ calls = <<>>
  /\ ~players[p].inGame
  /\ players' = [players EXCEPT ![p].inGame = TRUE]
  /\ UNCHANGED <<menus, screen, calls, marks>>

\* Player::disconnect(): the menu is closed for a player no longer in the game.
\* A client that comes later in his place has an empty screen.
Disconnect(p) ==
  /\ calls = <<>>
  /\ players[p].inGame
  /\ screen' = [screen EXCEPT ![p] = Nothing]
  /\ LET m == players[p].menu
         left == [players EXCEPT ![p].inGame = FALSE]
     IN  IF m = NoMenu \/ (m \in live /\ menus[m].style = "Text")
         THEN /\ players' = [left EXCEPT ![p].menu = NoMenu]
              /\ marks' = [marks EXCEPT ![p] = {}]
              /\ UNCHANGED calls
         ELSE /\ m \in live
              /\ players' = left /\ calls' = <<Call("exit", m, p)>>
              /\ UNCHANGED marks
  /\ UNCHANGED menus

\* ServerDeactivatePost and ServerActivatePost: clearMenus(), new players.
ChangeMap ==
  /\ calls = <<>> /\ live # {}
  /\ menus' = [m \in {} |-> {}]
  /\ players' = [p \in Player |-> Fresh]
  /\ screen' = [p \in Player |-> Nothing]
  /\ marks' = [p \in Player |-> {}]
  /\ UNCHANGED calls

EngineStep ==
  \/ \E p \in Player :
       \/ PutInServer(p) \/ Disconnect(p)
       \/ \E key \in KeyName : Select(p, key) \/ Ignored(p, key)
  \/ ChangeMap

Next ==
  \/ NativeStep \/ EngineStep \/ ExitReturns \/ DestroyLoops \/ DestroyEnds
  \/ SelectReturns \/ DisplayRows \/ DisplaySends

Spec == Init /\ [][Next]_vars

----------------------------------------------------------------------------
(* Properties.                                                             *)

TypeOK ==
  /\ live \subseteq Menu /\ menus \in [live -> MenuObject]
  /\ players \in [Player -> PlayerObject]
  /\ screen \in [Player -> Screen]
  /\ calls \in Seq(Frame)
  /\ marks \in [Player -> SUBSET Mark]

\* No player is left with a menu that was destroyed: his next key would be
\* looked up in freed memory.
NoDanglingMenu ==
  /\ TypeOK
  /\ \A p \in Player : players[p].menu \in live \cup {NoMenu}

\* A menu lives as long as ClientCommand() works on it, whatever is closed and
\* destroyed from its handler.
SelectedMenuLives == \A k \in Waiting({"select"}) : calls[k].menu \in live

IsSeen(call) == call.seen.menu = call.menu /\ call.seen.page = call.page

\* The handler gets the item that the player saw at the key he pressed, whatever
\* was displayed, closed and destroyed from handlers and from callbacks in the
\* middle of display(), unless somebody else was shown the menu since, or what was
\* done to the player crossed the display.
SelectedIsShown == \A k \in Waiting({"select"}) : calls[k].marks \cap Mark = {} => IsSeen(calls[k])

\* ... and where several players look at one menu: the item the documentation of
\* the handler promises.
ItemIsTheSelected ==
  \A k \in Waiting({"select"}) : "crossed" \notin calls[k].marks => IsSeen(calls[k])

\* What the server takes a player to look at is on his screen.
Agrees(p) ==
  IF players[p].menu = NoMenu THEN screen[p] = Nothing
  ELSE screen[p] = Shown(players[p].menu, players[p].page)

\* The slots of a menu that others are shown may not take a key of his page: his
\* screen is cleared then, and nothing else can differ.
SharedAgrees(p) == "shared" \in marks[p] /\ screen[p] = Nothing

\* Between calls the server and the clients agree on what menus are shown.
ScreenAgrees ==
  calls = <<>> => \A p \in Player : "crossed" \in marks[p] \/ Agrees(p) \/ SharedAgrees(p)

\* What a selection does with its page is sure unless the handler displayed
\* something to the player, or his display was crossed.
Undisturbed(call) == Turns(call) /\ call.marks \cap {"crossed", "moved"} = {}

\* Next and Back are on no page that has no neighbour there: display() would read
\* beyond the items.
TurnsStay ==
  \A k \in Waiting({"select"}) :
    Undisturbed(calls[k]) => Turned(calls[k].player, calls[k].key) \in Page

\* Next and Back lead to the pages beside the one the player saw, whatever the
\* handler displayed to others, closed and destroyed.
Beside(call) == IF call.key = "next" THEN call.seen.page + 1 ELSE call.seen.page - 1

PagesTurn ==
  [][SelectReturns /\ Undisturbed(Top) =>
       /\ players'[Top.player].menu = Top.seen.menu
       /\ players'[Top.player].page = Beside(Top)]_vars

----------------------------------------------------------------------------
(* Why these hold.  A menu that is held is alive, and its player in the    *)
(* game or leaving it ...                                                  *)

MenusAreHeld ==
  \A p \in Player :
    players[p].menu # NoMenu =>
      /\ players[p].menu \in live
      /\ \/ players[p].inGame
         \/ /\ calls # <<>> /\ calls[1].kind = "exit"
            /\ calls[1].player = p /\ calls[1].menu = players[p].menu

\* ... what is being displayed to a player is what he holds, and is one menu ...
DisplaysHold ==
  \A k \in Waiting({"display"}) :
    LET p == calls[k].player
    IN  "crossed" \notin marks[p] =>
          /\ players[p].menu = calls[k].menu /\ players[p].page = calls[k].page
          /\ \A j \in Waiting({"display"}) : calls[j].player = p => j = k

\* ... a screen that shows something else is about to be cleared or drawn ...
ScreensAgree ==
  \A p \in Player :
    \/ "crossed" \in marks[p] \/ Agrees(p) \/ SharedAgrees(p)
    \/ Displaying(p)
    \/ \E k \in Waiting({"exit"}) : calls[k].player = p

\* ... slots that nobody else was shown are those of his page, as far as they are
\* drawn ...
SlotsHold ==
  \A p \in Player :
    LET m == players[p].menu
    IN  m # NoMenu /\ menus[m].style = "Item" /\ marks[p] = {} =>
          /\ \A k \in Waiting({"display"}) :
               calls[k].player = p /\ "rows" \in calls[k].marks => menus[m].rows = players[p].page
          /\ ~Displaying(p) => menus[m].rows = players[p].page /\ menus[m].drawn = players[p].page

\* ... a key is looked up when nothing waits, and the page of a player who turns
\* it stays ...
SelectsHold ==
  \A k \in Waiting({"select"}) :
    LET call == calls[k]
    IN  /\ k = 1 /\ players[call.player].inGame
        /\ call.marks \cap Mark = {} => IsSeen(call)
        /\ Undisturbed(call) =>
             /\ call.seen.menu = call.menu
             /\ players[call.player].page = call.seen.page /\ Beside(call) \in Page

\* ... and destroyMenu(), which nothing that waits below it works on the menu
\* of, has closed it for the players it is past, or is closing it.
DestroysHold ==
  \A k \in Waiting({"destroy"}) :
    /\ \A j \in 1..k-1 : calls[j].menu # calls[k].menu
    /\ \A q \in 1..calls[k].player-1 :
         players[q].menu = calls[k].menu =>
           k < Len(calls) /\ calls[k + 1].kind = "exit" /\ calls[k + 1].player = q

CallsAreLive ==
  \A k \in DOMAIN calls :
    calls[k].menu \in live /\ (calls[k].kind # "destroy" => calls[k].player \in Player)

IInv ==
  /\ TypeOK /\ MenusAreHeld /\ DisplaysHold /\ ScreensAgree
  /\ SlotsHold /\ SelectsHold /\ DestroysHold /\ CallsAreLive
============================================================================
