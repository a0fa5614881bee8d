--------------------------- MODULE MenuMngr_proofs ---------------------------
(***************************************************************************)
(* Proofs about the menus players look at (MenuMngr), about the pages of   *)
(* one menu (MenuPages), about the parts its text is sent in (MenuText)    *)
(* and about the text that natives make and send (TextOut).                *)
(*                                                                         *)
(* The first part is for any number of menus, pages, clients and nested    *)
(* handlers and callbacks, for menus that several players look at, and for *)
(* plugins that use menus with care: Habits = {}.  (TLC shows that each    *)
(* habit breaks one of the properties.)  What is carried from step to step *)
(* is IInv: what display() waits for the callbacks of is what its player   *)
(* holds, the slots of a menu are of the page of whoever was shown it last *)
(* as far as they are drawn, and nothing that waits works on a menu that a *)
(* call above it will destroy.  Where other players or calls came between, *)
(* `marks' say so.                                                         *)
(*                                                                         *)
(* The second part is for any items, static items and answers of their     *)
(* callbacks, and for pages that have no more items than rows.  PagesIInv  *)
(* says how far display() has drawn the page it is at, and which items the *)
(* pages drawn before hold.                                                *)
(*                                                                         *)
(* The third part is for texts of any length and any size of a message.    *)
(*                                                                         *)
(* The fourth part is for arrays of any size, any bytes of a format and    *)
(* any directives.  Nothing is written past the array, except the byte of  *)
(* the terminator after a character that its own padding crowded out       *)
(* (FormatStaysInBuffer).  What is written is what C writes, directive by  *)
(* directive, where Differs does not say otherwise (FormatsLikeC): digits, *)
(* zeros and sign are written backwards, and the field of C is the same    *)
(* the right way round.  The digits of a number and the powers of ten are  *)
(* recursive functions, and that there are such functions is proved first. *)
(***************************************************************************)
EXTENDS MenuMngr, MenuPages, TextOut, FiniteSetTheorems, SequenceTheorems, NaturalsInduction,
        WellFoundedInduction, TLAPS

----------------------------------------------------------------------------
(* The invariant as a predicate of five values.  A step of the code is     *)
(* several changes in a row, and each keeps it on its own: the lemmas below *)
(* are about one change, of any values.                                    *)

\* The first page and an empty screen are well typed.
LEMMA Constants ==
  /\ MaxClients \in Nat \ {0} /\ LastPage \in Nat
  /\ 0 \in Page /\ Page \subseteq Int /\ Nothing \in Screen
  /\ Fresh \in PlayerObject /\ Fresh.menu = NoMenu /\ Fresh.page = 0 /\ ~Fresh.inGame
BY NumbersAreNat DEF Page, Nothing, Screen, Fresh, PlayerObject

KeysIn(mn, m, pg) ==
  IF mn[m].style = "Text" THEN {"item"}
  ELSE {"item", "exit"} \cup (IF pg < LastPage THEN {"next"} ELSE {})
                        \cup (IF pg > 0 THEN {"back"} ELSE {})

ShownIn(mn, m, pg) == [menu |-> m, page |-> pg, keys |-> KeysIn(mn, m, pg)]

Showing(st, p) == \E k \in DOMAIN st : st[k].kind = "display" /\ st[k].player = p

Closing(st, p) == \E k \in DOMAIN st : st[k].kind = "exit" /\ st[k].player = p

Leaving(st, p, m) == st # <<>> /\ st[1].kind = "exit" /\ st[1].player = p /\ st[1].menu = m

AgreesIn(mn, pl, sc, p) ==
  IF pl[p].menu = NoMenu THEN sc[p] = Nothing
  ELSE sc[p] = ShownIn(mn, pl[p].menu, pl[p].page)

\* What holds of a player ...
HeldOK(mn, pl, st, p) ==
  pl[p].menu # NoMenu =>
    pl[p].menu \in DOMAIN mn /\ (pl[p].inGame \/ Leaving(st, p, pl[p].menu))

ScreenOK(mn, pl, sc, st, mk, p) ==
  \/ "crossed" \in mk[p] \/ AgreesIn(mn, pl, sc, p)
  \/ "shared" \in mk[p] /\ sc[p] = Nothing
  \/ Showing(st, p) \/ Closing(st, p)

SlotsOK(mn, pl, st, mk, p) ==
  pl[p].menu # NoMenu /\ mn[pl[p].menu].style = "Item" /\ mk[p] = {} =>
    /\ \A k \in DOMAIN st :
         st[k].kind = "display" /\ st[k].player = p /\ "rows" \in st[k].marks =>
           mn[pl[p].menu].rows = pl[p].page
    /\ ~Showing(st, p) =>
         mn[pl[p].menu].rows = pl[p].page /\ mn[pl[p].menu].drawn = pl[p].page

\* ... and of a call that waits.
DisplayOK(pl, st, mk, k) ==
  st[k].kind = "display" /\ "crossed" \notin mk[st[k].player] =>
    /\ pl[st[k].player].menu = st[k].menu /\ pl[st[k].player].page = st[k].page
    /\ \A j \in DOMAIN st : st[j].kind = "display" /\ st[j].player = st[k].player => j = k

CalmIn(mn, call) ==
  /\ mn[call.menu].style = "Item" /\ call.key \in {"next", "back"}
  /\ call.marks \cap {"crossed", "moved"} = {}

ChosenOK(mn, pl, call) ==
  /\ pl[call.player].inGame
  /\ call.marks \cap Mark = {} => IsSeen(call)
  /\ CalmIn(mn, call) =>
       /\ call.seen.menu = call.menu
       /\ pl[call.player].page = call.seen.page /\ Beside(call) \in Page

SelectOK(mn, pl, st, k) == st[k].kind = "select" => k = 1 /\ ChosenOK(mn, pl, st[k])

DestroyOK(pl, st, k) ==
  st[k].kind = "destroy" =>
    /\ \A j \in DOMAIN st : j < k => st[j].menu # st[k].menu
    /\ \A q \in Player :
         q < st[k].player /\ pl[q].menu = st[k].menu =>
           k + 1 \in DOMAIN st /\ st[k + 1].kind = "exit" /\ st[k + 1].player = q

LiveOK(mn, st, k) ==
  st[k].menu \in DOMAIN mn /\ (st[k].kind # "destroy" => st[k].player \in Player)

TypesIn(mn, pl, sc, st, mk) ==
  /\ DOMAIN mn \subseteq Menu /\ mn \in [DOMAIN mn -> MenuObject]
  /\ pl \in [Player -> PlayerObject] /\ sc \in [Player -> Screen]
  /\ st \in Seq(Frame) /\ mk \in [Player -> SUBSET Mark]

PlayersOK(mn, pl, sc, st, mk) ==
  \A p \in Player :
    HeldOK(mn, pl, st, p) /\ ScreenOK(mn, pl, sc, st, mk, p) /\ SlotsOK(mn, pl, st, mk, p)

FramesOK(mn, pl, st, mk) ==
  \A k \in DOMAIN st :
    /\ DisplayOK(pl, st, mk, k) /\ SelectOK(mn, pl, st, k)
    /\ DestroyOK(pl, st, k) /\ LiveOK(mn, st, k)

SInv(mn, pl, sc, st, mk) ==
  /\ TypesIn(mn, pl, sc, st, mk)
  /\ PlayersOK(mn, pl, sc, st, mk)
  /\ FramesOK(mn, pl, st, mk)

\* Of calls that are well typed, ...
LEMMA FrameTypes ==
  ASSUME NEW st \in Seq(Frame), NEW k \in DOMAIN st
  PROVE  /\ st[k] \in Frame /\ st[k].menu \in Menu /\ st[k].menu # NoMenu
         /\ st[k].player \in 1..MaxClients + 1 /\ st[k].player \in Int
         /\ k \in 1..Len(st) /\ DOMAIN st = 1..Len(st) /\ Len(st) \in Nat
<1>1. st[k] \in Frame /\ k \in 1..Len(st) /\ DOMAIN st = 1..Len(st) /\ Len(st) \in Nat
  OBVIOUS
<1>2. st[k].menu \in Menu /\ st[k].player \in 1..MaxClients + 1
  BY <1>1 DEF Frame
<1>3. QED
  BY <1>1, <1>2, NoMenuIsNone, Constants

\* It is the invariant: the two are the same conjuncts in another order.
LEMMA IsSInv == IInv <=> SInv(menus, players, screen, calls, marks)
<1>1. TypeOK <=> TypesIn(menus, players, screen, calls, marks)
  BY DEF TypeOK, TypesIn, live
<1> SUFFICES ASSUME TypeOK
             PROVE  IInv <=> PlayersOK(menus, players, screen, calls, marks)
                             /\ FramesOK(menus, players, calls, marks)
  BY <1>1 DEF IInv, SInv
<1>2. MenusAreHeld <=> \A p \in Player : HeldOK(menus, players, calls, p)
  BY DEF MenusAreHeld, HeldOK, Leaving, live
<1>3. ScreensAgree <=> \A p \in Player : ScreenOK(menus, players, screen, calls, marks, p)
  <2>1. \A p : Agrees(p) <=> AgreesIn(menus, players, screen, p)
    BY DEF Agrees, AgreesIn, Shown, ShownIn, KeysOf, KeysIn
  <2>2. \A p : (\E k \in Waiting({"exit"}) : calls[k].player = p) <=> Closing(calls, p)
    BY DEF Waiting, Closing
  <2>3. \A p : Displaying(p) <=> Showing(calls, p)
    BY DEF Displaying, Waiting, Showing
  <2>4. QED
    BY <2>1, <2>2, <2>3 DEF ScreensAgree, ScreenOK, SharedAgrees
<1>4. SlotsHold <=> \A p \in Player : SlotsOK(menus, players, calls, marks, p)
  <2>1. \A p : Displaying(p) <=> Showing(calls, p)
    BY DEF Displaying, Waiting, Showing
  <2>2. ASSUME NEW p \in Player
        PROVE  (\A k \in Waiting({"display"}) :
                   calls[k].player = p /\ "rows" \in calls[k].marks =>
                     menus[players[p].menu].rows = players[p].page)
               <=> (\A k \in DOMAIN calls :
                      calls[k].kind = "display" /\ calls[k].player = p /\ "rows" \in calls[k].marks =>
                        menus[players[p].menu].rows = players[p].page)
    BY DEF Waiting
  <2>3. QED
    BY <2>1, <2>2 DEF SlotsHold, SlotsOK
<1>5. DisplaysHold <=> \A k \in DOMAIN calls : DisplayOK(players, calls, marks, k)
  BY DEF DisplaysHold, DisplayOK, Waiting
<1>6. SelectsHold <=> \A k \in DOMAIN calls : SelectOK(menus, players, calls, k)
  <2>1. \A call : Undisturbed(call) <=> CalmIn(menus, call)
    BY DEF Undisturbed, CalmIn, Turns
  <2>2. QED
    BY <2>1 DEF SelectsHold, SelectOK, ChosenOK, Waiting
<1>7. DestroysHold <=> \A k \in DOMAIN calls : DestroyOK(players, calls, k)
  <2>1. ASSUME NEW k \in DOMAIN calls
        PROVE  /\ 1..k-1 = {j \in DOMAIN calls : j < k}
               /\ 1..calls[k].player-1 = {q \in Player : q < calls[k].player}
               /\ k < Len(calls) <=> k + 1 \in DOMAIN calls
    <3>1. calls \in Seq(Frame)
      BY DEF TypeOK
    <3>2. /\ calls[k].player \in 1..MaxClients + 1 /\ k \in 1..Len(calls)
          /\ DOMAIN calls = 1..Len(calls) /\ Len(calls) \in Nat
      BY <3>1, FrameTypes
    <3>3. QED
      BY <3>2, Constants DEF Player
  <2>2. ASSUME NEW k \in DOMAIN calls
        PROVE  DestroyOK(players, calls, k) <=>
                 (calls[k].kind = "destroy" =>
                    /\ \A j \in 1..k-1 : calls[j].menu # calls[k].menu
                    /\ \A q \in 1..calls[k].player-1 :
                         players[q].menu = calls[k].menu =>
                           k < Len(calls) /\ calls[k + 1].kind = "exit" /\ calls[k + 1].player = q)
    BY <2>1 DEF DestroyOK
  <2>3. QED
    BY <2>2 DEF DestroysHold, Waiting
<1>8. CallsAreLive <=> \A k \in DOMAIN calls : LiveOK(menus, calls, k)
  BY DEF CallsAreLive, LiveOK, live
<1>9. QED
  BY <1>2, <1>3, <1>4, <1>5, <1>6, <1>7, <1>8 DEF IInv, PlayersOK, FramesOK

\* ... also after a step.
LEMMA IsSInvNext == IInv' <=> SInv(menus', players', screen', calls', marks')
<1>1. IInv' <=> SInv(menus, players, screen, calls, marks)'
  BY IsSInv, PTL
<1>2. QED
  BY <1>1

\* The stack without its top.
LEMMA PopEffect ==
  ASSUME NEW S, NEW s \in Seq(S), s # <<>>
  PROVE  /\ SubSeq(s, 1, Len(s) - 1) \in Seq(S)
         /\ Len(SubSeq(s, 1, Len(s) - 1)) = Len(s) - 1
         /\ DOMAIN SubSeq(s, 1, Len(s) - 1) = 1..Len(s) - 1
         /\ Len(s) \in Nat \ {0} /\ DOMAIN s = 1..Len(s)
         /\ \A k \in 1..Len(s) - 1 : SubSeq(s, 1, Len(s) - 1)[k] = s[k]
<1>1. Len(s) \in Nat \ {0} /\ Len(s) - 1 \in Nat
  OBVIOUS
<1>2. ASSUME NEW n \in Nat, n = Len(s) - 1
      PROVE  Len(SubSeq(s, 1, n)) = n
  BY <1>2
<1>3. Len(SubSeq(s, 1, Len(s) - 1)) = Len(s) - 1
  BY <1>1, <1>2
<1>4. SubSeq(s, 1, Len(s) - 1) \in Seq(S)
  OBVIOUS
<1>5. \A k \in 1..Len(s) - 1 : SubSeq(s, 1, Len(s) - 1)[k] = s[k]
  OBVIOUS
<1>6. DOMAIN SubSeq(s, 1, Len(s) - 1) = 1..Len(s) - 1
  BY <1>3, <1>4
<1>7. QED
  BY <1>1, <1>3, <1>4, <1>5, <1>6

\* What the lemmas below use of it, one player and one call at a time.
LEMMA Parts ==
  ASSUME NEW mn, NEW pl, NEW sc, NEW st, NEW mk, SInv(mn, pl, sc, st, mk)
  PROVE  /\ DOMAIN mn \subseteq Menu /\ mn \in [DOMAIN mn -> MenuObject]
         /\ pl \in [Player -> PlayerObject] /\ sc \in [Player -> Screen]
         /\ st \in Seq(Frame) /\ mk \in [Player -> SUBSET Mark]
         /\ Len(st) \in Nat /\ DOMAIN st = 1..Len(st)
         /\ \A p \in Player :
              HeldOK(mn, pl, st, p) /\ ScreenOK(mn, pl, sc, st, mk, p) /\ SlotsOK(mn, pl, st, mk, p)
         /\ \A k \in DOMAIN st :
              /\ DisplayOK(pl, st, mk, k) /\ SelectOK(mn, pl, st, k)
              /\ DestroyOK(pl, st, k) /\ LiveOK(mn, st, k)
BY DEF SInv, TypesIn, PlayersOK, FramesOK

\* A player's own record, screen and marks change, ...
Alters(p, pl, sc, mk, pl2, sc2, mk2) ==
  /\ pl2 \in [Player -> PlayerObject] /\ sc2 \in [Player -> Screen]
  /\ mk2 \in [Player -> SUBSET Mark]
  /\ \A q \in Player \ {p} : pl2[q] = pl[q] /\ sc2[q] = sc[q] /\ mk2[q] = mk[q]

\* ... to what fits the calls that are about him.
Fits(p, mn, pl, st, pl2, sc2, mk2) ==
  /\ HeldOK(mn, pl2, st, p) /\ ScreenOK(mn, pl2, sc2, st, mk2, p) /\ SlotsOK(mn, pl2, st, mk2, p)
  /\ \A k \in DOMAIN st : st[k].player = p => DisplayOK(pl2, st, mk2, k)
  /\ \A k \in DOMAIN st :
       st[k].kind = "select" /\ st[k].player = p =>
         pl2[p].inGame /\ (pl2[p].page = pl[p].page \/ "moved" \in st[k].marks)
  /\ \/ pl2[p].menu = NoMenu \/ pl2[p].menu = pl[p].menu
     \/ \A k \in DOMAIN st : st[k].kind = "destroy" => st[k].menu # pl2[p].menu

LEMMA SetPlayer ==
  ASSUME NEW mn, NEW pl, NEW sc, NEW st, NEW mk, SInv(mn, pl, sc, st, mk),
         NEW p \in Player, NEW pl2, NEW sc2, NEW mk2,
         Alters(p, pl, sc, mk, pl2, sc2, mk2), Fits(p, mn, pl, st, pl2, sc2, mk2)
  PROVE  SInv(mn, pl2, sc2, st, mk2)
<1>1. /\ pl \in [Player -> PlayerObject] /\ sc \in [Player -> Screen] /\ st \in Seq(Frame)
      /\ mk \in [Player -> SUBSET Mark]
      /\ \A q \in Player :
           HeldOK(mn, pl, st, q) /\ ScreenOK(mn, pl, sc, st, mk, q) /\ SlotsOK(mn, pl, st, mk, q)
      /\ \A k \in DOMAIN st :
           /\ DisplayOK(pl, st, mk, k) /\ SelectOK(mn, pl, st, k)
           /\ DestroyOK(pl, st, k) /\ LiveOK(mn, st, k)
  BY Parts
<1>2. /\ pl2 \in [Player -> PlayerObject] /\ sc2 \in [Player -> Screen]
      /\ mk2 \in [Player -> SUBSET Mark]
      /\ \A q \in Player \ {p} : pl2[q] = pl[q] /\ sc2[q] = sc[q] /\ mk2[q] = mk[q]
  BY DEF Alters
<1>3. TypesIn(mn, pl2, sc2, st, mk2)
  BY <1>2 DEF SInv, TypesIn
<1>4. PlayersOK(mn, pl2, sc2, st, mk2)
  <2>0. HeldOK(mn, pl2, st, p) /\ ScreenOK(mn, pl2, sc2, st, mk2, p) /\ SlotsOK(mn, pl2, st, mk2, p)
    BY DEF Fits
  <2> SUFFICES ASSUME NEW q \in Player, q # p
               PROVE  HeldOK(mn, pl2, st, q) /\ ScreenOK(mn, pl2, sc2, st, mk2, q)
                      /\ SlotsOK(mn, pl2, st, mk2, q)
    BY <2>0 DEF PlayersOK
  <2>1. pl2[q] = pl[q] /\ sc2[q] = sc[q] /\ mk2[q] = mk[q]
    BY <1>2
  <2>2. AgreesIn(mn, pl, sc, q) => AgreesIn(mn, pl2, sc2, q)
    BY <2>1 DEF AgreesIn
  <2>3. QED
    BY <1>1, <2>1, <2>2 DEF HeldOK, ScreenOK, SlotsOK
<1>5. ASSUME NEW k \in DOMAIN st PROVE DisplayOK(pl2, st, mk2, k)
  <2>1. CASE st[k].player = p
    BY <2>1 DEF Fits
  <2>2. CASE st[k].kind = "display" /\ st[k].player # p
    <3>1. st[k].player \in Player
      BY <1>1, <2>2 DEF LiveOK
    <3>2. QED
      BY <1>1, <1>2, <2>2, <3>1 DEF DisplayOK
  <2>3. QED
    BY <1>2, <2>1, <2>2 DEF DisplayOK
<1>6. ASSUME NEW k \in DOMAIN st PROVE SelectOK(mn, pl2, st, k)
  <2>1. CASE st[k].kind = "select"
    <3>1. st[k].player \in Player
      BY <1>1, <2>1 DEF LiveOK
    <3>2. pl2[st[k].player].inGame
      BY <1>1, <1>2, <2>1, <3>1 DEF SelectOK, ChosenOK, Fits
    <3>3. CalmIn(mn, st[k]) => pl2[st[k].player].page = pl[st[k].player].page
      BY <1>2, <2>1, <3>1 DEF CalmIn, Fits
    <3>4. QED
      BY <1>1, <2>1, <3>2, <3>3 DEF SelectOK, ChosenOK
  <2>2. QED
    BY <2>1 DEF SelectOK
<1>7. ASSUME NEW k \in DOMAIN st PROVE DestroyOK(pl2, st, k)
  <2>1. CASE st[k].kind = "destroy"
    <3>1. st[k].menu # NoMenu
      BY <1>1, FrameTypes
    <3>2. \A q \in Player : pl2[q].menu = st[k].menu => pl[q].menu = st[k].menu
      BY <1>2, <2>1, <3>1 DEF Fits
    <3>3. QED
      BY <1>1, <2>1, <3>2 DEF DestroyOK
  <2>2. QED
    BY <2>1 DEF DestroyOK
<1>8. QED
  BY <1>1, <1>3, <1>4, <1>5, <1>6, <1>7 DEF SInv, FramesOK

\* A call begins to wait.
LEMMA PushCall ==
  ASSUME NEW mn, NEW pl, NEW sc, NEW st, NEW mk, SInv(mn, pl, sc, st, mk),
         NEW c \in Frame, c.menu \in DOMAIN mn,
         c.kind # "destroy" => c.player \in Player,
         c.kind = "display" => "crossed" \in mk[c.player],
         c.kind = "select" => st = <<>> /\ ChosenOK(mn, pl, c),
         c.kind = "destroy" => c.player = 1 /\ \A k \in DOMAIN st : st[k].menu # c.menu,
         NEW st2, st2 = Append(st, c)
  PROVE  SInv(mn, pl, sc, st2, mk)
<1> DEFINE n == Len(st)
<1>1. /\ st \in Seq(Frame) /\ n \in Nat /\ DOMAIN st = 1..n
      /\ \A q \in Player :
           HeldOK(mn, pl, st, q) /\ ScreenOK(mn, pl, sc, st, mk, q) /\ SlotsOK(mn, pl, st, mk, q)
      /\ \A k \in DOMAIN st :
           /\ DisplayOK(pl, st, mk, k) /\ SelectOK(mn, pl, st, k)
           /\ DestroyOK(pl, st, k) /\ LiveOK(mn, st, k)
  BY Parts
<1>2. /\ st2 \in Seq(Frame) /\ Len(st2) = n + 1 /\ DOMAIN st2 = 1..n + 1
      /\ \A k \in 1..n : st2[k] = st[k]
      /\ st2[n + 1] = c
  BY <1>1, AppendProperties
<1>3. st # <<>> => st2 # <<>> /\ st2[1] = st[1]
  BY <1>1, <1>2
<1>4. st = <<>> => n = 0
  OBVIOUS
<1> HIDE DEF n
<1>5. /\ \A k \in 1..n : k \in 1..n + 1 /\ k # n + 1
      /\ \A k \in 1..n + 1 : k \in 1..n \/ k = n + 1
  BY <1>1
<1>6. TypesIn(mn, pl, sc, st2, mk)
  BY <1>2 DEF SInv, TypesIn
<1>7. \A q : (Showing(st, q) => Showing(st2, q)) /\ (Closing(st, q) => Closing(st2, q))
  BY <1>1, <1>2, <1>5 DEF Showing, Closing
<1>8. PlayersOK(mn, pl, sc, st2, mk)
  <2> SUFFICES ASSUME NEW q \in Player
               PROVE  HeldOK(mn, pl, st2, q) /\ ScreenOK(mn, pl, sc, st2, mk, q)
                      /\ SlotsOK(mn, pl, st2, mk, q)
    BY DEF PlayersOK
  <2>1. HeldOK(mn, pl, st2, q)
    BY <1>1, <1>3 DEF HeldOK, Leaving
  <2>2. ScreenOK(mn, pl, sc, st2, mk, q)
    BY <1>1, <1>7 DEF ScreenOK
  <2>3. SlotsOK(mn, pl, st2, mk, q)
    <3>1. mk[q] = {} => ~(c.kind = "display" /\ c.player = q)
      OBVIOUS
    <3>2. QED
      BY <1>1, <1>2, <1>5, <1>7, <3>1 DEF SlotsOK
  <2>4. QED
    BY <2>1, <2>2, <2>3
<1>9. ASSUME NEW k \in DOMAIN st2 PROVE DisplayOK(pl, st2, mk, k)
  <2>1. CASE k \in 1..n
    BY <1>1, <1>2, <1>5, <2>1 DEF DisplayOK
  <2>2. CASE k = n + 1
    BY <1>2, <2>2 DEF DisplayOK
  <2>3. QED
    BY <1>2, <1>5, <2>1, <2>2
<1>10. ASSUME NEW k \in DOMAIN st2 PROVE SelectOK(mn, pl, st2, k)
  BY <1>1, <1>2, <1>4, <1>5 DEF SelectOK
<1>11. ASSUME NEW k \in DOMAIN st2 PROVE DestroyOK(pl, st2, k)
  <2>1. CASE k \in 1..n
    <3>1. \A j \in DOMAIN st2 : j < k => j \in 1..n
      BY <1>1, <1>2, <2>1
    <3>2. k + 1 \in 1..n => st2[k + 1] = st[k + 1] /\ k + 1 \in 1..n + 1
      BY <1>2, <1>5
    <3>3. QED
      BY <1>1, <1>2, <2>1, <3>1, <3>2 DEF DestroyOK
  <2>2. CASE k = n + 1
    <3>1. \A j \in DOMAIN st2 : j < k => j \in 1..n
      BY <1>1, <1>2, <2>2
    <3>2. \A q \in Player : ~(q < 1)
      BY DEF Player
    <3>3. QED
      BY <1>1, <1>2, <2>2, <3>1, <3>2 DEF DestroyOK
  <2>3. QED
    BY <1>2, <1>5, <2>1, <2>2
<1>12. ASSUME NEW k \in DOMAIN st2 PROVE LiveOK(mn, st2, k)
  BY <1>1, <1>2, <1>5 DEF LiveOK
<1>13. QED
  BY <1>6, <1>8, <1>9, <1>10, <1>11, <1>12 DEF SInv, FramesOK

\* The innermost call returns: the player of an exit handler has no menu then, and
\* one who was shown a menu sees it with its slots.
LEMMA PopCall ==
  ASSUME NEW mn, NEW pl, NEW sc, NEW st, NEW mk, SInv(mn, pl, sc, st, mk), st # <<>>,
         NEW c, c = st[Len(st)],
         c.kind = "exit" => pl[c.player].menu = NoMenu
                              /\ ("crossed" \in mk[c.player] \/ AgreesIn(mn, pl, sc, c.player)),
         c.kind = "display" =>
           \/ "crossed" \in mk[c.player]
           \/ /\ AgreesIn(mn, pl, sc, c.player)
              /\ /\ pl[c.player].menu # NoMenu /\ mk[c.player] = {}
                 /\ mn[pl[c.player].menu].style = "Item"
                 => /\ mn[pl[c.player].menu].rows = pl[c.player].page
                    /\ mn[pl[c.player].menu].drawn = pl[c.player].page,
         NEW st2, st2 = SubSeq(st, 1, Len(st) - 1)
  PROVE  SInv(mn, pl, sc, st2, mk)
<1> DEFINE n == Len(st)
<1>1. /\ st \in Seq(Frame) /\ n \in Nat /\ DOMAIN st = 1..n
      /\ \A q \in Player :
           HeldOK(mn, pl, st, q) /\ ScreenOK(mn, pl, sc, st, mk, q) /\ SlotsOK(mn, pl, st, mk, q)
      /\ \A k \in DOMAIN st :
           /\ DisplayOK(pl, st, mk, k) /\ SelectOK(mn, pl, st, k)
           /\ DestroyOK(pl, st, k) /\ LiveOK(mn, st, k)
  BY Parts
<1>2. /\ st2 \in Seq(Frame) /\ Len(st2) = n - 1 /\ DOMAIN st2 = 1..n-1
      /\ \A k \in 1..n-1 : st2[k] = st[k]
      /\ n \in Nat \ {0}
  BY <1>1, PopEffect
<1>3. st[n] = c /\ (n # 1 => st2 # <<>>)
  BY <1>1, <1>2 DEF SInv, TypesIn
<1> HIDE DEF n
<1>4. /\ \A k \in 1..n-1 : k \in 1..n /\ k # n
      /\ \A k \in 1..n : k \in 1..n-1 \/ k = n
      /\ n # 1 => 1 \in 1..n-1
  BY <1>2
<1>5. TypesIn(mn, pl, sc, st2, mk)
  BY <1>2 DEF SInv, TypesIn
<1>6. ASSUME NEW q
      PROVE  /\ Showing(st2, q) => Showing(st, q)
             /\ Showing(st, q) => Showing(st2, q) \/ (c.kind = "display" /\ c.player = q)
             /\ Closing(st, q) => Closing(st2, q) \/ (c.kind = "exit" /\ c.player = q)
  <2>1. Showing(st2, q) => Showing(st, q)
    BY <1>1, <1>2, <1>4 DEF Showing
  <2>2. Showing(st, q) => Showing(st2, q) \/ (c.kind = "display" /\ c.player = q)
    BY <1>1, <1>2, <1>3, <1>4 DEF Showing
  <2>3. Closing(st, q) => Closing(st2, q) \/ (c.kind = "exit" /\ c.player = q)
    BY <1>1, <1>2, <1>3, <1>4 DEF Closing
  <2>4. QED
    BY <2>1, <2>2, <2>3
<1>7. PlayersOK(mn, pl, sc, st2, mk)
  <2> SUFFICES ASSUME NEW q \in Player
               PROVE  HeldOK(mn, pl, st2, q) /\ ScreenOK(mn, pl, sc, st2, mk, q)
                      /\ SlotsOK(mn, pl, st2, mk, q)
    BY DEF PlayersOK
  <2>1. HeldOK(mn, pl, st2, q)
    <3>1. CASE n = 1
      BY <1>1, <1>3, <3>1 DEF HeldOK, Leaving
    <3>2. CASE n # 1
      <4>1. st2 # <<>> /\ st2[1] = st[1]
        BY <1>2, <1>3, <1>4, <3>2
      <4>2. QED
        BY <1>1, <4>1 DEF HeldOK, Leaving
    <3>3. QED
      BY <3>1, <3>2
  <2>2. ScreenOK(mn, pl, sc, st2, mk, q)
    BY <1>1, <1>6 DEF ScreenOK
  <2>3. SlotsOK(mn, pl, st2, mk, q)
    <3>1. c.kind = "display" /\ c.player = q /\ mk[q] = {} /\ pl[q].menu # NoMenu
          /\ mn[pl[q].menu].style = "Item" =>
            mn[pl[q].menu].rows = pl[q].page /\ mn[pl[q].menu].drawn = pl[q].page
      OBVIOUS
    <3>2. \A k \in DOMAIN st2 : k \in DOMAIN st /\ st2[k] = st[k]
      BY <1>1, <1>2, <1>4
    <3>3. QED
      BY <1>1, <1>6, <3>1, <3>2 DEF SlotsOK
  <2>4. QED
    BY <2>1, <2>2, <2>3
<1>8. ASSUME NEW k \in DOMAIN st2
      PROVE  /\ DisplayOK(pl, st2, mk, k) /\ SelectOK(mn, pl, st2, k) /\ LiveOK(mn, st2, k)
  <2>1. \A j \in DOMAIN st2 : j \in DOMAIN st /\ st2[j] = st[j]
    BY <1>1, <1>2, <1>4
  <2>2. QED
    BY <1>1, <2>1 DEF DisplayOK, SelectOK, LiveOK
<1>9. ASSUME NEW k \in DOMAIN st2 PROVE DestroyOK(pl, st2, k)
  <2> SUFFICES ASSUME st[k].kind = "destroy"
               PROVE  /\ \A j \in 1..n-1 : j < k => st2[j].menu # st[k].menu
                      /\ \A q \in Player :
                           q < st[k].player /\ pl[q].menu = st[k].menu =>
                             k + 1 \in 1..n-1 /\ st2[k + 1].kind = "exit" /\ st2[k + 1].player = q
    BY <1>2 DEF DestroyOK
  <2>1. k \in 1..n /\ k \in 1..n-1 /\ st[k].menu # NoMenu /\ k \in Int
    BY <1>1, <1>2, <1>4, FrameTypes
  <2>2. ASSUME NEW q \in Player, q < st[k].player, pl[q].menu = st[k].menu
        PROVE  k + 1 \in 1..n-1 /\ st2[k + 1].kind = "exit" /\ st2[k + 1].player = q
    <3>1. k + 1 \in 1..n /\ st[k + 1].kind = "exit" /\ st[k + 1].player = q
      BY <1>1, <2>1, <2>2 DEF DestroyOK
    <3>2. k + 1 # n
      BY <1>3, <2>1, <2>2, <3>1
    <3>3. k + 1 \in 1..n-1
      BY <1>4, <3>1, <3>2
    <3>4. QED
      BY <1>2, <3>1, <3>3
  <2>3. \A j \in 1..n-1 : j < k => st2[j].menu # st[k].menu
    <3>1. DestroyOK(pl, st, k) /\ DOMAIN st = 1..n
      BY <1>1, <2>1
    <3>2. \A j \in 1..n-1 : j \in 1..n /\ st2[j] = st[j]
      BY <1>2, <1>4
    <3>3. QED
      BY <3>1, <3>2 DEF DestroyOK
  <2>4. QED
    BY <2>2, <2>3
<1>10. QED
  BY <1>5, <1>7, <1>8, <1>9 DEF SInv, FramesOK

\* destroyMenu() passes a player who holds the menu no more, or whose exit handler
\* it waits for.
LEMMA PassPlayer ==
  ASSUME NEW mn, NEW pl, NEW sc, NEW st, NEW mk, SInv(mn, pl, sc, st, mk),
         NEW i \in DOMAIN st, st[i].kind = "destroy", st[i].player \in Player,
         pl[st[i].player].menu = st[i].menu =>
           i + 1 \in DOMAIN st /\ st[i + 1].kind = "exit" /\ st[i + 1].player = st[i].player,
         NEW st2, st2 = [st EXCEPT ![i].player = @ + 1]
  PROVE  SInv(mn, pl, sc, st2, mk)
<1> DEFINE d == [st[i] EXCEPT !.player = @ + 1]
<1>1. /\ st \in Seq(Frame) /\ DOMAIN st = 1..Len(st) /\ Len(st) \in Nat
      /\ \A q \in Player :
           HeldOK(mn, pl, st, q) /\ ScreenOK(mn, pl, sc, st, mk, q) /\ SlotsOK(mn, pl, st, mk, q)
      /\ \A k \in DOMAIN st :
           /\ DisplayOK(pl, st, mk, k) /\ SelectOK(mn, pl, st, k)
           /\ DestroyOK(pl, st, k) /\ LiveOK(mn, st, k)
  BY Parts
<1>2. /\ d \in Frame /\ d.kind = "destroy" /\ d.menu = st[i].menu
      /\ d.player = st[i].player + 1 /\ st[i].player \in Int
  <2>1. st[i] \in Frame /\ st[i].player + 1 \in 1..MaxClients + 1 /\ st[i].player \in Int
    BY <1>1, FrameTypes, Constants DEF Player
  <2>2. QED
    BY <2>1 DEF Frame
<1>3. st2 = [st EXCEPT ![i] = d]
  OBVIOUS
<1> HIDE DEF d
<1>4. /\ st2 \in Seq(Frame) /\ Len(st2) = Len(st) /\ DOMAIN st2 = DOMAIN st
      /\ st2[i] = d /\ \A k \in DOMAIN st \ {i} : st2[k] = st[k]
  BY <1>1, <1>2, <1>3
<1>5. \A k \in DOMAIN st :
        /\ st2[k].kind = st[k].kind /\ st2[k].menu = st[k].menu
        /\ st[k].kind # "destroy" => st2[k] = st[k]
  BY <1>2, <1>4
<1>6. TypesIn(mn, pl, sc, st2, mk)
  BY <1>4 DEF SInv, TypesIn
<1>7. \A q : (Showing(st2, q) <=> Showing(st, q)) /\ (Closing(st2, q) <=> Closing(st, q))
  BY <1>4, <1>5 DEF Showing, Closing
<1>8. PlayersOK(mn, pl, sc, st2, mk)
  <2> SUFFICES ASSUME NEW q \in Player
               PROVE  HeldOK(mn, pl, st2, q) /\ ScreenOK(mn, pl, sc, st2, mk, q)
                      /\ SlotsOK(mn, pl, st2, mk, q)
    BY DEF PlayersOK
  <2>1. HeldOK(mn, pl, st2, q)
    <3>1. \A m : Leaving(st, q, m) => Leaving(st2, q, m)
      <4>1. st # <<>> => 1 \in DOMAIN st /\ st2 # <<>>
        BY <1>1, <1>4
      <4>2. QED
        BY <1>5, <4>1 DEF Leaving
    <3>2. QED
      BY <1>1, <3>1 DEF HeldOK
  <2>2. ScreenOK(mn, pl, sc, st2, mk, q)
    BY <1>1, <1>7 DEF ScreenOK
  <2>3. SlotsOK(mn, pl, st2, mk, q)
    <3>1. \A k \in DOMAIN st2 : st2[k].kind = "display" => k \in DOMAIN st /\ st2[k] = st[k]
      BY <1>4, <1>5
    <3>2. QED
      BY <1>1, <1>7, <3>1 DEF SlotsOK
  <2>4. QED
    BY <2>1, <2>2, <2>3
<1>9. ASSUME NEW k \in DOMAIN st2
      PROVE  /\ DisplayOK(pl, st2, mk, k) /\ SelectOK(mn, pl, st2, k) /\ LiveOK(mn, st2, k)
  <2>1. \A j \in DOMAIN st2 : j \in DOMAIN st
    BY <1>4
  <2>2. DisplayOK(pl, st2, mk, k)
    BY <1>1, <1>5, <2>1 DEF DisplayOK
  <2>3. SelectOK(mn, pl, st2, k)
    BY <1>1, <1>5, <2>1 DEF SelectOK
  <2>4. LiveOK(mn, st2, k)
    BY <1>1, <1>5, <2>1 DEF LiveOK
  <2>5. QED
    BY <2>2, <2>3, <2>4
<1>10. ASSUME NEW k \in DOMAIN st2 PROVE DestroyOK(pl, st2, k)
  <2> SUFFICES ASSUME st[k].kind = "destroy"
               PROVE  /\ \A j \in DOMAIN st : j < k => st2[j].menu # st[k].menu
                      /\ \A q \in Player :
                           q < st2[k].player /\ pl[q].menu = st[k].menu =>
                             k + 1 \in DOMAIN st /\ st2[k + 1].kind = "exit" /\ st2[k + 1].player = q
    BY <1>4, <1>5 DEF DestroyOK
  <2>1. \A j \in DOMAIN st : j < k => st2[j].menu # st[k].menu
    BY <1>1, <1>4, <1>5 DEF DestroyOK
  <2>2. ASSUME NEW q \in Player, q < st2[k].player, pl[q].menu = st[k].menu
        PROVE  k + 1 \in DOMAIN st /\ st2[k + 1].kind = "exit" /\ st2[k + 1].player = q
    <3>1. q < st[k].player \/ (k = i /\ q = st[i].player)
      BY <1>2, <1>4, <2>2 DEF Player
    <3>2. k + 1 \in DOMAIN st /\ st[k + 1].kind = "exit" /\ st[k + 1].player = q
      BY <1>1, <1>4, <2>2, <3>1 DEF DestroyOK
    <3>3. QED
      BY <1>5, <3>2
  <2>3. QED
    BY <2>1, <2>2
<1>11. QED
  BY <1>6, <1>8, <1>9, <1>10 DEF SInv, FramesOK

\* The marks of calls change: what waits in a handler is moved, and display() has
\* written the first rows of who sees the menu.
LEMMA MarkCalls ==
  ASSUME NEW mn, NEW pl, NEW sc, NEW st, NEW mk, SInv(mn, pl, sc, st, mk),
         NEW st2 \in Seq(Frame), Len(st2) = Len(st),
         \A k \in DOMAIN st :
           /\ st2[k].kind = st[k].kind /\ st2[k].menu = st[k].menu
           /\ st2[k].player = st[k].player /\ st2[k].page = st[k].page
           /\ st2[k].key = st[k].key /\ st2[k].seen = st[k].seen
           /\ st[k].kind = "select" => st[k].marks \subseteq st2[k].marks
           /\ st[k].kind = "display" /\ "rows" \in st2[k].marks =>
                \/ "rows" \in st[k].marks \/ "crossed" \in mk[st[k].player]
                \/ mn[st[k].menu].rows = pl[st[k].player].page
  PROVE  SInv(mn, pl, sc, st2, mk)
<1>1. /\ st \in Seq(Frame) /\ DOMAIN st = 1..Len(st) /\ Len(st) \in Nat
      /\ \A q \in Player :
           HeldOK(mn, pl, st, q) /\ ScreenOK(mn, pl, sc, st, mk, q) /\ SlotsOK(mn, pl, st, mk, q)
      /\ \A k \in DOMAIN st :
           /\ DisplayOK(pl, st, mk, k) /\ SelectOK(mn, pl, st, k)
           /\ DestroyOK(pl, st, k) /\ LiveOK(mn, st, k)
  BY Parts
<1>2. DOMAIN st2 = DOMAIN st /\ (st # <<>> => st2 # <<>> /\ 1 \in DOMAIN st)
  BY <1>1
<1>3. TypesIn(mn, pl, sc, st2, mk)
  BY DEF SInv, TypesIn
<1>4. \A q : (Showing(st2, q) <=> Showing(st, q)) /\ (Closing(st2, q) <=> Closing(st, q))
  BY <1>2 DEF Showing, Closing
<1>5. PlayersOK(mn, pl, sc, st2, mk)
  <2> SUFFICES ASSUME NEW q \in Player
               PROVE  HeldOK(mn, pl, st2, q) /\ ScreenOK(mn, pl, sc, st2, mk, q)
                      /\ SlotsOK(mn, pl, st2, mk, q)
    BY DEF PlayersOK
  <2>1. HeldOK(mn, pl, st2, q)
    BY <1>1, <1>2 DEF HeldOK, Leaving
  <2>2. ScreenOK(mn, pl, sc, st2, mk, q)
    BY <1>1, <1>4 DEF ScreenOK
  <2>3. SlotsOK(mn, pl, st2, mk, q)
    <3>1. ASSUME NEW k \in DOMAIN st, st[k].kind = "display", st[k].player = q,
                 "rows" \in st2[k].marks, mk[q] = {}
          PROVE  "rows" \in st[k].marks \/ mn[pl[q].menu].rows = pl[q].page
      <4>1. pl[q].menu = st[k].menu
        BY <1>1, <3>1 DEF DisplayOK
      <4>2. QED
        BY <3>1, <4>1
    <3>2. QED
      BY <1>1, <1>2, <1>4, <3>1 DEF SlotsOK
  <2>4. QED
    BY <2>1, <2>2, <2>3
<1>6. ASSUME NEW k \in DOMAIN st
      PROVE  DisplayOK(pl, st2, mk, k) /\ DestroyOK(pl, st2, k) /\ LiveOK(mn, st2, k)
  <2>1. DisplayOK(pl, st2, mk, k)
    BY <1>1, <1>2 DEF DisplayOK
  <2>2. DestroyOK(pl, st2, k)
    BY <1>1, <1>2 DEF DestroyOK
  <2>3. LiveOK(mn, st2, k)
    BY <1>1 DEF LiveOK
  <2>4. QED
    BY <2>1, <2>2, <2>3
<1>7. ASSUME NEW k \in DOMAIN st PROVE SelectOK(mn, pl, st2, k)
  <2>1. CASE st[k].kind = "select"
    <3>1. k = 1 /\ ChosenOK(mn, pl, st[k]) /\ st[k].marks \subseteq st2[k].marks
      BY <1>1, <2>1 DEF SelectOK
    <3>2. CalmIn(mn, st2[k]) => CalmIn(mn, st[k])
      BY <3>1 DEF CalmIn
    <3>3. st2[k].marks \cap Mark = {} => st[k].marks \cap Mark = {}
      BY <3>1
    <3>4. (IsSeen(st2[k]) <=> IsSeen(st[k])) /\ Beside(st2[k]) = Beside(st[k])
      BY DEF IsSeen, Beside
    <3>5. QED
      BY <3>1, <3>2, <3>3, <3>4 DEF SelectOK, ChosenOK
  <2>2. QED
    BY <2>1 DEF SelectOK
<1>8. QED
  BY <1>2, <1>3, <1>5, <1>6, <1>7 DEF SInv, FramesOK

\* display() for a player writes slots, and marks who else holds the menu; the first
\* rows are of his page if he is shown one menu.
Writes(m, p, o, mn, pl, st, mk, mn2, mk2) ==
  /\ o \in MenuObject /\ o.style = mn[m].style
  /\ pl[p].menu = m /\ o.style = "Item" /\ mk[p] = {} =>
       /\ Showing(st, p)
       /\ \A k \in DOMAIN st :
            st[k].kind = "display" /\ st[k].player = p /\ "rows" \in st[k].marks =>
              o.rows = pl[p].page
  /\ mn2 = [mn EXCEPT ![m] = o]
  /\ mk2 = [q \in Player |->
              IF q # p /\ pl[q].menu = m THEN mk[q] \cup {"shared"} ELSE mk[q]]

LEMMA WriteSlots ==
  ASSUME NEW mn, NEW pl, NEW sc, NEW st, NEW mk, SInv(mn, pl, sc, st, mk),
         NEW m \in DOMAIN mn, NEW p \in Player, NEW o, NEW mn2, NEW mk2,
         Writes(m, p, o, mn, pl, st, mk, mn2, mk2)
  PROVE  SInv(mn2, pl, sc, st, mk2)
<1>1. /\ DOMAIN mn \subseteq Menu /\ mn \in [DOMAIN mn -> MenuObject]
      /\ st \in Seq(Frame) /\ mk \in [Player -> SUBSET Mark]
      /\ \A q \in Player :
           HeldOK(mn, pl, st, q) /\ ScreenOK(mn, pl, sc, st, mk, q) /\ SlotsOK(mn, pl, st, mk, q)
      /\ \A k \in DOMAIN st :
           /\ DisplayOK(pl, st, mk, k) /\ SelectOK(mn, pl, st, k)
           /\ DestroyOK(pl, st, k) /\ LiveOK(mn, st, k)
  BY Parts
<1>2. /\ DOMAIN mn2 = DOMAIN mn /\ mn2 \in [DOMAIN mn2 -> MenuObject] /\ mn2[m] = o
      /\ \A n \in DOMAIN mn : mn2[n].style = mn[n].style
      /\ \A n \in DOMAIN mn \ {m} : mn2[n] = mn[n]
  BY <1>1 DEF Writes
<1>3. /\ mk2 \in [Player -> SUBSET Mark]
      /\ \A q \in Player : "crossed" \in mk2[q] <=> "crossed" \in mk[q]
      /\ \A q \in Player : mk[q] \subseteq mk2[q]
      /\ \A q \in Player : mk2[q] = {} => mk[q] = {} /\ (q = p \/ pl[q].menu # m)
  BY <1>1 DEF Writes, Mark
<1>4. TypesIn(mn2, pl, sc, st, mk2)
  BY <1>2, <1>3 DEF SInv, TypesIn
<1>5. PlayersOK(mn2, pl, sc, st, mk2)
  <2> SUFFICES ASSUME NEW q \in Player
               PROVE  HeldOK(mn2, pl, st, q) /\ ScreenOK(mn2, pl, sc, st, mk2, q)
                      /\ SlotsOK(mn2, pl, st, mk2, q)
    BY DEF PlayersOK
  <2>1. HeldOK(mn2, pl, st, q)
    BY <1>1, <1>2 DEF HeldOK
  <2>2. AgreesIn(mn, pl, sc, q) => AgreesIn(mn2, pl, sc, q)
    <3>1. pl[q].menu # NoMenu => mn2[pl[q].menu].style = mn[pl[q].menu].style
      BY <1>1, <1>2 DEF HeldOK
    <3>2. QED
      BY <3>1 DEF AgreesIn, ShownIn, KeysIn
  <2>3. ScreenOK(mn2, pl, sc, st, mk2, q)
    BY <1>1, <1>3, <2>2 DEF ScreenOK
  <2>4. SlotsOK(mn2, pl, st, mk2, q)
    <3>1. CASE mk2[q] = {} /\ pl[q].menu # NoMenu /\ pl[q].menu = m
      BY <1>2, <1>3, <3>1 DEF SlotsOK, Writes
    <3>2. CASE mk2[q] = {} /\ pl[q].menu # NoMenu /\ pl[q].menu # m
      <4>1. mn2[pl[q].menu] = mn[pl[q].menu]
        BY <1>1, <1>2, <3>2 DEF HeldOK
      <4>2. QED
        BY <1>1, <1>3, <3>2, <4>1 DEF SlotsOK
    <3>3. QED
      BY <3>1, <3>2 DEF SlotsOK
  <2>5. QED
    BY <2>1, <2>3, <2>4
<1>6. ASSUME NEW k \in DOMAIN st
      PROVE  /\ DisplayOK(pl, st, mk2, k) /\ SelectOK(mn2, pl, st, k) /\ LiveOK(mn2, st, k)
  <2>1. st[k].menu \in DOMAIN mn /\ LiveOK(mn2, st, k)
    BY <1>1, <1>2 DEF LiveOK
  <2>2. DisplayOK(pl, st, mk2, k)
    <3>1. CASE st[k].kind = "display"
      <4>1. st[k].player \in Player
        BY <1>1, <3>1 DEF LiveOK
      <4>2. QED
        BY <1>1, <1>3, <4>1 DEF DisplayOK
    <3>2. QED
      BY <3>1 DEF DisplayOK
  <2>3. SelectOK(mn2, pl, st, k)
    <3>1. CalmIn(mn2, st[k]) <=> CalmIn(mn, st[k])
      BY <1>2, <2>1 DEF CalmIn
    <3>2. QED
      BY <1>1, <3>1 DEF SelectOK, ChosenOK
  <2>4. QED
    BY <2>1, <2>2, <2>3
<1>7. QED
  BY <1>1, <1>4, <1>5, <1>6 DEF SInv, FramesOK

\* Menus come and go that nobody holds and nothing works on.
LEMMA OtherMenus ==
  ASSUME NEW mn, NEW pl, NEW sc, NEW st, NEW mk, SInv(mn, pl, sc, st, mk),
         NEW mn2, DOMAIN mn2 \subseteq Menu, mn2 \in [DOMAIN mn2 -> MenuObject],
         \A n \in DOMAIN mn :
           \/ n \in DOMAIN mn2 /\ mn2[n] = mn[n]
           \/ /\ \A q \in Player : pl[q].menu # n
              /\ \A k \in DOMAIN st : st[k].menu # n
  PROVE  SInv(mn2, pl, sc, st, mk)
<1>1. /\ st \in Seq(Frame)
      /\ \A q \in Player :
           HeldOK(mn, pl, st, q) /\ ScreenOK(mn, pl, sc, st, mk, q) /\ SlotsOK(mn, pl, st, mk, q)
      /\ \A k \in DOMAIN st :
           /\ DisplayOK(pl, st, mk, k) /\ SelectOK(mn, pl, st, k)
           /\ DestroyOK(pl, st, k) /\ LiveOK(mn, st, k)
  BY Parts
<1>2. TypesIn(mn2, pl, sc, st, mk)
  BY DEF SInv, TypesIn
<1>3. PlayersOK(mn2, pl, sc, st, mk)
  <2> SUFFICES ASSUME NEW q \in Player
               PROVE  HeldOK(mn2, pl, st, q) /\ ScreenOK(mn2, pl, sc, st, mk, q)
                      /\ SlotsOK(mn2, pl, st, mk, q)
    BY DEF PlayersOK
  <2>1. pl[q].menu # NoMenu => pl[q].menu \in DOMAIN mn2 /\ mn2[pl[q].menu] = mn[pl[q].menu]
    BY <1>1 DEF HeldOK
  <2>2. AgreesIn(mn, pl, sc, q) => AgreesIn(mn2, pl, sc, q)
    BY <2>1 DEF AgreesIn, ShownIn, KeysIn
  <2>3. QED
    BY <1>1, <2>1, <2>2 DEF HeldOK, ScreenOK, SlotsOK
<1>4. ASSUME NEW k \in DOMAIN st PROVE SelectOK(mn2, pl, st, k) /\ LiveOK(mn2, st, k)
  <2>1. st[k].menu \in DOMAIN mn2 /\ mn2[st[k].menu] = mn[st[k].menu]
    BY <1>1 DEF LiveOK
  <2>2. QED
    BY <1>1, <2>1 DEF SelectOK, LiveOK, ChosenOK, CalmIn
<1>5. QED
  BY <1>1, <1>2, <1>3, <1>4 DEF SInv, FramesOK

----------------------------------------------------------------------------
(* display().                                                              *)

\* An innermost call.
LEMMA TopIsFrame ==
  ASSUME IInv, calls # <<>>
  PROVE  /\ Top = calls[Len(calls)] /\ Top \in Frame /\ Len(calls) \in DOMAIN calls
         /\ calls \in Seq(Frame) /\ DOMAIN calls = 1..Len(calls) /\ Len(calls) \in Nat \ {0}
         /\ Top.menu \in live /\ Top.menu \in Menu /\ Top.menu # NoMenu
         /\ Top.kind # "destroy" => Top.player \in Player
<1>1. calls \in Seq(Frame)
  BY DEF IInv, TypeOK
<1>2. /\ Len(calls) \in DOMAIN calls /\ DOMAIN calls = 1..Len(calls) /\ Len(calls) \in Nat \ {0}
      /\ Top = calls[Len(calls)] /\ Top \in Frame
  BY <1>1 DEF Top
<1>3. Top.menu \in Menu /\ Top.menu # NoMenu
  BY <1>2, NoMenuIsNone DEF Frame
<1>4. Top.menu \in live /\ (Top.kind # "destroy" => Top.player \in Player)
  BY <1>2 DEF IInv, CallsAreLive
<1>5. QED
  BY <1>1, <1>2, <1>3, <1>4

\* A suspended call is a frame.
LEMMA CallIsFrame ==
  ASSUME NEW kind \in {"exit", "destroy", "select", "display"}, NEW m \in Menu, NEW p \in Player
  PROVE  /\ Call(kind, m, p) \in Frame
         /\ Call(kind, m, p).kind = kind /\ Call(kind, m, p).menu = m
         /\ Call(kind, m, p).player = p /\ Call(kind, m, p).marks = {}
BY Constants DEF Call, Frame, Player, KeyName

\* The handlers a display() moves wait on.
LEMMA MovedKeeps ==
  ASSUME NEW stack, SInv(menus, players, screen, stack, marks), NEW p \in Player
  PROVE  /\ SInv(menus, players, screen, Moved(stack, p), marks)
         /\ Len(Moved(stack, p)) = Len(stack) /\ DOMAIN Moved(stack, p) = DOMAIN stack
         /\ \A k \in DOMAIN stack :
              /\ Moved(stack, p)[k].kind = stack[k].kind /\ Moved(stack, p)[k].menu = stack[k].menu
              /\ Moved(stack, p)[k].player = stack[k].player
              /\ stack[k].kind = "select" /\ stack[k].player = p =>
                   "moved" \in Moved(stack, p)[k].marks
<1> DEFINE st2 == Moved(stack, p)
<1>1. stack \in Seq(Frame) /\ DOMAIN stack = 1..Len(stack) /\ Len(stack) \in Nat
  BY Parts
<1>2. ASSUME NEW k \in DOMAIN stack
      PROVE  /\ st2[k] \in Frame
             /\ st2[k].kind = stack[k].kind /\ st2[k].menu = stack[k].menu
             /\ st2[k].player = stack[k].player /\ st2[k].page = stack[k].page
             /\ st2[k].key = stack[k].key /\ st2[k].seen = stack[k].seen
             /\ stack[k].kind = "select" => stack[k].marks \subseteq st2[k].marks
             /\ stack[k].kind = "select" /\ stack[k].player = p => "moved" \in st2[k].marks
             /\ stack[k].kind = "display" => st2[k].marks = stack[k].marks
  <2>1. stack[k] \in Frame
    BY <1>1, FrameTypes
  <2>2. CASE stack[k].kind = "select" /\ stack[k].player = p
    <3>1. st2[k] = [stack[k] EXCEPT !.marks = @ \cup {"moved"}]
      BY <2>2 DEF Moved
    <3>2. QED
      BY <2>1, <2>2, <3>1 DEF Frame
  <2>3. CASE ~(stack[k].kind = "select" /\ stack[k].player = p)
    <3>1. st2[k] = stack[k]
      BY <2>3 DEF Moved
    <3>2. QED
      BY <2>1, <2>3, <3>1
  <2>4. QED
    BY <2>2, <2>3
<1>3. st2 \in Seq(Frame) /\ Len(st2) = Len(stack) /\ DOMAIN st2 = DOMAIN stack
  <2>1. st2 = [k \in 1..Len(stack) |-> st2[k]]
    BY <1>1 DEF Moved
  <2>2. QED
    BY <1>1, <1>2, <2>1
<1> HIDE DEF st2
<1>4. SInv(menus, players, screen, st2, marks)
  BY <1>2, <1>3, MarkCalls
<1>5. QED
  BY <1>2, <1>3, <1>4 DEF st2

\* display() for a player in the game, of a menu that is not being destroyed, from
\* a stack in which he is displayed to if he is now.
LEMMA DisplayedKeeps ==
  ASSUME NEW stack, SInv(menus, players, screen, stack, marks),
         NEW m \in live, NEW p \in Player, NEW pg \in Page, Displayed(m, p, pg, stack),
         players[p].inGame,
         \A k \in DOMAIN stack : stack[k].kind = "destroy" => stack[k].menu # m,
         Crossing(p) = {} => ~Showing(stack, p)
  PROVE  /\ SInv(menus', players', screen', calls', marks')
         /\ players'[p].menu = m /\ players'[p].page = pg
<1> DEFINE o == [[players[p] EXCEPT !.menu = m] EXCEPT !.page = pg]
           st1 == Moved(stack, p)
           x == Crossing(p)
<1>1. /\ m \in Menu /\ m # NoMenu /\ menus \in [live -> MenuObject]
      /\ players \in [Player -> PlayerObject] /\ screen \in [Player -> Screen]
      /\ marks \in [Player -> SUBSET Mark] /\ stack \in Seq(Frame)
  BY Parts, NoMenuIsNone DEF live
<1>2. o \in PlayerObject /\ o.menu = m /\ o.page = pg /\ o.inGame
  BY <1>1 DEF PlayerObject
<1>3. players' = [players EXCEPT ![p] = o] /\ marks' = [marks EXCEPT ![p] = x] /\ menus' = menus
  BY <1>1 DEF Displayed
<1>4. /\ SInv(menus, players, screen, st1, marks)
      /\ Len(st1) = Len(stack) /\ DOMAIN st1 = DOMAIN stack
      /\ \A k \in DOMAIN stack :
           /\ st1[k].kind = stack[k].kind /\ st1[k].menu = stack[k].menu
           /\ st1[k].player = stack[k].player
           /\ stack[k].kind = "select" /\ stack[k].player = p => "moved" \in st1[k].marks
  BY MovedKeeps
<1>5. x \in SUBSET Mark /\ (x = {} \/ "crossed" \in x) /\ (x = {} => ~Showing(st1, p))
  <2>1. Showing(st1, p) => Showing(stack, p)
    BY <1>4 DEF Showing
  <2>2. QED
    BY <2>1 DEF Crossing, Mark
<1>6. menus[m].style = "Text" =>
        screen' = [screen EXCEPT ![p] = Shown(m, pg)] /\ calls' = st1
  BY DEF Displayed
<1>7. menus[m].style # "Text" =>
        /\ calls' = Append(st1, [Call("display", m, p) EXCEPT !.page = pg])
        /\ screen' = screen
  BY DEF Displayed
<1>8. Shown(m, pg) \in Screen /\ Shown(m, pg) = ShownIn(menus, m, pg)
  BY <1>1 DEF Shown, Screen, KeysOf, KeyName, ShownIn, KeysIn
<1> HIDE DEF o, st1, x
<1>9. /\ players' \in [Player -> PlayerObject] /\ players'[p] = o /\ marks'[p] = x
      /\ \A k \in DOMAIN st1 : st1[k].kind = "destroy" => st1[k].menu # m
      /\ \A k \in DOMAIN st1 :
           st1[k].kind = "select" /\ st1[k].player = p => o.inGame /\ "moved" \in st1[k].marks
  BY <1>1, <1>2, <1>3, <1>4
<1>10. \A st : HeldOK(menus, players', st, p)
  BY <1>2, <1>9 DEF HeldOK, live
<1>11. CASE menus[m].style = "Text"
  <2>1. ScreenOK(menus, players', screen', st1, marks', p)
    BY <1>1, <1>2, <1>6, <1>8, <1>9, <1>11 DEF ScreenOK, AgreesIn
  <2>2. SlotsOK(menus, players', st1, marks', p)
    BY <1>2, <1>9, <1>11 DEF SlotsOK
  <2>3. ASSUME NEW k \in DOMAIN st1, st1[k].player = p
        PROVE  DisplayOK(players', st1, marks', k)
    BY <1>5, <1>9, <2>3 DEF DisplayOK, Showing
  <2>4. SInv(menus, players', screen', st1, marks')
    <3>1. Alters(p, players, screen, marks, players', screen', marks')
      BY <1>1, <1>3, <1>5, <1>6, <1>8, <1>9, <1>11 DEF Alters
    <3>2. Fits(p, menus, players, st1, players', screen', marks')
      BY <1>2, <1>9, <1>10, <2>1, <2>2, <2>3 DEF Fits
    <3>3. QED
      BY <1>4, <3>1, <3>2, SetPlayer
  <2>5. QED
    BY <1>2, <1>3, <1>6, <1>9, <1>11, <2>4
<1>12. CASE menus[m].style # "Text"
  <2> DEFINE y == {"crossed"}
             mk1 == [marks EXCEPT ![p] = y]
             c == [Call("display", m, p) EXCEPT !.page = pg]
  <2>1. y \in SUBSET Mark /\ "crossed" \in y /\ mk1[p] = y /\ mk1 \in [Player -> SUBSET Mark]
        /\ mk1 = [marks EXCEPT ![p] = y] /\ marks' = [mk1 EXCEPT ![p] = x]
    BY <1>1, <1>3 DEF Mark
  <2>2. c \in Frame /\ c.kind = "display" /\ c.menu = m /\ c.player = p /\ c.page = pg
        /\ c.marks = {}
    <3>1. /\ Call("display", m, p) \in Frame
          /\ Call("display", m, p).kind = "display" /\ Call("display", m, p).menu = m
          /\ Call("display", m, p).player = p /\ Call("display", m, p).marks = {}
      BY <1>1, CallIsFrame
    <3>2. QED
      BY <3>1 DEF Frame
  <2>3. screen' = [screen EXCEPT ![p] = screen[p]] /\ screen[p] \in Screen /\ calls' = Append(st1, c)
    BY <1>1, <1>7, <1>12
  <2> HIDE DEF y, mk1, c
  <2>4. SInv(menus, players', screen', st1, mk1)
    <3>1. ScreenOK(menus, players', screen', st1, mk1, p) /\ SlotsOK(menus, players', st1, mk1, p)
      BY <2>1 DEF ScreenOK, SlotsOK
    <3>2. ASSUME NEW k \in DOMAIN st1, st1[k].player = p
          PROVE  DisplayOK(players', st1, mk1, k)
      BY <2>1, <3>2 DEF DisplayOK
    <3>3. Alters(p, players, screen, marks, players', screen', mk1)
      BY <1>1, <1>3, <1>9, <2>1, <2>3 DEF Alters
    <3>4. Fits(p, menus, players, st1, players', screen', mk1)
      BY <1>2, <1>9, <1>10, <3>1, <3>2 DEF Fits
    <3>5. QED
      BY <1>4, <3>3, <3>4, SetPlayer
  <2>5. SInv(menus, players', screen', calls', mk1)
    <3>1. c.menu \in DOMAIN menus
      BY <1>12, <2>2 DEF live
    <3>2. QED
      BY <2>1, <2>2, <2>3, <2>4, <3>1, PushCall
  <2>6. /\ DOMAIN calls' = 1..Len(st1) + 1 /\ Len(st1) \in Nat /\ DOMAIN st1 = 1..Len(st1)
        /\ calls'[Len(st1) + 1] = c /\ \A k \in DOMAIN st1 : calls'[k] = st1[k]
    <3>1. st1 \in Seq(Frame)
      BY <1>4, Parts
    <3>2. QED
      BY <2>2, <2>3, <3>1, AppendProperties
  <2>7. Showing(calls', p)
    BY <2>2, <2>6 DEF Showing
  <2>8. x = {} => \A k \in DOMAIN calls' :
                    calls'[k].kind = "display" /\ calls'[k].player = p =>
                      k = Len(st1) + 1 /\ calls'[k] = c
    BY <1>5, <2>6 DEF Showing
  <2>9. ScreenOK(menus, players', screen', calls', marks', p)
    BY <2>7 DEF ScreenOK
  <2>10. SlotsOK(menus, players', calls', marks', p)
    BY <1>9, <2>2, <2>7, <2>8 DEF SlotsOK
  <2>11. ASSUME NEW k \in DOMAIN calls', calls'[k].player = p
         PROVE  DisplayOK(players', calls', marks', k)
    BY <1>2, <1>5, <1>9, <2>2, <2>8, <2>11 DEF DisplayOK
  <2>12. \A k \in DOMAIN calls' :
           calls'[k].kind = "select" /\ calls'[k].player = p => o.inGame /\ o.page = players'[p].page
    BY <1>2, <1>9
  <2>13. SInv(menus, players', screen', calls', marks')
    <3>1. Alters(p, players', screen', mk1, players', screen', marks')
      BY <1>1, <1>5, <1>9, <2>1, <2>3 DEF Alters
    <3>2. Fits(p, menus, players', calls', players', screen', marks')
      BY <1>2, <1>9, <1>10, <2>9, <2>10, <2>11, <2>12 DEF Fits
    <3>3. QED
      BY <2>5, <3>1, <3>2, SetPlayer
  <2>14. QED
    BY <1>2, <1>3, <1>9, <2>13
<1>13. QED
  BY <1>11, <1>12

\* Careful plugins display a menu to who is in the game, and none that is being
\* destroyed.
LEMMA DisplayKeepsIInv ==
  ASSUME Habits = {}, IInv, NEW m \in live, NEW p \in Player, NEW pg \in Page,
         Display(m, p, pg)
  PROVE  IInv'
<1>1. SInv(menus, players, screen, calls, marks)
  BY IsSInv
<1>2. /\ Displayed(m, p, pg, calls) /\ players[p].inGame
      /\ \A k \in DOMAIN calls : calls[k].kind = "destroy" => calls[k].menu # m
  BY DEF Display, MayDisplay, Waiting
<1>3. Crossing(p) = {} => ~Showing(calls, p)
  BY DEF Crossing, Displaying, Waiting, Showing
<1>4. QED
  BY <1>1, <1>2, <1>3, DisplayedKeeps, IsSInvNext

\* What display() waits for the callbacks of is alive, and shown to a player.
LEMMA DisplayState ==
  ASSUME IInv, calls # <<>>, Top.kind = "display"
  PROVE  /\ Showing(calls, Top.player)
         /\ \/ "crossed" \in marks[Top.player]
            \/ players[Top.player].menu = Top.menu /\ players[Top.player].page = Top.page
         /\ marks[Top.player] = {} =>
              \A k \in DOMAIN calls :
                calls[k].kind = "display" /\ calls[k].player = Top.player => calls[k] = Top
<1>1. /\ Top = calls[Len(calls)] /\ Len(calls) \in DOMAIN calls
  BY TopIsFrame
<1>2. DisplayOK(players, calls, marks, Len(calls))
  BY <1>1, IsSInv, Parts
<1>3. Showing(calls, Top.player)
  BY <1>1 DEF Showing
<1>4. QED
  BY <1>1, <1>2, <1>3 DEF DisplayOK

\* The first rows are written for the player, whose menu is displayed once, and are
\* those of his page.
LEMMA RowsKeepIInv ==
  ASSUME IInv, DisplayRows
  PROVE  IInv'
<1> DEFINE n == Len(calls)
           m == Top.menu
           p == Top.player
           o == [menus[m] EXCEPT !.rows = Top.page]
           d == [Top EXCEPT !.marks = {"rows"}]
<1>1. /\ SInv(menus, players, screen, calls, marks) /\ calls # <<>>
      /\ Top.kind = "display" /\ Top.marks = {} /\ UNCHANGED <<players, screen>>
      /\ menus' = [menus EXCEPT ![m].rows = Top.page]
      /\ calls' = [calls EXCEPT ![n].marks = {"rows"}]
      /\ marks' = [q \in Player |->
                     IF q # p /\ players[q].menu = m THEN marks[q] \cup {"shared"} ELSE marks[q]]
  BY IsSInv DEF DisplayRows, Overwritten
<1>2. /\ Top = calls[n] /\ Top \in Frame /\ n \in DOMAIN calls
      /\ calls \in Seq(Frame) /\ DOMAIN calls = 1..n /\ n \in Nat \ {0}
      /\ m \in live /\ p \in Player /\ live = DOMAIN menus
      /\ menus \in [live -> MenuObject] /\ marks \in [Player -> SUBSET Mark]
  BY <1>1, TopIsFrame, Parts DEF live
<1>3. /\ Showing(calls, p)
      /\ "crossed" \in marks[p] \/ (players[p].menu = m /\ players[p].page = Top.page)
      /\ marks[p] = {} =>
           \A k \in DOMAIN calls :
             calls[k].kind = "display" /\ calls[k].player = p => calls[k] = Top
  BY <1>1, DisplayState
<1>4. o \in MenuObject /\ o.style = menus[m].style /\ o.rows = Top.page
  <2>1. menus[m] \in MenuObject
    BY <1>2
  <2>2. Top.page \in Page
    BY <1>2 DEF Frame
  <2>3. QED
    BY <2>1, <2>2 DEF MenuObject
<1>5. menus' = [menus EXCEPT ![m] = o] /\ menus'[m] = o
  BY <1>1, <1>2
<1>6. d \in Frame /\ d.marks = {"rows"} /\ d.kind = "display" /\ d.menu = m /\ d.player = p
      /\ d.page = Top.page /\ d.key = Top.key /\ d.seen = Top.seen
  BY <1>1, <1>2 DEF Frame
<1>7. calls' = [calls EXCEPT ![n] = d]
  BY <1>1, <1>2
<1> HIDE DEF o, d
<1>8. /\ calls' \in Seq(Frame) /\ Len(calls') = n /\ calls'[n] = d
      /\ \A k \in DOMAIN calls \ {n} : calls'[k] = calls[k]
  BY <1>2, <1>6, <1>7
<1> HIDE DEF n, m, p
<1>9. SInv(menus', players, screen, calls, marks')
  <2>1. players[p].menu = m /\ o.style = "Item" /\ marks[p] = {} =>
          /\ Showing(calls, p)
          /\ \A k \in DOMAIN calls :
               calls[k].kind = "display" /\ calls[k].player = p /\ "rows" \in calls[k].marks =>
                 o.rows = players[p].page
    BY <1>1, <1>3
  <2>2. Writes(m, p, o, menus, players, calls, marks, menus', marks')
    BY <1>1, <1>4, <1>5, <2>1 DEF Writes, m, p
  <2>3. m \in DOMAIN menus /\ p \in Player
    BY <1>2
  <2>4. QED
    BY <1>1, <2>2, <2>3, WriteSlots
<1>10. SInv(menus', players, screen, calls', marks')
  <2>1. "crossed" \in marks'[p] \/ menus'[m].rows = players[p].page
    BY <1>1, <1>2, <1>3, <1>4, <1>5
  <2>2. ASSUME NEW k \in DOMAIN calls
        PROVE  /\ calls'[k].kind = calls[k].kind /\ calls'[k].menu = calls[k].menu
               /\ calls'[k].player = calls[k].player /\ calls'[k].page = calls[k].page
               /\ calls'[k].key = calls[k].key /\ calls'[k].seen = calls[k].seen
               /\ calls[k].kind = "select" => calls[k].marks \subseteq calls'[k].marks
               /\ calls[k].kind = "display" /\ "rows" \in calls'[k].marks =>
                    \/ "rows" \in calls[k].marks \/ "crossed" \in marks'[calls[k].player]
                    \/ menus'[calls[k].menu].rows = players[calls[k].player].page
    <3>1. CASE k = n
      BY <1>1, <1>2, <1>6, <1>8, <2>1, <3>1 DEF m, p
    <3>2. CASE k # n
      BY <1>8, <3>2
    <3>3. QED
      BY <3>1, <3>2
  <2>3. Len(calls') = Len(calls)
    BY <1>8 DEF n
  <2>4. QED
    BY <1>8, <1>9, <2>2, <2>3, MarkCalls
<1>11. QED
  BY <1>1, <1>10, IsSInvNext

\* The other slots and m_keys are written and the menu is sent: who is shown what
\* he holds sees it with its slots.
LEMMA EndsKeepIInv ==
  ASSUME IInv, DisplaySends
  PROVE  IInv'
<1> DEFINE n == Len(calls)
           m == Top.menu
           p == Top.player
           pg == Top.page
           o == [menus[m] EXCEPT !.drawn = pg]
<1>1. /\ SInv(menus, players, screen, calls, marks) /\ calls # <<>>
      /\ Top.kind = "display" /\ Top.marks = {"rows"} /\ UNCHANGED players
      /\ menus' = [menus EXCEPT ![m].drawn = pg]
      /\ screen' = [screen EXCEPT ![p] = Shown(m, pg)]
      /\ calls' = Pop
      /\ marks' = [q \in Player |->
                     IF q # p /\ players[q].menu = m THEN marks[q] \cup {"shared"} ELSE marks[q]]
  BY IsSInv DEF DisplaySends, Overwritten
<1>2. /\ Top = calls[n] /\ Top \in Frame /\ n \in DOMAIN calls
      /\ m \in live /\ p \in Player /\ live = DOMAIN menus /\ m \in Menu /\ m # NoMenu
      /\ menus \in [live -> MenuObject] /\ marks \in [Player -> SUBSET Mark]
      /\ players \in [Player -> PlayerObject] /\ screen \in [Player -> Screen]
      /\ pg \in Page
  BY <1>1, TopIsFrame, Parts DEF live, Frame
<1>3. /\ Showing(calls, p)
      /\ "crossed" \in marks[p] \/ (players[p].menu = m /\ players[p].page = pg)
  BY <1>1, DisplayState
<1>4. /\ o \in MenuObject /\ o.style = menus[m].style /\ o.rows = menus[m].rows /\ o.drawn = pg
  BY <1>2 DEF MenuObject
<1>5. menus' = [menus EXCEPT ![m] = o] /\ menus'[m] = o
  BY <1>1, <1>2
<1>6. Shown(m, pg) \in Screen /\ Shown(m, pg) = ShownIn(menus', m, pg)
  <2>1. menus'[m].style = menus[m].style
    BY <1>4, <1>5
  <2>2. QED
    BY <1>2, <2>1 DEF Shown, Screen, KeysOf, KeyName, ShownIn, KeysIn
<1>7. marks[p] = {} => menus[m].rows = players[p].page \/ menus[m].style # "Item"
  <2>1. SlotsOK(menus, players, calls, marks, p)
    BY <1>1, <1>2, Parts
  <2>2. QED
    BY <1>1, <1>2, <1>3, <2>1 DEF SlotsOK
<1> HIDE DEF o, n, m, p, pg
<1>8. SInv(menus', players, screen, calls, marks')
  <2>1. players[p].menu = m /\ o.style = "Item" /\ marks[p] = {} =>
          /\ Showing(calls, p)
          /\ \A k \in DOMAIN calls :
               calls[k].kind = "display" /\ calls[k].player = p /\ "rows" \in calls[k].marks =>
                 o.rows = players[p].page
    <3>1. SlotsOK(menus, players, calls, marks, p) /\ HeldOK(menus, players, calls, p)
      BY <1>1, <1>2, Parts
    <3>2. QED
      BY <1>2, <1>3, <1>4, <3>1, <1>7 DEF SlotsOK
  <2>2. Writes(m, p, o, menus, players, calls, marks, menus', marks')
    BY <1>1, <1>4, <1>5, <2>1 DEF Writes, m, p
  <2>3. m \in DOMAIN menus /\ p \in Player
    BY <1>2
  <2>4. QED
    BY <1>1, <2>2, <2>3, WriteSlots
<1>9. SInv(menus', players, screen', calls, marks')
  <2>1. /\ HeldOK(menus', players, calls, p) /\ SlotsOK(menus', players, calls, marks', p)
        /\ \A k \in DOMAIN calls :
             DisplayOK(players, calls, marks', k) /\ SelectOK(menus', players, calls, k)
    BY <1>2, <1>8, Parts
  <2>2. ScreenOK(menus', players, screen', calls, marks', p)
    BY <1>3 DEF ScreenOK
  <2>3. Fits(p, menus', players, calls, players, screen', marks')
    BY <2>1, <2>2 DEF Fits, SelectOK, ChosenOK
  <2>4. Alters(p, players, screen, marks', players, screen', marks')
    <3>1. marks' \in [Player -> SUBSET Mark]
      BY <1>8, Parts
    <3>2. QED
      BY <1>1, <1>2, <1>6, <3>1 DEF Alters
  <2>5. QED
    BY <1>2, <1>8, <2>3, <2>4, SetPlayer
<1>10. SInv(menus', players, screen', calls', marks')
  <2>1. marks'[p] = marks[p] /\ screen'[p] = Shown(m, pg)
    BY <1>1, <1>2
  <2>2. \/ "crossed" \in marks'[p]
        \/ /\ AgreesIn(menus', players, screen', p)
           /\ /\ players[p].menu # NoMenu /\ marks'[p] = {}
              /\ menus'[players[p].menu].style = "Item"
              => /\ menus'[players[p].menu].rows = players[p].page
                 /\ menus'[players[p].menu].drawn = players[p].page
    BY <1>2, <1>3, <1>4, <1>5, <1>6, <1>7, <2>1 DEF AgreesIn
  <2>3. Top = calls[Len(calls)] /\ calls' = SubSeq(calls, 1, Len(calls) - 1)
    BY <1>1, <1>2 DEF Pop, n
  <2>4. QED
    BY <1>1, <1>9, <2>2, <2>3, PopCall DEF p
<1>11. QED
  BY <1>1, <1>10, IsSInvNext

----------------------------------------------------------------------------
(* The other natives, closeMenu() and destroyMenu().                       *)

\* A new menu is at an address nobody holds.
LEMMA RegisterKeepsIInv ==
  ASSUME IInv, NEW m \in Menu, NEW style \in {"Item", "Text"}, NEW global \in BOOLEAN,
         RegisterMenu(m, style, global)
  PROVE  IInv'
<1>1. SInv(menus, players, screen, calls, marks) /\ UNCHANGED <<players, screen, calls, marks>>
  BY IsSInv DEF RegisterMenu
<1>2. DOMAIN menus \subseteq Menu /\ menus \in [DOMAIN menus -> MenuObject]
  BY <1>1, Parts
<1>3. /\ DOMAIN menus' = DOMAIN menus \cup {m} /\ menus' \in [DOMAIN menus' -> MenuObject]
      /\ \A n \in DOMAIN menus : menus'[n] = menus[n]
  BY <1>2, Constants DEF RegisterMenu, live, MenuObject
<1>4. SInv(menus', players, screen, calls, marks)
  BY <1>1, <1>2, <1>3, OtherMenus
<1>5. QED
  BY <1>1, <1>4, IsSInvNext

\* A player's menu is closed for good.
LEMMA ClosedKeeps ==
  ASSUME IInv, NEW p \in Player, Closed(p)
  PROVE  /\ SInv(menus, players', screen', calls, marks')
         /\ players'[p].menu = NoMenu /\ AgreesIn(menus, players', screen', p)
         /\ players'[p].inGame = players[p].inGame /\ players'[p].page = players[p].page
         /\ \A q \in Player \ {p} : players'[q] = players[q]
<1>1. /\ SInv(menus, players, screen, calls, marks)
      /\ players \in [Player -> PlayerObject] /\ screen \in [Player -> Screen]
      /\ marks \in [Player -> SUBSET Mark]
      /\ \A k \in DOMAIN calls : SelectOK(menus, players, calls, k)
  BY IsSInv, Parts
<1>2. /\ players' \in [Player -> PlayerObject]
      /\ players'[p].menu = NoMenu /\ players'[p].page = players[p].page
      /\ players'[p].inGame = players[p].inGame
      /\ \A q \in Player \ {p} : players'[q] = players[q]
  BY <1>1 DEF Closed, PlayerObject
<1>3. /\ screen' \in [Player -> Screen] /\ screen'[p] = Nothing
      /\ \A q \in Player \ {p} : screen'[q] = screen[q]
  BY <1>1, Constants DEF Closed
<1>4. /\ marks' \in [Player -> SUBSET Mark] /\ marks'[p] = Crossing(p)
      /\ \A q \in Player \ {p} : marks'[q] = marks[q]
  BY <1>1 DEF Closed, Crossing, Mark
<1>5. AgreesIn(menus, players', screen', p)
  BY <1>2, <1>3 DEF AgreesIn
<1>6. Fits(p, menus, players, calls, players', screen', marks')
  <2>1. /\ HeldOK(menus, players', calls, p) /\ ScreenOK(menus, players', screen', calls, marks', p)
        /\ SlotsOK(menus, players', calls, marks', p)
    BY <1>2, <1>5 DEF HeldOK, ScreenOK, SlotsOK
  <2>2. ASSUME NEW k \in DOMAIN calls, calls[k].player = p PROVE DisplayOK(players', calls, marks', k)
    BY <1>4, <2>2 DEF DisplayOK, Crossing, Displaying, Waiting
  <2>3. \A k \in DOMAIN calls : calls[k].kind = "select" /\ calls[k].player = p => players'[p].inGame
    BY <1>1, <1>2 DEF SelectOK, ChosenOK
  <2>4. QED
    BY <1>2, <2>1, <2>2, <2>3 DEF Fits
<1>7. SInv(menus, players', screen', calls, marks')
  <2>1. Alters(p, players, screen, marks, players', screen', marks')
    BY <1>2, <1>3, <1>4 DEF Alters
  <2>2. QED
    BY <1>1, <1>6, <2>1, SetPlayer
<1>8. QED
  BY <1>2, <1>5, <1>7

\* The exit handler of a player's menu begins.
LEMMA PushExit ==
  ASSUME IInv, NEW p \in Player, players[p].menu \in live
  PROVE  /\ Call("exit", players[p].menu, p) \in Frame
         /\ SInv(menus, players, screen, Append(calls, Call("exit", players[p].menu, p)), marks)
<1> DEFINE c == Call("exit", players[p].menu, p)
<1>1. SInv(menus, players, screen, calls, marks) /\ live \subseteq Menu
  BY IsSInv DEF IInv, TypeOK
<1>2. c \in Frame /\ c.kind = "exit" /\ c.menu = players[p].menu /\ c.player = p
  BY <1>1, CallIsFrame
<1>3. c.menu \in DOMAIN menus
  BY <1>2 DEF live
<1> HIDE DEF c
<1>4. SInv(menus, players, screen, Append(calls, c), marks)
  BY <1>1, <1>2, <1>3, PushCall
<1>5. QED
  BY <1>2, <1>4 DEF c

\* The CloseMenu native.
LEMMA CloseKeepsIInv ==
  ASSUME IInv, NEW p \in Player, Close(p)
  PROVE  IInv'
<1>1. players[p].menu \in live /\ menus' = menus
  BY DEF Close, CloseMenu
<1>2. CASE menus[players[p].menu].style = "Item"
  <2>1. /\ calls' = Append(calls, Call("exit", players[p].menu, p))
        /\ UNCHANGED <<players, screen, marks>>
    BY <1>2 DEF Close, CloseMenu
  <2>2. QED
    BY <1>1, <2>1, PushExit, IsSInvNext
<1>3. CASE menus[players[p].menu].style # "Item"
  <2>1. Closed(p) /\ calls' = calls
    BY <1>3 DEF Close, CloseMenu
  <2>2. QED
    BY <1>1, <2>1, ClosedKeeps, IsSInvNext
<1>4. QED
  BY <1>2, <1>3

\* closeMenu() returns to what waits for it: the player has no menu any more.
LEMMA ExitKeepsIInv ==
  ASSUME IInv, ExitReturns
  PROVE  IInv'
<1>1. /\ calls # <<>> /\ Top.kind = "exit" /\ Closed(Top.player)
      /\ calls' = SubSeq(calls, 1, Len(calls) - 1) /\ menus' = menus
  BY DEF ExitReturns, Pop
<1>2. Top = calls[Len(calls)] /\ Top.player \in Player
  BY <1>1, TopIsFrame
<1>3. /\ SInv(menus, players', screen', calls, marks')
      /\ players'[Top.player].menu = NoMenu
      /\ AgreesIn(menus, players', screen', Top.player)
  BY <1>1, <1>2, ClosedKeeps
<1>4. SInv(menus, players', screen', calls', marks')
  BY <1>1, <1>2, <1>3, PopCall
<1>5. QED
  BY <1>1, <1>4, IsSInvNext

\* destroyMenu() is called for a menu that nothing waiting works on.
LEMMA PushDestroy ==
  ASSUME NEW st, SInv(menus, players, screen, st, marks), NEW m \in live,
         \A k \in DOMAIN st : st[k].menu # m
  PROVE  SInv(menus, players, screen, Append(st, Call("destroy", m, 1)), marks)
<1> DEFINE c == Call("destroy", m, 1)
<1>1. m \in Menu /\ 1 \in Player /\ m \in DOMAIN menus
  BY Parts, Constants DEF live, Player
<1>2. c \in Frame /\ c.kind = "destroy" /\ c.menu = m /\ c.player = 1
  BY <1>1, CallIsFrame
<1> HIDE DEF c
<1>3. SInv(menus, players, screen, Append(st, c), marks)
  BY <1>1, <1>2, PushCall
<1>4. QED
  BY <1>3 DEF c

LEMMA DestroyKeepsIInv ==
  ASSUME Habits = {}, IInv, NEW m \in live, DestroyMenu(m)
  PROVE  IInv'
<1>1. SInv(menus, players, screen, calls, marks) /\ Len(calls) \in Nat
  BY IsSInv, Parts
<1>2. /\ calls' = Append(calls, Call("destroy", m, 1)) /\ UNCHANGED <<menus, players, screen, marks>>
      /\ \A k \in DOMAIN calls : calls[k].menu # m
  BY DEF DestroyMenu, MayDestroy
<1>3. SInv(menus, players, screen, calls', marks)
  BY <1>1, <1>2, PushDestroy
<1>4. QED
  BY <1>2, <1>3, IsSInvNext

\* The loop of destroyMenu() at one player.  One who is not in the game holds a
\* menu only while his leaving closes it, and nothing destroys that menu then.
LEMMA LoopKeepsIInv ==
  ASSUME IInv, DestroyLoops
  PROVE  IInv'
<1> DEFINE n == Len(calls)
           p == Top.player
           passed == [calls EXCEPT ![n].player = @ + 1]
<1>1. /\ SInv(menus, players, screen, calls, marks) /\ calls # <<>>
      /\ Top.kind = "destroy" /\ p \in Player
  BY IsSInv DEF DestroyLoops
<1>2. /\ n \in Nat \ {0} /\ DOMAIN calls = 1..n /\ Top = calls[n] /\ n \in DOMAIN calls
      /\ calls \in Seq(Frame) /\ Top.menu # NoMenu /\ Top.menu \in live
  BY <1>1, TopIsFrame
<1>3. CASE ~Affected(Top.menu, p)
  <2>1. players[p].menu # Top.menu
    <3> SUFFICES ASSUME players[p].menu = Top.menu, ~players[p].inGame
                 PROVE  FALSE
      BY <1>3 DEF Affected
    <3>1. calls[1].kind = "exit" /\ calls[1].menu = Top.menu
      BY <1>1, <1>2, Parts DEF HeldOK, Leaving
    <3>2. n # 1 /\ 1 \in DOMAIN calls /\ 1 < n
      BY <1>1, <1>2, <3>1
    <3>3. DestroyOK(players, calls, n)
      BY <1>1, <1>2, Parts
    <3>4. QED
      BY <1>1, <1>2, <3>1, <3>2, <3>3 DEF DestroyOK
  <2>2. calls' = passed /\ UNCHANGED <<menus, players, screen, marks>>
    BY <1>3 DEF DestroyLoops
  <2>3. SInv(menus, players, screen, calls', marks)
    BY <1>1, <1>2, <2>1, <2>2, PassPlayer
  <2>4. QED
    BY <2>2, <2>3, IsSInvNext
<1>4. CASE Affected(Top.menu, p) /\ menus[Top.menu].style # "Item"
  <2>1. calls' = passed /\ Closed(p) /\ menus' = menus
    BY <1>4 DEF DestroyLoops, CloseMenu, Affected
  <2>2. SInv(menus, players', screen', calls, marks') /\ players'[p].menu = NoMenu
    BY <1>1, <2>1, ClosedKeeps
  <2>3. SInv(menus, players', screen', calls', marks')
    BY <1>1, <1>2, <2>1, <2>2, PassPlayer
  <2>4. QED
    BY <2>1, <2>3, IsSInvNext
<1>5. CASE Affected(Top.menu, p) /\ menus[Top.menu].style = "Item"
  <2> DEFINE c == Call("exit", players[p].menu, p)
             st1 == Append(calls, c)
  <2>1. /\ players[p].menu = Top.menu
        /\ calls' = Append(passed, c)
        /\ UNCHANGED <<menus, players, screen, marks>>
    BY <1>5 DEF DestroyLoops, CloseMenu, Affected
  <2>2. /\ passed \in Seq(Frame) /\ Len(passed) = n /\ DOMAIN passed = 1..n
        /\ \A k \in 1..n-1 : passed[k] = calls[k]
        /\ passed[n] = [calls[n] EXCEPT !.player = @ + 1]
    <3>1. p + 1 \in 1..MaxClients + 1 /\ Top \in Frame
      BY <1>1, TopIsFrame, Constants DEF Player
    <3>2. [Top EXCEPT !.player = @ + 1] \in Frame
      BY <3>1 DEF Frame
    <3> HIDE DEF Top
    <3>3. passed = [calls EXCEPT ![n] = [Top EXCEPT !.player = @ + 1]]
      BY <1>2
    <3>4. QED
      BY <1>2, <3>2, <3>3
  <2>3. c \in Frame /\ SInv(menus, players, screen, st1, marks) /\ c.kind = "exit" /\ c.player = p
    <3>1. c \in Frame /\ SInv(menus, players, screen, st1, marks)
      BY <1>1, <1>2, <2>1, <2>2, PushExit
    <3>2. QED
      BY <3>1 DEF Call
  <2> HIDE DEF c, passed
  <2>4. /\ st1 \in Seq(Frame) /\ Len(st1) = n + 1 /\ DOMAIN st1 = 1..n + 1
        /\ \A k \in 1..n : st1[k] = calls[k]
        /\ st1[n + 1] = c
    BY <1>2, <2>3, AppendProperties
  <2>5. /\ calls' \in Seq(Frame) /\ Len(calls') = n + 1 /\ DOMAIN calls' = 1..n + 1
        /\ \A k \in 1..n : calls'[k] = passed[k]
        /\ calls'[n + 1] = c
    BY <2>1, <2>2, <2>3, AppendProperties
  <2> HIDE DEF st1, n
  <2>6. calls' = [st1 EXCEPT ![n].player = @ + 1]
    <3> DEFINE s2 == [st1 EXCEPT ![n].player = @ + 1]
    <3>1. DOMAIN s2 = 1..n + 1 /\ s2[n] = [st1[n] EXCEPT !.player = @ + 1]
          /\ \A k \in (1..n + 1) \ {n} : s2[k] = st1[k]
      BY <1>2, <2>4
    <3> HIDE DEF s2
    <3>2. \A k \in 1..n + 1 : calls'[k] = s2[k]
      <4> TAKE k \in 1..n + 1
      <4>1. k \in 1..n-1 \/ k = n \/ k = n + 1
        BY <1>2
      <4>2. n \in 1..n /\ n + 1 # n /\ \A j \in 1..n-1 : j \in 1..n /\ j # n /\ j \in 1..n + 1
        BY <1>2
      <4>3. n + 1 \in (1..n + 1) \ {n}
        BY <1>2
      <4>4. CASE k \in 1..n-1
        BY <2>2, <2>4, <2>5, <3>1, <4>2, <4>4
      <4>5. CASE k = n
        <5>1. calls'[n] = [calls[n] EXCEPT !.player = @ + 1]
          BY <2>2, <2>5, <4>2
        <5>2. s2[n] = [calls[n] EXCEPT !.player = @ + 1]
          BY <2>4, <3>1, <4>2
        <5>3. QED
          BY <4>5, <5>1, <5>2
      <4>6. CASE k = n + 1
        BY <2>4, <2>5, <3>1, <4>3, <4>6
      <4>7. QED
        BY <4>1, <4>4, <4>5, <4>6
    <3>3. calls' = s2
      <4>1. calls' = [k \in DOMAIN calls' |-> calls'[k]]
        BY <2>5, LenProperties
      <4>2. s2 = [k \in DOMAIN s2 |-> s2[k]]
        BY <2>4, LenProperties DEF s2
      <4>3. QED
        BY <2>5, <3>1, <3>2, <4>1, <4>2
    <3>4. QED
      BY <3>3 DEF s2
  <2>7. SInv(menus, players, screen, calls', marks)
    <3>1. /\ n \in DOMAIN st1 /\ st1[n] = Top /\ n + 1 \in DOMAIN st1
      BY <1>2, <2>4
    <3>2. st1[n].kind = "destroy" /\ st1[n].player = p /\ st1[n + 1].kind = "exit" /\ st1[n + 1].player = p
      BY <1>1, <2>3, <2>4, <3>1
    <3>3. QED
      BY <1>1, <2>3, <2>6, <3>1, <3>2, PassPlayer
  <2>8. QED
    BY <2>1, <2>7, IsSInvNext
<1>6. QED
  BY <1>3, <1>4, <1>5

\* The end of destroyMenu(): all players are passed and nothing closes the menu
\* any more, so that nobody holds it.
LEMMA EndKeepsIInv ==
  ASSUME IInv, DestroyEnds
  PROVE  IInv'
<1> DEFINE n == Len(calls)
           m == Top.menu
<1>1. /\ SInv(menus, players, screen, calls, marks) /\ calls # <<>>
      /\ Top.kind = "destroy" /\ Top.player \notin Player
      /\ UNCHANGED <<players, screen, marks>>
      /\ menus' = [k \in live \ {m} |-> menus[k]]
      /\ calls' = SubSeq(calls, 1, n - 1)
  BY IsSInv DEF DestroyEnds, Pop
<1>2. /\ n \in Nat \ {0} /\ DOMAIN calls = 1..n /\ Top = calls[n] /\ n \in DOMAIN calls
      /\ calls \in Seq(Frame) /\ m # NoMenu
  BY <1>1, TopIsFrame
<1>3. /\ calls' \in Seq(Frame) /\ DOMAIN calls' = 1..n-1
      /\ \A k \in 1..n-1 : calls'[k] = calls[k]
  BY <1>1, <1>2, PopEffect
<1>4. DestroyOK(players, calls, n)
  BY <1>1, <1>2, Parts
<1>5. \A q \in Player : players[q].menu # m
  <2>1. calls[n].player = MaxClients + 1
    BY <1>1, <1>2, FrameTypes, Constants DEF Player
  <2>2. \A q \in Player : q < calls[n].player
    BY <2>1, Constants DEF Player
  <2>3. n + 1 \notin DOMAIN calls
    BY <1>2
  <2>4. QED
    BY <1>1, <1>2, <1>4, <2>2, <2>3 DEF DestroyOK
<1>6. \A k \in DOMAIN calls' : calls'[k].menu # m
  <2>1. \A k \in 1..n-1 : k \in DOMAIN calls /\ k < n
    BY <1>2
  <2>2. QED
    BY <1>1, <1>2, <1>3, <1>4, <2>1 DEF DestroyOK
<1>7. SInv(menus, players, screen, calls', marks)
  BY <1>1, <1>2, PopCall
<1>8. SInv(menus', players, screen, calls', marks)
  <2>1. DOMAIN menus \subseteq Menu /\ menus \in [DOMAIN menus -> MenuObject]
    BY <1>1, Parts
  <2>2. /\ DOMAIN menus' \subseteq Menu /\ menus' \in [DOMAIN menus' -> MenuObject]
        /\ \A k \in DOMAIN menus : k = m \/ (k \in DOMAIN menus' /\ menus'[k] = menus[k])
    BY <1>1, <2>1 DEF live
  <2>3. QED
    BY <1>5, <1>6, <1>7, <2>2, OtherMenus
<1>9. QED
  BY <1>1, <1>8, IsSInvNext


----------------------------------------------------------------------------
(* ClientCommand().                                                        *)

\* Nothing waits, so that no display is crossed.
LEMMA Calm ==
  ASSUME IInv, calls = <<>>, NEW p \in Player
  PROVE  /\ Crossing(p) = {} /\ ~Showing(calls, p) /\ ~Closing(calls, p) /\ DOMAIN calls = {}
         /\ players[p].menu # NoMenu => players[p].menu \in live /\ players[p].inGame
         /\ marks[p] = {} => AgreesIn(menus, players, screen, p)
         /\ \/ "crossed" \in marks[p] \/ screen[p] = Nothing
            \/ AgreesIn(menus, players, screen, p)
<1>1. DOMAIN calls = {}
  OBVIOUS
<1>2. Crossing(p) = {} /\ ~Showing(calls, p) /\ ~Closing(calls, p)
  BY <1>1 DEF Crossing, Displaying, Waiting, Showing, Closing
<1>3. HeldOK(menus, players, calls, p) /\ ScreenOK(menus, players, screen, calls, marks, p)
  BY IsSInv, Parts
<1>4. QED
  BY <1>1, <1>2, <1>3 DEF HeldOK, ScreenOK, Leaving, live

\* The key stands for what the player saw, unless somebody else was shown the menu
\* or the display was crossed; and it is on a page that has a neighbour there.
LEMMA SelectKeepsIInv ==
  ASSUME IInv, NEW p \in Player, NEW key \in KeyName, Select(p, key)
  PROVE  IInv'
<1> DEFINE m == players[p].menu
           c == [Call("select", m, p) EXCEPT
                   !.key = key, !.page = PageInSlot(m, key, screen[p].page),
                   !.seen = screen[p], !.marks = marks[p]]
<1>1. /\ SInv(menus, players, screen, calls, marks)
      /\ calls = <<>> /\ key \in screen[p].keys /\ m \in live /\ key \in KeysOf(m, menus[m].drawn)
      /\ calls' = <<c>> /\ menus' = menus
      /\ players' = [players EXCEPT ![p].menu = NoMenu]
      /\ screen' = [screen EXCEPT ![p] = Nothing] /\ marks' = [marks EXCEPT ![p] = {}]
  BY IsSInv DEF Select, KeyTaken
<1>2. /\ m \in Menu /\ m # NoMenu /\ m \in DOMAIN menus
      /\ menus \in [DOMAIN menus -> MenuObject] /\ menus[m] \in MenuObject
      /\ players \in [Player -> PlayerObject] /\ screen \in [Player -> Screen]
      /\ marks \in [Player -> SUBSET Mark] /\ SlotsOK(menus, players, calls, marks, p)
  BY <1>1, Parts, NoMenuIsNone DEF live
<1>3. /\ Crossing(p) = {} /\ ~Showing(calls, p) /\ players[p].inGame
      /\ marks[p] = {} => AgreesIn(menus, players, screen, p)
      /\ "crossed" \in marks[p] \/ AgreesIn(menus, players, screen, p)
  BY <1>1, <1>2, Calm DEF Nothing
<1>4. Closed(p) /\ calls' = Append(calls, c)
  BY <1>1, <1>3 DEF Closed
<1>5. SInv(menus, players', screen', calls, marks')
      /\ players'[p].inGame = players[p].inGame /\ players'[p].page = players[p].page
  BY <1>4, ClosedKeeps
<1>6. PageInSlot(m, key, screen[p].page) \in Page
      /\ (menus[m].style = "Text" => PageInSlot(m, key, screen[p].page) = screen[p].page)
      /\ (menus[m].style = "Item" =>
            PageInSlot(m, key, screen[p].page) \in {menus[m].rows, menus[m].drawn})
  BY <1>2 DEF PageInSlot, MenuObject, Screen
<1>7. /\ c \in Frame /\ c.kind = "select" /\ c.menu = m /\ c.player = p /\ c.key = key
      /\ c.page = PageInSlot(m, key, screen[p].page) /\ c.seen = screen[p] /\ c.marks = marks[p]
  <2>1. /\ Call("select", m, p) \in Frame /\ Call("select", m, p).kind = "select"
        /\ Call("select", m, p).menu = m /\ Call("select", m, p).player = p
    BY <1>2, CallIsFrame
  <2>2. screen[p] \in Screen /\ marks[p] \in SUBSET (Mark \cup {"moved", "rows"})
    BY <1>2
  <2>3. QED
    BY <1>6, <2>1, <2>2 DEF Frame
<1> HIDE DEF c
<1>8. AgreesIn(menus, players, screen, p) =>
        screen[p].menu = m /\ screen[p].page = players[p].page
        /\ screen[p].keys = KeysIn(menus, m, players[p].page)
  BY <1>2 DEF AgreesIn, ShownIn
<1>9. ASSUME c.marks \cap Mark = {} PROVE IsSeen(c)
  <2>1. marks[p] = {}
    BY <1>2, <1>7, <1>9
  <2>2. screen[p].menu = m /\ screen[p].page = players[p].page
    BY <1>3, <1>8, <2>1
  <2>3. menus[m].style = "Item" =>
          menus[m].rows = players[p].page /\ menus[m].drawn = players[p].page
    BY <1>2, <1>3, <2>1 DEF SlotsOK
  <2>4. menus[m].style \in {"Item", "Text"}
    BY <1>2 DEF MenuObject
  <2>5. QED
    BY <1>6, <1>7, <2>2, <2>3, <2>4 DEF IsSeen
<1>10. ASSUME CalmIn(menus, c)
       PROVE  c.seen.menu = m /\ players[p].page = c.seen.page /\ Beside(c) \in Page
  <2>1. menus[m].style = "Item" /\ key \in {"next", "back"} /\ "crossed" \notin marks[p]
    BY <1>7, <1>10 DEF CalmIn
  <2>2. /\ screen[p].menu = m /\ screen[p].page = players[p].page
        /\ key \in KeysIn(menus, m, players[p].page)
    BY <1>1, <1>3, <1>8, <2>1
  <2>3. /\ key = "next" => players[p].page < LastPage
        /\ key = "back" => players[p].page > 0
    BY <2>1, <2>2 DEF KeysIn
  <2>4. players[p].page \in 0..LastPage
    BY <1>2 DEF PlayerObject, Page
  <2>5. IF key = "next" THEN players[p].page + 1 \in 0..LastPage
        ELSE players[p].page - 1 \in 0..LastPage
    BY <2>1, <2>3, <2>4, NumbersAreNat
  <2>6. QED
    BY <1>7, <2>2, <2>5 DEF Beside, Page
<1>11. ChosenOK(menus, players', c)
  BY <1>3, <1>5, <1>7, <1>9, <1>10 DEF ChosenOK
<1>12. SInv(menus, players', screen', calls', marks')
  BY <1>1, <1>2, <1>4, <1>5, <1>7, <1>11, PushCall
<1>13. QED
  BY <1>1, <1>12, IsSInvNext

\* The server takes a key that is not shared or crossed; the screen of another is
\* cleared.
LEMMA IgnoredKeepsIInv ==
  ASSUME IInv, NEW p \in Player, NEW key \in KeyName, Ignored(p, key)
  PROVE  IInv'
<1> DEFINE m == players[p].menu
<1>1. /\ SInv(menus, players, screen, calls, marks)
      /\ calls = <<>> /\ key \in screen[p].keys
      /\ m = NoMenu \/ (m \in live /\ key \notin KeysOf(m, menus[m].drawn))
      /\ screen' = [screen EXCEPT ![p] = Nothing] /\ UNCHANGED <<menus, players, calls>>
      /\ marks' = [marks EXCEPT ![p] = IF m = NoMenu THEN {} ELSE @]
  BY IsSInv DEF Ignored, KeyTaken
<1>2. /\ players \in [Player -> PlayerObject] /\ screen \in [Player -> Screen]
      /\ menus \in [DOMAIN menus -> MenuObject] /\ marks \in [Player -> SUBSET Mark]
      /\ HeldOK(menus, players, calls, p) /\ SlotsOK(menus, players, calls, marks, p)
  BY <1>1, Parts
<1>3. /\ ~Showing(calls, p) /\ DOMAIN calls = {}
      /\ marks[p] = {} => AgreesIn(menus, players, screen, p)
  BY <1>1, Calm
<1>4. /\ screen' \in [Player -> Screen] /\ screen'[p] = Nothing
      /\ marks' \in [Player -> SUBSET Mark]
      /\ marks'[p] = (IF m = NoMenu THEN {} ELSE marks[p])
      /\ \A q \in Player \ {p} : screen'[q] = screen[q] /\ marks'[q] = marks[q]
  BY <1>1, <1>2, Constants
<1>5. Alters(p, players, screen, marks, players, screen', marks')
  BY <1>2, <1>4 DEF Alters
<1>6. ScreenOK(menus, players, screen', calls, marks', p)
  <2>1. CASE m = NoMenu
    BY <1>4, <2>1 DEF ScreenOK, AgreesIn
  <2>2. CASE m # NoMenu
    <3>1. m \in live /\ key \notin KeysOf(m, menus[m].drawn) /\ marks'[p] = marks[p]
          /\ m \in DOMAIN menus /\ menus[m].style \in {"Item", "Text"}
      BY <1>1, <1>2, <1>4, <2>2 DEF live, MenuObject
    <3>2. marks[p] # {}
      <4> SUFFICES ASSUME marks[p] = {} PROVE FALSE
        OBVIOUS
      <4>1. screen[p].keys = KeysIn(menus, m, players[p].page)
        BY <1>3, <2>2 DEF AgreesIn, ShownIn
      <4>2. menus[m].style = "Item" => menus[m].drawn = players[p].page
        BY <1>2, <1>3, <2>2 DEF SlotsOK
      <4>3. KeysOf(m, menus[m].drawn) = KeysIn(menus, m, players[p].page)
        BY <3>1, <4>2 DEF KeysOf, KeysIn
      <4>4. QED
        BY <1>1, <3>1, <4>1, <4>3
    <3>3. "crossed" \in marks[p] \/ "shared" \in marks[p]
      BY <1>2, <3>2 DEF Mark
    <3>4. QED
      BY <1>4, <3>1, <3>3 DEF ScreenOK
  <2>3. QED
    BY <2>1, <2>2
<1>7. SlotsOK(menus, players, calls, marks', p)
  BY <1>2, <1>4 DEF SlotsOK
<1>8. Fits(p, menus, players, calls, players, screen', marks')
  BY <1>2, <1>3, <1>6, <1>7 DEF Fits
<1>9. SInv(menus, players, screen', calls, marks')
  BY <1>1, <1>5, <1>8, SetPlayer
<1>10. QED
  BY <1>1, <1>9, IsSInvNext

\* The handler that returns is of the only call that waits.
LEMMA SelectState ==
  ASSUME IInv, calls # <<>>, Top.kind = "select", Top.menu \in live
  PROVE  /\ Len(calls) = 1 /\ Top = calls[1] /\ Top.player \in Player
         /\ ChosenOK(menus, players, Top)
         /\ DOMAIN Pop = {} /\ Len(Pop) = 0
         /\ SInv(menus, players, screen, Pop, marks)
<1>1. /\ Top = calls[Len(calls)] /\ Len(calls) \in DOMAIN calls /\ calls \in Seq(Frame)
      /\ Top.player \in Player
  BY TopIsFrame
<1>2. Len(calls) = 1 /\ ChosenOK(menus, players, Top)
  <2>1. SelectOK(menus, players, calls, Len(calls))
    BY <1>1, IsSInv, Parts
  <2>2. QED
    BY <1>1, <2>1 DEF SelectOK
<1>3. DOMAIN Pop = 1..1-1 /\ Len(Pop) = 1 - 1
  BY <1>1, <1>2, PopEffect DEF Pop
<1>4. SInv(menus, players, screen, Pop, marks)
  BY <1>1, IsSInv, PopCall DEF Pop
<1>5. QED
  BY <1>1, <1>2, <1>3, <1>4

LEMMA ReturnKeepsIInv ==
  ASSUME IInv, SelectReturns
  PROVE  IInv'
<1> DEFINE m == Top.menu
           p == Top.player
           pg == Turned(p, Top.key)
<1>1. calls # <<>> /\ Top.kind = "select" /\ m \in live /\ AfterHandler(m, p, Top.key)
  BY DEF SelectReturns
<1>2. /\ p \in Player /\ players[p].inGame /\ DOMAIN Pop = {} /\ Len(Pop) = 0
      /\ SInv(menus, players, screen, Pop, marks)
  BY <1>1, SelectState DEF ChosenOK
<1>3. CASE Turns(Top)
  <2>1. pg \in Page /\ Displayed(m, p, pg, Pop)
    BY <1>1, <1>3 DEF AfterHandler
  <2>2. ~Showing(Pop, p) /\ \A k \in DOMAIN Pop : Pop[k].menu # m
    BY <1>2 DEF Showing
  <2> HIDE DEF m, p, pg
  <2>3. m \in live
    BY <1>1
  <2>4. QED
    BY <1>2, <2>1, <2>2, <2>3, DisplayedKeeps, IsSInvNext
<1>4. CASE ~Turns(Top)
  <2>1. /\ UNCHANGED <<menus, players, screen, marks>>
        /\ \/ calls' = Append(Pop, Call("destroy", m, 1))
           \/ calls' = Pop
    BY <1>1, <1>4 DEF AfterHandler
  <2>2. SInv(menus, players, screen, Append(Pop, Call("destroy", m, 1)), marks)
    <3>1. \A k \in DOMAIN Pop : Pop[k].menu # m
      BY <1>2
    <3>2. QED
      BY <1>1, <1>2, <3>1, PushDestroy
  <2>3. QED
    BY <1>2, <2>1, <2>2, IsSInvNext
<1>5. QED
  BY <1>3, <1>4

----------------------------------------------------------------------------
(* The engine.                                                             *)

LEMMA PutInServerKeepsIInv ==
  ASSUME IInv, NEW p \in Player, PutInServer(p)
  PROVE  IInv'
<1>1. /\ SInv(menus, players, screen, calls, marks) /\ DOMAIN calls = {}
      /\ players' = [players EXCEPT ![p].inGame = TRUE]
      /\ UNCHANGED <<menus, screen, calls, marks>>
  BY IsSInv DEF PutInServer
<1>2. /\ players \in [Player -> PlayerObject] /\ screen \in [Player -> Screen]
      /\ marks \in [Player -> SUBSET Mark]
      /\ HeldOK(menus, players, calls, p) /\ ScreenOK(menus, players, screen, calls, marks, p)
      /\ SlotsOK(menus, players, calls, marks, p)
  BY <1>1, Parts
<1>3. /\ players' \in [Player -> PlayerObject]
      /\ players'[p].menu = players[p].menu /\ players'[p].page = players[p].page
      /\ players'[p].inGame /\ \A q \in Player \ {p} : players'[q] = players[q]
  BY <1>1, <1>2 DEF PlayerObject
<1>4. Alters(p, players, screen, marks, players', screen, marks)
  BY <1>2, <1>3 DEF Alters
<1>5. Fits(p, menus, players, calls, players', screen, marks)
  <2>1. HeldOK(menus, players', calls, p)
    BY <1>2, <1>3 DEF HeldOK
  <2>2. ScreenOK(menus, players', screen, calls, marks, p)
    BY <1>2, <1>3 DEF ScreenOK, AgreesIn
  <2>3. SlotsOK(menus, players', calls, marks, p)
    BY <1>2, <1>3 DEF SlotsOK
  <2>4. QED
    BY <1>1, <1>3, <2>1, <2>2, <2>3 DEF Fits
<1>6. SInv(menus, players', screen, calls, marks)
  BY <1>1, <1>4, <1>5, SetPlayer
<1>7. QED
  BY <1>1, <1>6, IsSInvNext

\* A player who leaves holds his menu until its exit handler has returned.
LEMMA DisconnectKeepsIInv ==
  ASSUME IInv, NEW p \in Player, Disconnect(p)
  PROVE  IInv'
<1> DEFINE m == players[p].menu
           left == [players EXCEPT ![p].inGame = FALSE]
           quiet == m = NoMenu \/ (m \in live /\ menus[m].style = "Text")
<1>1. /\ SInv(menus, players, screen, calls, marks) /\ calls = <<>> /\ DOMAIN calls = {}
      /\ screen' = [screen EXCEPT ![p] = Nothing] /\ menus' = menus
  BY IsSInv DEF Disconnect
<1>2. /\ players \in [Player -> PlayerObject] /\ screen \in [Player -> Screen]
      /\ marks \in [Player -> SUBSET Mark]
  BY <1>1, Parts
<1>3. /\ screen' \in [Player -> Screen] /\ screen'[p] = Nothing
      /\ \A q \in Player \ {p} : screen'[q] = screen[q]
  BY <1>1, <1>2, Constants
<1>4. CASE quiet
  <2>1. /\ players' = [left EXCEPT ![p].menu = NoMenu] /\ marks' = [marks EXCEPT ![p] = {}]
        /\ calls' = calls
    BY <1>4 DEF Disconnect
  <2>2. /\ players' \in [Player -> PlayerObject] /\ players'[p].menu = NoMenu
        /\ \A q \in Player \ {p} : players'[q] = players[q]
    BY <1>2, <2>1 DEF PlayerObject
  <2>3. marks' \in [Player -> SUBSET Mark] /\ \A q \in Player \ {p} : marks'[q] = marks[q]
    BY <1>2, <2>1
  <2>4. Alters(p, players, screen, marks, players', screen', marks')
    BY <1>3, <2>2, <2>3 DEF Alters
  <2>5. Fits(p, menus, players, calls, players', screen', marks')
    BY <1>1, <1>3, <2>2 DEF Fits, HeldOK, ScreenOK, SlotsOK, AgreesIn
  <2>6. SInv(menus, players', screen', calls, marks')
    BY <1>1, <2>4, <2>5, SetPlayer
  <2>7. QED
    BY <1>1, <2>1, <2>6, IsSInvNext
<1>5. CASE ~quiet
  <2> DEFINE c == Call("exit", m, p)
  <2>1. /\ m \in live /\ players' = left /\ calls' = Append(calls, c) /\ marks' = marks
    BY <1>1, <1>5 DEF Disconnect
  <2>2. c \in Frame /\ c.kind = "exit" /\ c.menu = m /\ c.player = p
        /\ SInv(menus, players, screen, calls', marks)
    <3>1. c \in Frame /\ SInv(menus, players, screen, Append(calls, c), marks)
      BY <2>1, PushExit
    <3>2. QED
      BY <2>1, <3>1 DEF Call
  <2> HIDE DEF c
  <2>3. calls' # <<>> /\ calls'[1] = c /\ DOMAIN calls' = {1}
    BY <1>1, <2>1
  <2>4. /\ players' \in [Player -> PlayerObject]
        /\ players'[p].menu = m /\ players'[p].page = players[p].page
        /\ \A q \in Player \ {p} : players'[q] = players[q]
    BY <1>2, <2>1 DEF PlayerObject
  <2>5. Alters(p, players, screen, marks, players', screen', marks)
    BY <1>2, <1>3, <2>4 DEF Alters
  <2>6. Fits(p, menus, players, calls', players', screen', marks)
    <3>1. HeldOK(menus, players', calls', p)
      BY <2>1, <2>2, <2>3, <2>4 DEF HeldOK, Leaving, live
    <3>2. ScreenOK(menus, players', screen', calls', marks, p)
      BY <2>2, <2>3 DEF ScreenOK, Closing
    <3>3. SlotsOK(menus, players', calls', marks, p)
      <4>1. SlotsOK(menus, players, calls', marks, p)
        BY <2>2, Parts
      <4>2. QED
        BY <2>4, <4>1 DEF SlotsOK
    <3>4. QED
      BY <2>2, <2>3, <2>4, <3>1, <3>2, <3>3 DEF Fits, DisplayOK
  <2>7. SInv(menus, players', screen', calls', marks)
    BY <2>2, <2>5, <2>6, SetPlayer
  <2>8. QED
    BY <1>1, <2>1, <2>7, IsSInvNext
<1>6. QED
  BY <1>4, <1>5

\* No menus, nobody in the game, and nothing on a screen.
LEMMA Begins ==
  SInv([m \in {} |-> {}], [p \in Player |-> Fresh], [p \in Player |-> Nothing], <<>>,
       [p \in Player |-> {}])
<1> DEFINE mn == [m \in {} |-> {}]
           pl == [p \in Player |-> Fresh]
           sc == [p \in Player |-> Nothing]
           st == << >>
           mk == [p \in Player |-> {}]
<1>1. /\ DOMAIN mn = {} /\ mn \in [DOMAIN mn -> MenuObject]
      /\ pl \in [Player -> PlayerObject] /\ \A p \in Player : pl[p].menu = NoMenu
      /\ sc \in [Player -> Screen] /\ \A p \in Player : sc[p] = Nothing
      /\ mk \in [Player -> SUBSET Mark]
  BY Constants
<1>2. st \in Seq(Frame) /\ Len(st) = 0 /\ DOMAIN st = {}
  OBVIOUS
<1> HIDE DEF mn, pl, sc, st, mk
<1>3. TypesIn(mn, pl, sc, st, mk)
  BY <1>1, <1>2 DEF TypesIn
<1>4. PlayersOK(mn, pl, sc, st, mk) /\ FramesOK(mn, pl, st, mk)
  BY <1>1, <1>2 DEF PlayersOK, FramesOK, HeldOK, ScreenOK, SlotsOK, AgreesIn
<1>5. SInv(mn, pl, sc, st, mk)
  BY <1>3, <1>4 DEF SInv
<1>6. QED
  BY <1>5 DEF mn, pl, sc, st, mk

LEMMA ChangeMapKeepsIInv ==
  ASSUME IInv, ChangeMap
  PROVE  IInv'
<1>1. SInv(menus', players', screen', calls', marks')
  BY Begins DEF ChangeMap
<1>2. QED
  BY <1>1, IsSInvNext

----------------------------------------------------------------------------
(* The theorems.                                                           *)

\* Every step of careful plugins keeps the invariant: one case per action.
LEMMA StepKeepsIInv ==
  ASSUME Habits = {}, IInv, [Next]_vars
  PROVE  IInv'
<1>1. CASE NativeStep
  <2>1. ASSUME NEW m \in Menu, NEW kind \in Kinds[m], RegisterMenu(m, kind[1], kind[2])
        PROVE  IInv'
    <3>1. kind[1] \in {"Item", "Text"} /\ kind[2] \in BOOLEAN
      BY KindsAre
    <3>2. QED
      BY <2>1, <3>1, RegisterKeepsIInv
  <2>2. ASSUME NEW m \in live, DestroyMenu(m) PROVE IInv'
    BY <2>2, DestroyKeepsIInv
  <2>3. ASSUME NEW m \in live, NEW p \in Player, NEW pg \in Page, Display(m, p, pg)
        PROVE  IInv'
    BY <2>3, DisplayKeepsIInv
  <2>4. ASSUME NEW p \in Player, Close(p) PROVE IInv'
    BY <2>4, CloseKeepsIInv
  <2>5. QED
    BY <1>1, <2>1, <2>2, <2>3, <2>4 DEF NativeStep
<1>2. CASE EngineStep
  <2>1. ASSUME NEW p \in Player, NEW key \in KeyName, Select(p, key) PROVE IInv'
    BY <2>1, SelectKeepsIInv
  <2>2. ASSUME NEW p \in Player, NEW key \in KeyName, Ignored(p, key) PROVE IInv'
    BY <2>2, IgnoredKeepsIInv
  <2>3. ASSUME NEW p \in Player, PutInServer(p) \/ Disconnect(p) PROVE IInv'
    BY <2>3, PutInServerKeepsIInv, DisconnectKeepsIInv
  <2>4. CASE ChangeMap
    BY <2>4, ChangeMapKeepsIInv
  <2>5. QED
    BY <1>2, <2>1, <2>2, <2>3, <2>4 DEF EngineStep
<1>3. CASE ExitReturns
  BY <1>3, ExitKeepsIInv
<1>4. CASE DestroyLoops
  BY <1>4, LoopKeepsIInv
<1>5. CASE DestroyEnds
  BY <1>5, EndKeepsIInv
<1>6. CASE SelectReturns
  BY <1>6, ReturnKeepsIInv
<1>7. CASE DisplayRows
  BY <1>7, RowsKeepIInv
<1>8. CASE DisplaySends
  BY <1>8, EndsKeepIInv
<1>9. CASE UNCHANGED vars
  BY <1>9, IsSInv, IsSInvNext DEF vars
<1>10. QED
  BY <1>1, <1>2, <1>3, <1>4, <1>5, <1>6, <1>7, <1>8, <1>9 DEF Next

\* With careful plugins, at all times: what waits works on menus that stay, what a
\* player holds lives, is on his screen or on its way there, and is what the slots
\* of the menu are of unless somebody else was shown it or his display was crossed.
THEOREM InductiveInvariant == Habits = {} => (Spec => []IInv)
<1> SUFFICES ASSUME Habits = {} PROVE Spec => []IInv
  OBVIOUS
<1>1. Init => IInv
  BY Begins, IsSInv DEF Init
<1>2. IInv /\ [Next]_vars => IInv'
  BY StepKeepsIInv
<1>3. QED
  BY <1>1, <1>2, PTL DEF Spec

\* destroyMenu() leaves no player with the menu it frees, whatever the exit
\* handlers it calls, and the callbacks of items, display, close and destroy.
THEOREM NothingDangles == Habits = {} => (Spec => []NoDanglingMenu)
<1>1. IInv => NoDanglingMenu
  BY DEF IInv, MenusAreHeld, NoDanglingMenu
<1>2. QED
  BY <1>1, InductiveInvariant, PTL

\* The handler of a key gets the item that the player saw there, unless somebody
\* else was shown the menu since or the display was crossed, however many players
\* the menus are shown to and whatever runs inside display().
THEOREM KeysMeanWhatIsShown == Habits = {} => (Spec => []SelectedIsShown)
<1>1. IInv => SelectedIsShown
  BY DEF IInv, SelectsHold, SelectedIsShown
<1>2. QED
  BY <1>1, InductiveInvariant, PTL

\* Between calls the server takes a player to look at what is on his screen, unless
\* the display of his menu was crossed, or it is gone from his screen because a key
\* of it was looked up in slots that are of another's page.
THEOREM ScreensAndServerAgree == Habits = {} => (Spec => []ScreenAgrees)
<1>1. IInv => ScreenAgrees
  BY DEF IInv, ScreensAgree, ScreenAgrees, Displaying, Waiting
<1>2. QED
  BY <1>1, InductiveInvariant, PTL

\* A key that turns the page is on none that has no neighbour there.
THEOREM PagesHaveNeighbours == Habits = {} => (Spec => []TurnsStay)
<1>1. IInv => TurnsStay
  <2> SUFFICES ASSUME IInv, NEW k \in Waiting({"select"}), Undisturbed(calls[k])
               PROVE  Turned(calls[k].player, calls[k].key) \in Page
    BY DEF TurnsStay
  <2>1. /\ players[calls[k].player].page = calls[k].seen.page
        /\ Beside(calls[k]) \in Page
    BY DEF IInv, SelectsHold
  <2>2. QED
    BY <2>1 DEF Beside, Turned
<1>2. QED
  BY <1>1, InductiveInvariant, PTL

\* A key that turns the page leads to the one beside that which the player saw,
\* unless its handler displayed something to him: then display() is given the page
\* beside the one that was displayed.
THEOREM NeighboursAreShown == Habits = {} => (Spec => PagesTurn)
<1> SUFFICES ASSUME Habits = {} PROVE Spec => PagesTurn
  OBVIOUS
<1> DEFINE Turning == SelectReturns /\ Undisturbed(Top) =>
                        /\ players'[Top.player].menu = Top.seen.menu
                        /\ players'[Top.player].page = Beside(Top)
<1>1. ASSUME IInv, SelectReturns, Undisturbed(Top)
      PROVE  /\ players'[Top.player].menu = Top.seen.menu
             /\ players'[Top.player].page = Beside(Top)
  <2>1. /\ calls # <<>> /\ Top.kind = "select" /\ Top.menu \in live /\ Turns(Top)
        /\ Turned(Top.player, Top.key) \in Page
        /\ Displayed(Top.menu, Top.player, Turned(Top.player, Top.key), Pop)
    BY <1>1 DEF SelectReturns, AfterHandler, Undisturbed
  <2>2. CalmIn(menus, Top)
    BY <1>1 DEF Undisturbed, CalmIn, Turns
  <2>3. /\ Top.player \in Player /\ players[Top.player].inGame /\ DOMAIN Pop = {}
        /\ Top.seen.menu = Top.menu /\ players[Top.player].page = Top.seen.page
        /\ SInv(menus, players, screen, Pop, marks)
    BY <1>1, <2>1, <2>2, SelectState DEF ChosenOK
  <2>4. Turned(Top.player, Top.key) = Beside(Top)
    BY <2>3 DEF Turned, Beside
  <2>5. ~Showing(Pop, Top.player) /\ \A k \in DOMAIN Pop : Pop[k].menu # Top.menu
    BY <2>3 DEF Showing
  <2>6. /\ players'[Top.player].menu = Top.menu
        /\ players'[Top.player].page = Turned(Top.player, Top.key)
    BY <2>1, <2>3, <2>5, DisplayedKeeps
  <2>7. QED
    BY <2>3, <2>4, <2>6
<1>2. IInv /\ [Next]_vars => [Turning]_vars
  BY <1>1
<1>3. Spec => [][Turning]_vars
  BY <1>2, InductiveInvariant, PTL DEF Spec
<1>4. QED
  BY <1>3 DEF PagesTurn

----------------------------------------------------------------------------
(* A page's arithmetic.                                                    *)

\* The pages before a page hold no more than it begins with.
LEMMA Products ==
  ASSUME NEW k \in Nat, NEW p \in Nat, NEW q \in Nat
  PROVE  /\ p * k \in Nat /\ (p + 1) * k = p * k + k
         /\ p < q => (p + 1) * k <= q * k
<1>1. p * k \in Nat
  OBVIOUS
<1>2. (p + 1) * k = p * k + k
  OBVIOUS
<1>3. p < q => (p + 1) * k <= q * k
  OBVIOUS
<1>4. QED
  BY <1>1, <1>2, <1>3

\* Leaving b of a slots to others on each page.
LEMMA Spread ==
  ASSUME NEW p \in Nat, NEW a \in Nat, NEW b \in Nat
  PROVE  p * a - p * b = p * (a - b)
OBVIOUS

\* Pages of k items cover the items they have room for.
LEMMA PageOf ==
  ASSUME NEW k \in Nat, NEW n \in Nat, NEW i \in Nat, i < (n + 1) * k
  PROVE  \E p \in 0..n : p * k <= i /\ i < (p + 1) * k
<1>1. k > 0
  OBVIOUS
<1>2. PICK p \in Nat, r \in Nat : i = p * k + r /\ r < k
  <2>1. i = (i \div k) * k + (i % k) /\ i % k < k /\ i % k \in Nat /\ i \div k \in Nat
    BY <1>1
  <2>2. QED
    BY <2>1
<1>3. p * k <= i /\ i < (p + 1) * k
  BY <1>2, Products
<1>4. p <= n
  <2>1. ~(n < p)
    <3>1. SUFFICES ASSUME n < p PROVE FALSE
      OBVIOUS
    <3>2. (n + 1) * k <= p * k
      BY <3>1, Products
    <3>3. QED
      BY <1>3, <3>2
  <2>2. QED
    BY <2>1
<1>5. QED
  BY <1>3, <1>4

\* The bounds of the rows.
LEMMA RowsFit ==
  /\ Rows \in Nat \ {0} /\ Keys \in Nat /\ Rows + 3 <= Keys /\ Slot = 0..Keys-1
  /\ MaxItems \in Nat /\ MaxPage \in Nat
  /\ \A s \in Nat : s < Rows => s \in Slot
BY RowsAndKeys, BoundsAreNat DEF Slot

\* The slots no static item takes, counted from the top.
LEMMA FreeSlotsStep ==
  ASSUME PagesTypeOK
  PROVE  /\ FreeSlots(0) = 0
         /\ \A n \in 0..Keys : FreeSlots(n) \in Nat /\ FreeSlots(n) <= n
         /\ \A n \in Slot :
              FreeSlots(n + 1) = FreeSlots(n) + (IF statics[n] = "none" THEN 1 ELSE 0)
<1> DEFINE Free(n) == {s \in 0..n-1 : statics[s] = "none"}
<1>1. \A n \in Nat : IsFiniteSet(Free(n)) /\ Cardinality(Free(n)) \in Nat /\ Cardinality(Free(n)) <= n
  <2>1. TAKE n \in Nat
  <2>2. IsFiniteSet(0..n-1) /\ Cardinality(0..n-1) = n
    BY FS_Interval
  <2>3. QED
    BY <2>2, FS_Subset, FS_CardinalityType
<1>2. FreeSlots(0) = 0
  <2>1. Free(0) = {}
    OBVIOUS
  <2>2. QED
    BY <2>1, FS_EmptySet DEF FreeSlots
<1>3. ASSUME NEW n \in Slot
      PROVE  FreeSlots(n + 1) = FreeSlots(n) + (IF statics[n] = "none" THEN 1 ELSE 0)
  <2>1. n \in Nat
    BY RowsFit
  <2>2. CASE statics[n] = "none"
    <3>1. Free(n + 1) = Free(n) \cup {n} /\ n \notin Free(n)
      BY <2>1, <2>2
    <3>2. Cardinality(Free(n) \cup {n}) = Cardinality(Free(n)) + 1
      BY <1>1, <2>1, <3>1, FS_AddElement
    <3>3. QED
      BY <2>2, <3>1, <3>2 DEF FreeSlots
  <2>3. CASE statics[n] # "none"
    <3>1. Free(n + 1) = Free(n)
      BY <2>1, <2>3
    <3>2. QED
      BY <1>1, <2>1, <2>3, <3>1 DEF FreeSlots
  <2>4. QED
    BY <2>2, <2>3
<1>4. \A n \in 0..Keys : FreeSlots(n) \in Nat /\ FreeSlots(n) <= n
  BY <1>1, RowsFit DEF FreeSlots
<1>5. QED
  BY <1>2, <1>3, <1>4

\* A page's slots are free or take a static item.
LEMMA FreeOrStatic ==
  ASSUME PagesTypeOK
  PROVE  /\ StaticsPerPage \in Nat
         /\ FreeSlots(perPage) + StaticsPerPage = perPage
         /\ perPage - StaticsPerPage = FreeSlots(perPage)
<1> DEFINE Free == {s \in 0..perPage-1 : statics[s] = "none"}
           Taken == {s \in 0..perPage-1 : statics[s] # "none"}
<1>1. perPage \in Nat /\ perPage \in 0..Keys
  BY RowsFit DEF PagesTypeOK
<1>2. IsFiniteSet(0..perPage-1) /\ Cardinality(0..perPage-1) = perPage
  BY <1>1, FS_Interval
<1>3. IsFiniteSet(Free) /\ IsFiniteSet(Taken)
  BY <1>2, FS_Subset
<1>4. Cardinality(Free) \in Nat /\ Cardinality(Taken) \in Nat
  BY <1>3, FS_CardinalityType
<1>5. Free \cup Taken = 0..perPage-1 /\ Free \cap Taken = {}
  OBVIOUS
<1>6. Cardinality(Free \cup Taken) = Cardinality(Free) + Cardinality(Taken) - Cardinality(Free \cap Taken)
  BY <1>3, FS_Union
<1>7. Cardinality(Free) + Cardinality(Taken) = perPage
  <2>1. Cardinality(Free \cup Taken) = perPage
    BY <1>2, <1>5
  <2>2. Cardinality(Free \cap Taken) = 0
    BY <1>5, FS_EmptySet
  <2> HIDE DEF Free, Taken
  <2>3. QED
    BY <1>4, <1>6, <2>1, <2>2
<1>8. QED
  BY <1>1, <1>4, <1>7 DEF FreeSlots, StaticsPerPage

\* There are no more free slots on part of a page than on all of it.
LEMMA FreeSlotsMonotone ==
  ASSUME PagesTypeOK, NEW n \in 0..perPage
  PROVE  FreeSlots(n) <= FreeSlots(perPage)
<1> DEFINE Free(k) == {s \in 0..k-1 : statics[s] = "none"}
<1>1. perPage \in Nat /\ n \in Nat
  BY RowsFit DEF PagesTypeOK
<1>2. IsFiniteSet(0..perPage-1)
  BY <1>1, FS_Interval
<1>3. IsFiniteSet(Free(perPage)) /\ Free(n) \subseteq Free(perPage)
  BY <1>1, <1>2, FS_Subset
<1>4. QED
  BY <1>3, FS_Subset DEF FreeSlots

\* The items that hide among the first n.
LEMMA HiddenCount ==
  ASSUME PagesTypeOK, NEW n \in 0..Len(items)
  PROVE  /\ HiddenBefore(n) \in 0..n
         /\ HiddenBefore(0) = 0
         /\ NoItemHides => HiddenBefore(n) = 0
<1> DEFINE Hides(k) == {i \in 0..k-1 : Item(i) = "Hide"}
<1>1. n \in Nat
  BY DEF PagesTypeOK
<1>2. IsFiniteSet(0..n-1) /\ Cardinality(0..n-1) = n
  BY <1>1, FS_Interval
<1>3. Cardinality(Hides(n)) \in Nat /\ Cardinality(Hides(n)) <= n
  BY <1>2, FS_Subset, FS_CardinalityType
<1>4. HiddenBefore(0) = 0
  <2>1. Hides(0) = {}
    OBVIOUS
  <2>2. QED
    BY <2>1, FS_EmptySet DEF HiddenBefore
<1>5. ASSUME NoItemHides PROVE HiddenBefore(n) = 0
  <2>1. \A i \in 0..n-1 : i \in 0..Len(items)-1
    BY <1>1
  <2>2. Hides(n) = {}
    BY <1>5, <2>1 DEF NoItemHides, Visible
  <2>3. QED
    BY <2>2, FS_EmptySet DEF HiddenBefore
<1>6. QED
  BY <1>1, <1>3, <1>4, <1>5 DEF HiddenBefore

\* Where a page starts.
LEMMA StartOfPage ==
  ASSUME PagesTypeOK, NEW p \in 0..MaxPage, p * perPage <= Len(items)
  PROVE  /\ p * perPage \in 0..Len(items) /\ First(p) \in Nat
         /\ First(p) = p * FreeSlots(perPage) /\ First(p + 1) = First(p) + FreeSlots(perPage)
         /\ Start(p) = First(p) + HiddenBefore(p * perPage)
         /\ Start(p) \in Nat
         /\ HiddenBefore(p * perPage) \in 0..MaxItems
         /\ NoItemHides => HiddenBefore(p * perPage) = 0
         /\ p = 0 => HiddenBefore(p * perPage) = 0
<1>1. p \in Nat /\ perPage \in Nat /\ Len(items) \in Nat /\ Len(items) <= MaxItems /\ perPage \in 0..Keys
  BY RowsFit DEF PagesTypeOK
<1>2. p * perPage \in 0..Len(items)
  BY <1>1, Products
<1>3. FreeSlots(perPage) \in Nat
  BY <1>1, FreeSlotsStep
<1>4. /\ HiddenBefore(p * perPage) \in 0..(p * perPage)
      /\ HiddenBefore(0) = 0
      /\ NoItemHides => HiddenBefore(p * perPage) = 0
  BY <1>2, HiddenCount
<1>5. First(p) = p * FreeSlots(perPage) /\ First(p + 1) = (p + 1) * FreeSlots(perPage)
  BY FreeOrStatic DEF First
<1>6. First(p) \in Nat /\ First(p + 1) = First(p) + FreeSlots(perPage)
  BY <1>1, <1>3, <1>5, Products
<1>7. p = 0 => HiddenBefore(p * perPage) = 0
  BY <1>1, <1>4
<1>8. Start(p) = First(p) + HiddenBefore(p * perPage)
  <2>1. CASE p = 0
    <3>1. First(p) = 0
      BY <1>3, <1>5, <2>1
    <3>2. QED
      BY <1>7, <2>1, <3>1 DEF Start
  <2>2. CASE p # 0
    <3>1. Start(p) = p * perPage + HiddenBefore(p * perPage) - p * StaticsPerPage
      BY <2>2 DEF Start
    <3>2. p * perPage - p * StaticsPerPage = p * (perPage - StaticsPerPage)
      BY <1>1, FreeOrStatic, Spread
    <3>3. p * perPage \in Nat /\ p * StaticsPerPage \in Nat /\ HiddenBefore(p * perPage) \in Nat
      BY <1>1, <1>2, <1>4, FreeOrStatic, Products
    <3>4. QED
      BY <3>1, <3>2, <3>3 DEF First
  <2>3. QED
    BY <2>1, <2>2
<1>9. HiddenBefore(p * perPage) \in 0..MaxItems
  BY <1>1, <1>2, <1>4, RowsFit
<1>10. Start(p) \in Nat
  BY <1>6, <1>8, <1>9
<1>11. QED
  BY <1>2, <1>4, <1>5, <1>6, <1>7, <1>8, <1>9, <1>10
----------------------------------------------------------------------------
(* What the parts of the invariant say of the next state, when the menu is *)
(* what it was.                                                            *)

\* The menu's own arithmetic does not change.
LEMMA MenuSame ==
  ASSUME UNCHANGED menu
  PROVE  /\ items' = items /\ statics' = statics /\ perPage' = perPage
         /\ NoItemHides' <=> NoItemHides
BY DEF menu, NoItemHides, Visible, Item

\* How far the page is filled then.
LEMMA FilledToNext ==
  ASSUME UNCHANGED menu
  PROVE  FilledTo' <=>
           (page' >= 0 =>
              /\ page' * perPage <= Len(items)
              /\ hidden' = HiddenBefore(page' * perPage)
              /\ step' = "fill" => next' >= Start(page') + FreeSlots(slot')
              /\ step' # "fill" => next' >= Len(items) \/ next' >= Start(page') + FreeSlots(perPage)
              /\ NoItemHides =>
                   /\ step' = "fill" => next' = First(page') + FreeSlots(slot')
                   /\ step' # "fill" =>
                        /\ next' <= First(page' + 1)
                        /\ next' >= Len(items) \/ next' = First(page' + 1))
BY DEF menu, FilledTo, HiddenBefore, Item, Start, FreeSlots, StaticsPerPage, First, NoItemHides, Visible

\* Which items the pages hold then.
LEMMA PagesDivideNext ==
  ASSUME UNCHANGED menu
  PROVE  PagesDivide' <=>
           (NoItemHides =>
              \A p \in DOMAIN shown' :
                {i \in 0..Len(items)-1 : <<"item", i>> \in Range(shown'[p])}
                  = {i \in 0..Len(items)-1 :
                       /\ First(p) <= i
                       /\ i < (IF p = page' /\ step' = "fill" THEN next' ELSE First(p + 1))})
BY DEF menu, PagesDivide, ItemsOn, NoItemHides, Visible, Item, First, StaticsPerPage

\* What a slot may show.
MayShow(s, content) ==
  \/ \E i \in 0..Len(items)-1 : content = <<"item", i>>
  \/ s < Rows /\ statics[s] # "none" /\ content = <<"static", s>>
  \/ content \in {<<"Next", 0>>, <<"Back", 0>>, <<"Exit", 0>>}

\* What is drawn and offered, with HasNext and DrawnAt written out ...
LEMMA KeysMatchNow ==
  KeysMatch <=>
    /\ \A p \in DOMAIN shown : \A s \in DOMAIN shown[p] : MayShow(s, shown[p][s])
    /\ page >= 0 =>
         /\ offered \subseteq DOMAIN shown[page]
         /\ \A s \in DOMAIN shown[page] :
              /\ slots[s] = shown[page][s]
              /\ slots[s] = <<"Next", 0>> => step = "idle" /\ Len(items) - hidden > next
              /\ slots[s] = <<"Back", 0>> => page > 0
         /\ \A s \in offered : \A i \in 0..Len(items)-1 :
              slots[s] = <<"item", i>> => items[i + 1] = "Enabled"
         /\ step = "idle" /\ Len(items) - hidden > next => slot \in offered /\ slots[slot] = <<"Next", 0>>
BY DEF KeysMatch, DrawnAt, MayShow, HasNext, Item

\* ... and in the next state.
LEMMA KeysMatchNext ==
  ASSUME UNCHANGED menu
  PROVE  KeysMatch' <=>
           /\ \A p \in DOMAIN shown' : \A s \in DOMAIN shown'[p] : MayShow(s, shown'[p][s])
           /\ page' >= 0 =>
                /\ offered' \subseteq DOMAIN shown'[page']
                /\ \A s \in DOMAIN shown'[page'] :
                     /\ slots'[s] = shown'[page'][s]
                     /\ slots'[s] = <<"Next", 0>> => step' = "idle" /\ Len(items) - hidden' > next'
                     /\ slots'[s] = <<"Back", 0>> => page' > 0
                /\ \A s \in offered' : \A i \in 0..Len(items)-1 :
                     slots'[s] = <<"item", i>> => items[i + 1] = "Enabled"
                /\ step' = "idle" /\ Len(items) - hidden' > next' =>
                     slot' \in offered' /\ slots'[slot'] = <<"Next", 0>>
BY DEF menu, KeysMatch, DrawnAt, MayShow, HasNext, Item

\* Which rows are drawn then.
LEMMA DrawnInOrderNext ==
  ASSUME UNCHANGED menu
  PROVE  DrawnInOrder' <=>
           /\ perPage <= Rows
           /\ \A s \in Slot : s >= Rows => statics[s] = "none"
           /\ page' = -1 => step' = "idle" /\ DOMAIN shown' = {}
           /\ page' >= 0 => page' \in DOMAIN shown'
           /\ step' = "fill" => slot' <= perPage
           /\ step' = "rest" => slot' <= Rows
           /\ page' >= 0 /\ step' = "idle" => slot' = Rows
           /\ step' # "idle" => DOMAIN shown'[page'] \subseteq 0..slot'-1
           /\ page' >= 0 =>
                \A s \in 0..Rows-1 :
                  s < slot' /\ statics[s] \notin {"none", "Hide"} =>
                    s \in DOMAIN shown'[page'] /\ shown'[page'][s] = <<"static", s>>
BY DEF menu, DrawnInOrder, PageDisplayed, Slot

----------------------------------------------------------------------------
(* Building the menu.                                                      *)

\* There is no page yet: a menu with other items is as good.
LEMMA BuildingKeeps ==
  ASSUME PagesIInv, Building, Idle,
         items' \in Seq(Status), Len(items') <= MaxItems,
         statics' \in [Slot -> StaticStatus \cup {"none"}],
         perPage' \in 0..Keys, perPage' <= Rows,
         \A s \in Slot : s >= Rows => statics'[s] = "none"
  PROVE  PagesIInv'
<1>1. page = -1 /\ step = "idle" /\ DOMAIN shown = {}
  BY DEF PagesIInv, DrawnInOrder, Building
<1>2. /\ page' = page /\ step' = step /\ slot' = slot /\ next' = next /\ hidden' = hidden
      /\ slots' = slots /\ offered' = offered /\ shown' = shown
  BY DEF Idle
<1>3. PagesTypeOK'
  BY <1>1, <1>2 DEF PagesIInv, PagesTypeOK, Slot, Content, NoContent
<1>4. DrawnInOrder'
  BY <1>1, <1>2 DEF DrawnInOrder, PageDisplayed, Slot
<1>5. KeysMatch' /\ FilledTo' /\ PagesDivide'
  BY <1>1, <1>2 DEF KeysMatch, FilledTo, PagesDivide
<1>6. QED
  BY <1>3, <1>4, <1>5 DEF PagesIInv

\* The sequences appendItem(), insertItem() and removeItem() leave.
LEMMA ItemsOf ==
  ASSUME NEW S, NEW s \in Seq(S), NEW status \in S
  PROVE  /\ Append(s, status) \in Seq(S) /\ Len(Append(s, status)) = Len(s) + 1
         /\ \A position \in 0..Len(s) : position < Len(s) =>
              /\ InsertAt(s, position + 1, status) \in Seq(S)
              /\ Len(InsertAt(s, position + 1, status)) = Len(s) + 1
<1>1. Append(s, status) \in Seq(S) /\ Len(Append(s, status)) = Len(s) + 1
  BY AppendProperties
<1>2. ASSUME NEW position \in 0..Len(s), position < Len(s)
      PROVE  /\ InsertAt(s, position + 1, status) \in Seq(S)
             /\ Len(InsertAt(s, position + 1, status)) = Len(s) + 1
  <2>1. Len(s) \in Nat /\ position \in Nat
    BY LenProperties
  <2> DEFINE before == SubSeq(s, 1, (position + 1) - 1)
             after == SubSeq(s, position + 1, Len(s))
  <2>2. before \in Seq(S) /\ Len(before) = position
    <3>1. \A k \in 1..position : s[k] \in S
      BY <1>2, <2>1, ElementOfSeq
    <3>2. QED
      BY <1>2, <2>1, <3>1, SubSeqProperties
  <2>3. after \in Seq(S) /\ Len(after) = Len(s) - position
    BY <1>2, <2>1, SubSeqProperties
  <2>4. <<status>> \in Seq(S) /\ Len(<<status>>) = 1
    OBVIOUS
  <2> HIDE DEF before, after
  <2>5. before \o <<status>> \in Seq(S) /\ Len(before \o <<status>>) = position + 1
    BY <2>1, <2>2, <2>4, ConcatProperties
  <2> DEFINE most == before \o <<status>>
  <2> HIDE DEF most
  <2>6. /\ most \o after \in Seq(S)
        /\ Len(most \o after) = Len(most) + Len(after)
    BY <2>3, <2>5, ConcatProperties DEF most
  <2>7. Len(most \o after) = Len(s) + 1
    BY <2>1, <2>3, <2>5, <2>6 DEF most
  <2>8. QED
    BY <2>6, <2>7 DEF InsertAt, most, before, after
<1>3. QED
  BY <1>1, <1>2

\* One less after removeItem().
LEMMA ItemsWithout ==
  ASSUME NEW S, NEW s \in Seq(S), NEW position \in Nat, position < Len(s)
  PROVE  /\ RemoveAt(s, position + 1) \in Seq(S)
         /\ Len(RemoveAt(s, position + 1)) = Len(s) - 1
<1>1. Len(s) \in Nat
  BY LenProperties
<1> DEFINE before == SubSeq(s, 1, (position + 1) - 1)
           after == SubSeq(s, (position + 1) + 1, Len(s))
<1>2. before \in Seq(S) /\ Len(before) = position
  BY <1>1, SubSeqProperties
<1>3. after \in Seq(S) /\ Len(after) = Len(s) - position - 1
  BY <1>1, SubSeqProperties
<1> HIDE DEF before, after
<1>4. before \o after \in Seq(S) /\ Len(before \o after) = Len(before) + Len(after)
  BY <1>2, <1>3, ConcatProperties
<1>5. Len(before \o after) = Len(s) - 1
  BY <1>1, <1>2, <1>3, <1>4
<1>6. QED
  BY <1>4, <1>5 DEF RemoveAt, before, after

\* Each native that changes the menu keeps the invariant.
LEMMA BuildKeeps ==
  ASSUME PagesIInv, PerPage \subseteq 0..Rows, Build
  PROVE  PagesIInv'
<1>1. /\ items \in Seq(Status) /\ Len(items) \in Nat /\ Len(items) <= MaxItems
      /\ statics \in [Slot -> StaticStatus \cup {"none"}]
      /\ perPage \in 0..Keys /\ perPage <= Rows
      /\ \A s \in Slot : s >= Rows => statics[s] = "none"
  BY DEF PagesIInv, PagesTypeOK, DrawnInOrder
<1>2. CASE MenuAddItem
  <2>1. PICK status \in Status : AppendItem(status)
    BY <1>2 DEF MenuAddItem
  <2>2. /\ items' = Append(items, status) /\ Len(items) < MaxItems /\ Building /\ Idle
        /\ statics' = statics /\ perPage' = perPage
    BY <2>1 DEF AppendItem
  <2>3. items' \in Seq(Status) /\ Len(items') <= MaxItems
    BY <1>1, <2>2, ItemsOf, RowsFit
  <2>4. QED
    BY <1>1, <2>2, <2>3, BuildingKeeps
<1>3. CASE MenuAddStaticItem
  <2>1. PICK position \in Slot, status \in StaticStatus : SetStaticItem(position, status)
    BY <1>3 DEF MenuAddStaticItem
  <2>2. /\ position < perPage /\ statics' = [statics EXCEPT ![position] = status]
        /\ Building /\ Idle /\ items' = items /\ perPage' = perPage
    BY <2>1 DEF SetStaticItem
  <2>3. /\ statics' \in [Slot -> StaticStatus \cup {"none"}]
        /\ \A s \in Slot : s >= Rows => statics'[s] = "none"
    BY <1>1, <2>2, RowsFit
  <2>4. QED
    BY <1>1, <2>2, <2>3, BuildingKeeps
<1>4. CASE MenuInsertItem
  <2>1. PICK position \in 0..Len(items), status \in Status : InsertItem(position, status)
    BY <1>4 DEF MenuInsertItem, MenuItemsGet
  <2>2. /\ items' = InsertAt(items, position + 1, status) /\ Len(items) < MaxItems
        /\ position < Len(items) /\ Building /\ Idle
        /\ statics' = statics /\ perPage' = perPage
    BY <2>1 DEF InsertItem, CanInsert
  <2>3. items' \in Seq(Status) /\ Len(items') <= MaxItems
    BY <1>1, <2>2, ItemsOf, RowsFit
  <2>4. QED
    BY <1>1, <2>2, <2>3, BuildingKeeps
<1>5. CASE MenuRemoveItem
  <2>1. PICK position \in 0..Len(items) : RemoveItem(position)
    BY <1>5 DEF MenuRemoveItem, MenuItemsGet
  <2>2. /\ items' = RemoveAt(items, position + 1)
        /\ position < Len(items) /\ Building /\ Idle
        /\ statics' = statics /\ perPage' = perPage
    BY <2>1 DEF RemoveItem
  <2>3. items' \in Seq(Status) /\ Len(items') = Len(items) - 1
    BY <1>1, <2>2, ItemsWithout
  <2>4. Len(items') <= MaxItems
    BY <1>1, <2>3, RowsFit
  <2>5. QED
    BY <1>1, <2>2, <2>3, <2>4, BuildingKeeps
<1>6. CASE RemoveAllItems
  <2>1. /\ items' = <<>> /\ Building /\ Idle /\ statics' = statics /\ perPage' = perPage
    BY <1>6 DEF RemoveAllItems
  <2>2. items' \in Seq(Status) /\ Len(items') <= MaxItems
    BY <2>1, RowsFit
  <2>3. QED
    BY <1>1, <2>1, <2>2, BuildingKeeps
<1>7. CASE MenuItemsPerPageSet
  <2>1. PICK value \in PerPage : SetItemsPerPage(value)
    BY <1>7 DEF MenuItemsPerPageSet
  <2>2. /\ perPage' = (IF value < Keys THEN value ELSE Keys)
        /\ Building /\ Idle /\ items' = items /\ statics' = statics
    BY <2>1 DEF SetItemsPerPage
  <2>3. perPage' \in 0..Keys /\ perPage' <= Rows
    BY <2>2, RowsFit
  <2>4. QED
    BY <1>1, <2>2, <2>3, BuildingKeeps
<1>8. QED
  BY <1>2, <1>3, <1>4, <1>5, <1>6, <1>7 DEF Build

----------------------------------------------------------------------------
(* A page begins.                                                          *)

\* Nothing is drawn of the page yet, and the pages before stay what they were.
LEMMA DisplayPageKeeps ==
  ASSUME PagesIInv, NEW p \in 0..MaxPage, DisplayPage(p)
  PROVE  PagesIInv'
<1>1. /\ items \in Seq(Status) /\ Len(items) \in Nat /\ Len(items) <= MaxItems
      /\ perPage \in 0..Keys /\ perPage \in Nat /\ p \in Nat /\ MaxPage \in Nat /\ MaxItems \in Nat
  BY RowsFit DEF PagesIInv, PagesTypeOK
<1>2. /\ step = "idle" /\ (p = 0 \/ p * perPage <= Len(items))
      /\ page' = p /\ step' = "fill" /\ slot' = 0 /\ next' = Start(p)
      /\ hidden' = (IF p = 0 THEN 0 ELSE HiddenBefore(p * perPage))
      /\ offered' = {}
      /\ shown' = [q \in DOMAIN shown \cup {p} |-> IF q = p THEN <<>> ELSE shown[q]]
      /\ UNCHANGED menu /\ slots' = slots
  BY DEF DisplayPage
<1>3. p * perPage <= Len(items)
  BY <1>1, <1>2
<1>4. PagesTypeOK
  BY DEF PagesIInv
<1>5. /\ First(p) \in Nat
      /\ First(p + 1) = First(p) + FreeSlots(perPage)
      /\ Start(p) = First(p) + HiddenBefore(p * perPage)
      /\ Start(p) \in Nat
      /\ HiddenBefore(p * perPage) \in 0..MaxItems
      /\ NoItemHides => HiddenBefore(p * perPage) = 0
      /\ p = 0 => HiddenBefore(p * perPage) = 0
  BY <1>3, <1>4, StartOfPage
<1>6. hidden' = HiddenBefore(p * perPage) /\ hidden' \in 0..MaxItems
  BY <1>2, <1>5
<1>7. FreeSlots(0) = 0
  BY <1>4, FreeSlotsStep
<1>8. /\ DOMAIN shown' = DOMAIN shown \cup {p}
      /\ shown'[p] = <<>> /\ DOMAIN shown'[p] = {} /\ Range(shown'[p]) = {}
      /\ \A q \in DOMAIN shown \ {p} : shown'[q] = shown[q]
  BY <1>2 DEF Range
<1>9. PagesTypeOK'
  <2>1. /\ items' \in Seq(Status) /\ Len(items') <= MaxItems
        /\ statics' \in [Slot -> StaticStatus \cup {"none"}] /\ perPage' \in 0..Keys
    BY <1>2, <1>4 DEF PagesTypeOK, menu
  <2>2. /\ page' \in -1..MaxPage /\ step' \in {"idle", "fill", "rest"}
        /\ slot' \in Nat /\ next' \in Nat /\ hidden' \in 0..MaxItems
        /\ offered' \subseteq Slot
    BY <1>1, <1>2, <1>5, <1>6
  <2>3. slots' \in [Slot -> Content \cup {NoContent}]
    BY <1>2, <1>4 DEF PagesTypeOK
  <2>4. /\ DOMAIN shown' \subseteq 0..MaxPage
        /\ \A q \in DOMAIN shown' : DOMAIN shown'[q] \subseteq Slot /\ Range(shown'[q]) \subseteq Content
    BY <1>4, <1>8 DEF PagesTypeOK
  <2>5. QED
    BY <2>1, <2>2, <2>3, <2>4 DEF PagesTypeOK, Slot, Content, NoContent
<1>10. DrawnInOrder'
  <2>1. perPage <= Rows /\ \A s \in Slot : s >= Rows => statics[s] = "none"
    BY DEF PagesIInv, DrawnInOrder
  <2>2. \A s \in 0..Rows-1 : ~(s < slot')
    BY <1>2
  <2>3. QED
    BY <1>1, <1>2, <1>8, <2>1, <2>2, DrawnInOrderNext
<1>11. KeysMatch'
  <2>1. \A q \in DOMAIN shown : \A s \in DOMAIN shown[q] : MayShow(s, shown[q][s])
    BY KeysMatchNow DEF PagesIInv
  <2>2. \A q \in DOMAIN shown' : \A s \in DOMAIN shown'[q] : MayShow(s, shown'[q][s])
    BY <1>8, <2>1
  <2>3. QED
    BY <1>2, <1>8, <2>2, KeysMatchNext
<1>12. FilledTo'
  <2>1. page' = p /\ step' = "fill" /\ slot' = 0 /\ next' = Start(p) /\ UNCHANGED menu
    BY <1>2
  <2>2. /\ next' >= Start(p) + FreeSlots(0)
        /\ NoItemHides => next' = First(p) + FreeSlots(0)
    BY <1>5, <1>7, <2>1
  <2>3. QED
    BY <1>3, <1>6, <2>1, <2>2, FilledToNext
<1>13. PagesDivide'
  <2>1. SUFFICES ASSUME NoItemHides, NEW q \in DOMAIN shown'
                 PROVE  {i \in 0..Len(items)-1 : <<"item", i>> \in Range(shown'[q])}
                          = {i \in 0..Len(items)-1 :
                               /\ First(q) <= i
                               /\ i < (IF q = page' /\ step' = "fill" THEN next' ELSE First(q + 1))}
    BY <1>2, PagesDivideNext
  <2>2. CASE q = p
    <3>1. next' = First(p)
      BY <1>2, <1>5, <2>1
    <3>2. QED
      BY <1>1, <1>2, <1>5, <1>8, <2>2, <3>1
  <2>3. CASE q # p
    <3>1. q \in DOMAIN shown /\ shown'[q] = shown[q]
      BY <1>8, <2>3
    <3>2. ItemsOn(q) = {i \in 0..Len(items)-1 : First(q) <= i /\ i < First(q + 1)}
      BY <1>2, <2>1, <3>1 DEF PagesIInv, PagesDivide
    <3>3. QED
      BY <1>2, <2>3, <3>1, <3>2 DEF ItemsOn
  <2>4. QED
    BY <2>2, <2>3
<1>14. QED
  BY <1>9, <1>10, <1>11, <1>12, <1>13 DEF PagesIInv

----------------------------------------------------------------------------
(* The slots are filled.                                                   *)

\* While display() runs it is at a page, and has not come to its slot.
LEMMA Drawing ==
  ASSUME PagesIInv, step # "idle"
  PROVE  /\ page \in 0..MaxPage /\ page \in Nat /\ page >= 0 /\ page \in DOMAIN shown
         /\ slot \in Nat /\ next \in Nat /\ slot \notin DOMAIN shown[page]
         /\ DOMAIN shown[page] \subseteq 0..slot-1 /\ DOMAIN shown[page] \subseteq Slot
         /\ Len(items) \in Nat /\ Len(items) <= MaxItems /\ perPage \in Nat /\ perPage <= Rows
         /\ step = "fill" => slot <= perPage
         /\ step = "rest" => slot <= Rows
         /\ Rows \in Nat
<1>1. page \in -1..MaxPage /\ page # -1
  BY DEF PagesIInv, PagesTypeOK, DrawnInOrder
<1>2. page \in 0..MaxPage /\ page \in Nat /\ page >= 0
  BY <1>1, RowsFit
<1>3. page \in DOMAIN shown /\ DOMAIN shown[page] \subseteq 0..slot-1
  BY <1>2 DEF PagesIInv, DrawnInOrder
<1>4. /\ slot \in Nat /\ next \in Nat /\ Len(items) \in Nat /\ Len(items) <= MaxItems /\ perPage \in 0..Keys
      /\ DOMAIN shown[page] \subseteq Slot
  BY <1>3 DEF PagesIInv, PagesTypeOK
<1>5. slot \notin DOMAIN shown[page]
  BY <1>3, <1>4
<1>6. perPage \in Nat
  BY <1>4, RowsFit
<1>7. perPage <= Rows /\ (step = "fill" => slot <= perPage) /\ (step = "rest" => slot <= Rows)
  BY DEF PagesIInv, DrawnInOrder
<1>8. QED
  BY <1>2, <1>3, <1>4, <1>5, <1>6, <1>7, RowsFit

\* A slot gets its content.
LEMMA PutEffect ==
  ASSUME PagesTypeOK, page \in DOMAIN shown, slot \in Slot, slot \notin DOMAIN shown[page],
         NEW content \in Content, NEW status, Put(content, status)
  PROVE  /\ slots' \in [Slot -> Content \cup {NoContent}]
         /\ slots'[slot] = content /\ \A s \in Slot \ {slot} : slots'[s] = slots[s]
         /\ offered' \subseteq Slot
         /\ \A s \in offered' : s \in offered \/ (s = slot /\ status = "Enabled")
         /\ slot' = slot + 1
         /\ DOMAIN shown' = DOMAIN shown
         /\ DOMAIN shown'[page] = DOMAIN shown[page] \cup {slot}
         /\ shown'[page][slot] = content
         /\ \A s \in DOMAIN shown[page] : shown'[page][s] = shown[page][s]
         /\ \A p \in DOMAIN shown \ {page} : shown'[p] = shown[p]
         /\ Range(shown'[page]) = Range(shown[page]) \cup {content}
<1>1. /\ slots' = [slots EXCEPT ![slot] = content]
      /\ offered' = (IF status = "Enabled" THEN offered \cup {slot} ELSE offered)
      /\ shown' = [shown EXCEPT ![page] = Over(shown[page], [s \in {slot} |-> content])]
      /\ slot' = slot + 1
  BY DEF Put
<1>2. /\ slots' \in [Slot -> Content \cup {NoContent}]
      /\ slots'[slot] = content /\ \A s \in Slot \ {slot} : slots'[s] = slots[s]
  BY <1>1 DEF PagesTypeOK
<1>3. offered' \subseteq Slot /\ \A s \in offered' : s \in offered \/ (s = slot /\ status = "Enabled")
  BY <1>1 DEF PagesTypeOK
<1> DEFINE now == Over(shown[page], [s \in {slot} |-> content])
<1>4. /\ DOMAIN now = DOMAIN shown[page] \cup {slot}
      /\ now[slot] = content
      /\ \A s \in DOMAIN shown[page] : now[s] = shown[page][s]
  BY DEF Over
<1> HIDE DEF now
<1>5. shown' = [shown EXCEPT ![page] = now]
  BY <1>1 DEF now
<1>6. /\ DOMAIN shown' = DOMAIN shown /\ shown'[page] = now
      /\ \A p \in DOMAIN shown \ {page} : shown'[p] = shown[p]
  BY <1>5
<1>7. Range(shown'[page]) = Range(shown[page]) \cup {content}
  BY <1>4, <1>6 DEF Range
<1>8. QED
  BY <1>1, <1>2, <1>3, <1>4, <1>6, <1>7

\* A row gets an item or its static item: what can go wrong whatever the items
\* drawn before.
LEMMA PutKeeps ==
  ASSUME PagesIInv, step # "idle", slot \in Slot, slot < Rows,
         NEW kind \in {"item", "static"}, NEW i \in Nat, NEW status, Put(<<kind, i>>, status),
         kind = "item" => i < Len(items) /\ status = items[i + 1] /\ statics[slot] = "none",
         kind = "static" => i = slot /\ statics[slot] # "none",
         step = "fill" => slot < perPage,
         UNCHANGED <<menu, page, step, hidden>>, next' \in Nat
  PROVE  PagesTypeOK' /\ DrawnInOrder' /\ KeysMatch'
<1> DEFINE content == <<kind, i>>
<1>1. /\ page \in 0..MaxPage /\ page \in Nat /\ page >= 0 /\ page \in DOMAIN shown
      /\ slot \in Nat /\ next \in Nat /\ slot \notin DOMAIN shown[page]
      /\ DOMAIN shown[page] \subseteq 0..slot-1 /\ DOMAIN shown[page] \subseteq Slot
      /\ Len(items) \in Nat /\ Len(items) <= MaxItems /\ perPage \in Nat /\ perPage <= Rows
      /\ Rows \in Nat
  BY Drawing
<1>2. /\ items' = items /\ statics' = statics /\ perPage' = perPage
      /\ page' = page /\ step' = step /\ hidden' = hidden /\ UNCHANGED menu
  BY DEF menu
<1>3. i <= MaxItems + Keys
  BY <1>1, RowsFit
<1>4. content \in Content
  BY <1>3, RowsFit DEF Content
<1>5. content[1] = kind /\ content[2] = i /\ content # <<"Next", 0>> /\ content # <<"Back", 0>>
  OBVIOUS
<1>6. MayShow(slot, content)
  BY <1>1 DEF MayShow
<1>7. kind = "item" => i \in 0..Len(items)-1
  BY <1>1
<1>8. \A j \in 0..Len(items)-1 : content = <<"item", j>> => status = items[j + 1]
  OBVIOUS
<1>9. statics[slot] \notin {"none", "Hide"} => content = <<"static", slot>>
  OBVIOUS
<1> HIDE DEF content
<1>10. PagesTypeOK /\ Put(content, status)
  BY DEF PagesIInv, content
<1>11. /\ slots' \in [Slot -> Content \cup {NoContent}]
       /\ slots'[slot] = content /\ \A s \in Slot \ {slot} : slots'[s] = slots[s]
       /\ offered' \subseteq Slot
       /\ \A s \in offered' : s \in offered \/ (s = slot /\ status = "Enabled")
       /\ slot' = slot + 1
       /\ DOMAIN shown' = DOMAIN shown
       /\ DOMAIN shown'[page] = DOMAIN shown[page] \cup {slot}
       /\ shown'[page][slot] = content
       /\ \A s \in DOMAIN shown[page] : shown'[page][s] = shown[page][s]
       /\ \A p \in DOMAIN shown \ {page} : shown'[p] = shown[p]
       /\ Range(shown'[page]) = Range(shown[page]) \cup {content}
  BY <1>1, <1>4, <1>10, PutEffect
<1>12. PagesTypeOK'
  <2>1. \A p \in DOMAIN shown' : DOMAIN shown'[p] \subseteq Slot /\ Range(shown'[p]) \subseteq Content
    <3>1. TAKE p \in DOMAIN shown'
    <3>2. p \in DOMAIN shown /\ DOMAIN shown[p] \subseteq Slot /\ Range(shown[p]) \subseteq Content
      BY <1>10, <1>11 DEF PagesTypeOK
    <3>3. CASE p = page
      BY <1>4, <1>11, <3>2, <3>3
    <3>4. CASE p # page
      BY <1>11, <3>2, <3>4
    <3>5. QED
      BY <3>3, <3>4
  <2>2. slot' \in Nat /\ next' \in Nat
    BY <1>1, <1>11
  <2>3. DOMAIN shown' \subseteq 0..MaxPage
    BY <1>10, <1>11 DEF PagesTypeOK
  <2>4. QED
    BY <1>2, <1>10, <1>11, <2>1, <2>2, <2>3 DEF PagesTypeOK, Slot, Content, NoContent
<1>13. DrawnInOrder'
  <2>1. /\ \A s \in Slot : s >= Rows => statics[s] = "none"
        /\ \A s \in 0..Rows-1 :
             s < slot /\ statics[s] \notin {"none", "Hide"} =>
               s \in DOMAIN shown[page] /\ shown[page][s] = <<"static", s>>
    BY <1>1 DEF PagesIInv, DrawnInOrder
  <2>2. \A s \in 0..Rows-1 :
          s < slot' /\ statics[s] \notin {"none", "Hide"} =>
            s \in DOMAIN shown'[page] /\ shown'[page][s] = <<"static", s>>
    <3>1. SUFFICES ASSUME NEW s \in 0..Rows-1, s < slot', statics[s] \notin {"none", "Hide"}
                   PROVE  s \in DOMAIN shown'[page] /\ shown'[page][s] = <<"static", s>>
      OBVIOUS
    <3>2. CASE s = slot
      BY <1>9, <1>11, <3>1, <3>2
    <3>3. CASE s # slot
      <4>1. s < slot
        BY <1>1, <1>11, <3>1, <3>3
      <4>2. QED
        BY <1>11, <2>1, <3>1, <4>1
    <3>4. QED
      BY <3>2, <3>3
  <2>3. DOMAIN shown'[page] \subseteq 0..slot'-1
    BY <1>1, <1>11
  <2>4. (step' = "fill" => slot' <= perPage) /\ (step' = "rest" => slot' <= Rows)
    BY <1>1, <1>2, <1>11
  <2>5. QED
    BY <1>1, <1>2, <1>11, <2>1, <2>2, <2>3, <2>4, DrawnInOrderNext
<1>14. KeysMatch'
  <2>1. /\ \A p \in DOMAIN shown : \A s \in DOMAIN shown[p] : MayShow(s, shown[p][s])
        /\ offered \subseteq DOMAIN shown[page]
        /\ \A s \in DOMAIN shown[page] :
             /\ slots[s] = shown[page][s]
             /\ slots[s] = <<"Next", 0>> => step = "idle"
             /\ slots[s] = <<"Back", 0>> => page > 0
        /\ \A s \in offered : \A j \in 0..Len(items)-1 :
             slots[s] = <<"item", j>> => items[j + 1] = "Enabled"
    BY <1>1, KeysMatchNow DEF PagesIInv
  <2>2. \A p \in DOMAIN shown' : \A s \in DOMAIN shown'[p] : MayShow(s, shown'[p][s])
    BY <1>6, <1>11, <2>1
  <2>3. offered' \subseteq DOMAIN shown'[page]
    <3>1. slot \in DOMAIN shown'[page] /\ DOMAIN shown[page] \subseteq DOMAIN shown'[page]
      BY <1>11
    <3>2. QED
      BY <1>11, <2>1, <3>1
  <2>4. \A s \in DOMAIN shown'[page] :
          slots'[s] = shown'[page][s] /\ slots'[s] # <<"Next", 0>> /\ (slots'[s] = <<"Back", 0>> => page > 0)
    <3>1. TAKE s \in DOMAIN shown'[page]
    <3>2. CASE s = slot
      BY <1>5, <1>11, <3>2 DEF content
    <3>3. CASE s # slot
      <4>1. s \in DOMAIN shown[page] /\ s \in Slot \ {slot}
        BY <1>1, <1>11, <3>3
      <4>2. slots'[s] = slots[s] /\ shown'[page][s] = shown[page][s]
        BY <1>11, <4>1
      <4>3. QED
        BY <2>1, <4>1, <4>2
    <3>4. QED
      BY <3>2, <3>3
  <2>5. \A s \in offered' : \A j \in 0..Len(items)-1 :
          slots'[s] = <<"item", j>> => items[j + 1] = "Enabled"
    <3>1. TAKE s \in offered'
    <3>2. CASE s = slot
      <4>1. slot \notin offered
        BY <1>1, <2>1
      <4>2. status = "Enabled" /\ slots'[s] = content
        BY <1>11, <3>2, <4>1
      <4>3. QED
        BY <1>8, <4>2 DEF content
    <3>3. CASE s # slot
      <4>1. s \in offered /\ s \in Slot \ {slot} /\ slots'[s] = slots[s]
        BY <1>11, <3>3
      <4>2. QED
        BY <2>1, <4>1
    <3>4. QED
      BY <3>2, <3>3
  <2>6. step' # "idle" /\ page' = page /\ UNCHANGED menu
    BY <1>2
  <2>7. QED
    BY <2>2, <2>3, <2>4, <2>5, <2>6, KeysMatchNext
<1>15. QED
  BY <1>12, <1>13, <1>14

\* The items the page shows after a row got its content.
LEMMA PutDraws ==
  ASSUME PagesIInv, step # "idle", slot \in Slot,
         NEW kind \in {"item", "static"}, NEW i \in 0..MaxItems + Keys, NEW status, Put(<<kind, i>>, status)
  PROVE  /\ slot' = slot + 1 /\ DOMAIN shown' = DOMAIN shown
         /\ \A p \in DOMAIN shown \ {page} : shown'[p] = shown[p]
         /\ \A j \in 0..Len(items)-1 :
              <<"item", j>> \in Range(shown'[page]) <=> (j \in ItemsOn(page) \/ (kind = "item" /\ j = i))
<1>1. PagesTypeOK /\ page \in DOMAIN shown /\ slot \notin DOMAIN shown[page]
  BY Drawing DEF PagesIInv
<1>2. <<kind, i>> \in Content
  BY DEF Content
<1>3. /\ slot' = slot + 1 /\ DOMAIN shown' = DOMAIN shown
      /\ \A p \in DOMAIN shown \ {page} : shown'[p] = shown[p]
      /\ Range(shown'[page]) = Range(shown[page]) \cup {<<kind, i>>}
  BY <1>1, <1>2, PutEffect
<1>4. ASSUME NEW j \in 0..Len(items)-1
      PROVE  <<"item", j>> \in Range(shown'[page]) <=> (j \in ItemsOn(page) \/ (kind = "item" /\ j = i))
  <2>1. j \in ItemsOn(page) <=> <<"item", j>> \in Range(shown[page])
    BY DEF ItemsOn
  <2>2. <<"item", j>> = <<kind, i>> <=> (kind = "item" /\ j = i)
    OBVIOUS
  <2>3. QED
    BY <1>3, <2>1, <2>2
<1>5. QED
  BY <1>3, <1>4

\* What the loops need to know of the page they fill.
LEMMA FillingPage ==
  ASSUME PagesIInv, step # "idle"
  PROVE  /\ page * perPage <= Len(items) /\ hidden = HiddenBefore(page * perPage)
         /\ First(page) \in Nat /\ First(page + 1) = First(page) + FreeSlots(perPage)
         /\ Start(page) \in Nat /\ FreeSlots(perPage) \in Nat
         /\ step = "fill" => next >= Start(page) + FreeSlots(slot)
         /\ step # "fill" => next >= Len(items) \/ next >= Start(page) + FreeSlots(perPage)
         /\ NoItemHides =>
              /\ step = "fill" => next = First(page) + FreeSlots(slot)
              /\ step # "fill" =>
                   /\ next <= First(page + 1)
                   /\ next >= Len(items) \/ next = First(page + 1)
         /\ \A s \in Slot : FreeSlots(s) \in Nat
         /\ \A s \in Slot : FreeSlots(s + 1) = FreeSlots(s) + (IF statics[s] = "none" THEN 1 ELSE 0)
         /\ step = "fill" => FreeSlots(slot) \in Nat /\ FreeSlots(slot) <= FreeSlots(perPage)
<1>1. page \in 0..MaxPage /\ page >= 0 /\ (step = "fill" => slot \in 0..perPage) /\ perPage \in 0..Keys
  BY Drawing DEF PagesIInv, PagesTypeOK
<1>2. /\ page * perPage <= Len(items) /\ hidden = HiddenBefore(page * perPage)
      /\ step = "fill" => next >= Start(page) + FreeSlots(slot)
      /\ step # "fill" => next >= Len(items) \/ next >= Start(page) + FreeSlots(perPage)
      /\ NoItemHides =>
           /\ step = "fill" => next = First(page) + FreeSlots(slot)
           /\ step # "fill" =>
                /\ next <= First(page + 1)
                /\ next >= Len(items) \/ next = First(page + 1)
  BY <1>1 DEF PagesIInv, FilledTo
<1>3. PagesTypeOK
  BY DEF PagesIInv
<1>4. First(page) \in Nat /\ First(page + 1) = First(page) + FreeSlots(perPage) /\ Start(page) \in Nat
  BY <1>1, <1>2, <1>3, StartOfPage
<1>5. /\ \A n \in 0..Keys : FreeSlots(n) \in Nat
      /\ \A s \in Slot : FreeSlots(s + 1) = FreeSlots(s) + (IF statics[s] = "none" THEN 1 ELSE 0)
  BY <1>3, FreeSlotsStep
<1>6. FreeSlots(perPage) \in Nat /\ \A s \in Slot : FreeSlots(s) \in Nat
  BY <1>1, <1>5, RowsFit
<1>7. step = "fill" => FreeSlots(slot) \in Nat /\ FreeSlots(slot) <= FreeSlots(perPage)
  <2>1. SUFFICES ASSUME step = "fill" PROVE FreeSlots(slot) \in Nat /\ FreeSlots(slot) <= FreeSlots(perPage)
    OBVIOUS
  <2>2. slot \in 0..perPage /\ slot \in 0..Keys
    BY <1>1, <2>1, RowsFit
  <2>3. QED
    BY <1>3, <1>5, <2>2, FreeSlotsMonotone
<1>8. QED
  BY <1>2, <1>4, <1>5, <1>6, <1>7

\* The first loop draws the static item of its slot, and no item.
LEMMA FillStaticKeeps ==
  ASSUME PagesIInv, FillStatic
  PROVE  PagesIInv'
<1>1. /\ step = "fill" /\ slot < perPage /\ next < Len(items)
      /\ statics[slot] \notin {"none", "Hide"} /\ Put(<<"static", slot>>, statics[slot])
      /\ UNCHANGED <<menu, page, step, hidden>> /\ next' = next
  BY DEF FillStatic, Filling
<1>2. slot \in Nat /\ slot < Rows /\ slot \in Slot /\ next \in Nat /\ page >= 0 /\ slot \in 0..MaxItems + Keys
  BY <1>1, Drawing, RowsFit
<1>3. PagesTypeOK' /\ DrawnInOrder' /\ KeysMatch'
  BY <1>1, <1>2, PutKeeps
<1>4. /\ slot' = slot + 1 /\ DOMAIN shown' = DOMAIN shown
      /\ \A p \in DOMAIN shown \ {page} : shown'[p] = shown[p]
      /\ \A j \in 0..Len(items)-1 : <<"item", j>> \in Range(shown'[page]) <=> j \in ItemsOn(page)
  BY <1>1, <1>2, PutDraws
<1>5. FreeSlots(slot + 1) = FreeSlots(slot)
  BY <1>1, <1>2, FillingPage
<1>6. FilledTo'
  <2>1. /\ page' * perPage <= Len(items) /\ hidden' = HiddenBefore(page' * perPage)
        /\ next' >= Start(page') + FreeSlots(slot + 1)
        /\ NoItemHides => next' = First(page') + FreeSlots(slot + 1)
    BY <1>1, <1>5, FillingPage
  <2>2. UNCHANGED menu /\ step' = "fill" /\ slot' = slot + 1
    BY <1>1, <1>4
  <2>3. QED
    BY <2>1, <2>2, FilledToNext
<1>7. PagesDivide'
  <2>1. SUFFICES ASSUME NoItemHides, NEW p \in DOMAIN shown'
                 PROVE  {i \in 0..Len(items)-1 : <<"item", i>> \in Range(shown'[p])}
                          = {i \in 0..Len(items)-1 :
                               /\ First(p) <= i
                               /\ i < (IF p = page' /\ step' = "fill" THEN next' ELSE First(p + 1))}
    BY <1>1, PagesDivideNext
  <2>2. ItemsOn(p) = {i \in 0..Len(items)-1 :
                        First(p) <= i /\ i < (IF p = page' /\ step' = "fill" THEN next' ELSE First(p + 1))}
    BY <1>1, <1>4, <2>1 DEF PagesIInv, PagesDivide
  <2>3. {i \in 0..Len(items)-1 : <<"item", i>> \in Range(shown'[p])} = ItemsOn(p)
    <3>1. CASE p = page
      BY <1>4, <3>1 DEF ItemsOn
    <3>2. CASE p # page
      BY <1>4, <2>1, <3>2 DEF ItemsOn
    <3>3. QED
      BY <3>1, <3>2
  <2>4. QED
    BY <2>2, <2>3
<1>8. QED
  BY <1>3, <1>6, <1>7 DEF PagesIInv

\* It draws the next item in a free slot ...
LEMMA FillItemKeeps ==
  ASSUME PagesIInv, FillItem
  PROVE  PagesIInv'
<1>1. /\ step = "fill" /\ slot < perPage /\ next < Len(items)
      /\ statics[slot] = "none" /\ Put(<<"item", next>>, items[next + 1])
      /\ UNCHANGED <<menu, page, step, hidden>> /\ next' = next + 1
  BY DEF FillItem, Filling, Item
<1>2. /\ slot \in Nat /\ slot < Rows /\ slot \in Slot /\ page \in DOMAIN shown
      /\ next \in Nat /\ next' \in Nat /\ page >= 0 /\ next \in 0..MaxItems + Keys
      /\ Len(items) \in Nat
  BY <1>1, Drawing, RowsFit
<1>3. PagesTypeOK' /\ DrawnInOrder' /\ KeysMatch'
  BY <1>1, <1>2, PutKeeps
<1>4. /\ slot' = slot + 1 /\ DOMAIN shown' = DOMAIN shown
      /\ \A p \in DOMAIN shown \ {page} : shown'[p] = shown[p]
      /\ \A j \in 0..Len(items)-1 : <<"item", j>> \in Range(shown'[page]) <=> (j \in ItemsOn(page) \/ j = next)
  BY <1>1, <1>2, PutDraws
<1>5. FreeSlots(slot + 1) = FreeSlots(slot) + 1 /\ FreeSlots(slot) \in Nat
  BY <1>1, <1>2, FillingPage
<1>6. FilledTo'
  <2>1. /\ page * perPage <= Len(items) /\ hidden = HiddenBefore(page * perPage)
        /\ Start(page) \in Nat /\ next >= Start(page) + FreeSlots(slot)
        /\ First(page) \in Nat /\ (NoItemHides => next = First(page) + FreeSlots(slot))
    BY <1>1, FillingPage
  <2>2. next' >= Start(page) + FreeSlots(slot + 1)
    BY <1>1, <1>2, <1>5, <2>1
  <2>3. NoItemHides => next' = First(page) + FreeSlots(slot + 1)
    BY <1>1, <1>2, <1>5, <2>1
  <2>4. UNCHANGED menu /\ page' = page /\ hidden' = hidden /\ step' = "fill" /\ slot' = slot + 1
    BY <1>1, <1>4
  <2>5. QED
    BY <2>1, <2>2, <2>3, <2>4, FilledToNext
<1>7. PagesDivide'
  <2>1. SUFFICES ASSUME NoItemHides, NEW p \in DOMAIN shown'
                 PROVE  {i \in 0..Len(items)-1 : <<"item", i>> \in Range(shown'[p])}
                          = {i \in 0..Len(items)-1 :
                               /\ First(p) <= i
                               /\ i < (IF p = page' /\ step' = "fill" THEN next' ELSE First(p + 1))}
    BY <1>1, PagesDivideNext
  <2>2. CASE p = page
    <3>1. ItemsOn(page) = {i \in 0..Len(items)-1 : First(page) <= i /\ i < next}
      BY <1>1, <1>2, <2>1 DEF PagesIInv, PagesDivide
    <3>2. First(page) \in Nat /\ First(page) <= next
      BY <1>1, <1>2, <1>5, <2>1, FillingPage
    <3>3. ASSUME NEW j \in 0..Len(items)-1
          PROVE  <<"item", j>> \in Range(shown'[page]) <=> (First(page) <= j /\ j < next + 1)
      <4>1. <<"item", j>> \in Range(shown'[page]) <=> (j \in ItemsOn(page) \/ j = next)
        BY <1>4
      <4>2. j \in ItemsOn(page) <=> (First(page) <= j /\ j < next)
        BY <3>1
      <4>3. (First(page) <= j /\ j < next + 1) <=> ((First(page) <= j /\ j < next) \/ j = next)
        BY <1>2, <3>2
      <4>4. QED
        BY <4>1, <4>2, <4>3
    <3>4. QED
      BY <1>1, <2>2, <3>3
  <2>3. CASE p # page
    <3>1. shown'[p] = shown[p] /\ p \in DOMAIN shown
      BY <1>4, <2>1, <2>3
    <3>2. ItemsOn(p) = {i \in 0..Len(items)-1 : First(p) <= i /\ i < First(p + 1)}
      BY <2>1, <2>3, <3>1 DEF PagesIInv, PagesDivide
    <3>3. QED
      BY <1>1, <2>3, <3>1, <3>2 DEF ItemsOn
  <2>4. QED
    BY <2>2, <2>3
<1>8. QED
  BY <1>3, <1>6, <1>7 DEF PagesIInv

\* ... and goes past one that hides, which there is none of when the pages are
\* counted.
LEMMA SkipHiddenKeeps ==
  ASSUME PagesIInv, SkipHidden
  PROVE  PagesIInv'
<1>1. /\ step = "fill" /\ slot < perPage /\ next < Len(items) /\ Item(next) = "Hide"
      /\ UNCHANGED <<menu, page, step, slot, hidden, slots, offered, shown>> /\ next' = next + 1
      /\ UNCHANGED menu
  BY DEF SkipHidden, Filling
<1>2. /\ items' = items /\ statics' = statics /\ perPage' = perPage
      /\ page' = page /\ step' = step /\ slot' = slot /\ hidden' = hidden
      /\ slots' = slots /\ offered' = offered /\ shown' = shown
  BY <1>1 DEF menu
<1>3. next \in Nat /\ page >= 0 /\ Len(items) \in Nat
  BY <1>1, Drawing
<1>4. ~NoItemHides
  <2>1. next \in 0..Len(items)-1 /\ next \notin Visible
    BY <1>1, <1>3 DEF Visible
  <2>2. QED
    BY <2>1 DEF NoItemHides
<1>5. PagesTypeOK'
  BY <1>1, <1>2, <1>3 DEF PagesIInv, PagesTypeOK, Slot, Content, NoContent
<1>6. DrawnInOrder'
  BY <1>1, <1>2 DEF PagesIInv, DrawnInOrder, PageDisplayed, Slot
<1>7. KeysMatch'
  <2>1. /\ \A p \in DOMAIN shown : \A s \in DOMAIN shown[p] : MayShow(s, shown[p][s])
        /\ offered \subseteq DOMAIN shown[page]
        /\ \A s \in DOMAIN shown[page] :
             slots[s] = shown[page][s] /\ slots[s] # <<"Next", 0>> /\ (slots[s] = <<"Back", 0>> => page > 0)
        /\ \A s \in offered : \A i \in 0..Len(items)-1 :
             slots[s] = <<"item", i>> => items[i + 1] = "Enabled"
    BY <1>1, <1>3, KeysMatchNow DEF PagesIInv
  <2>2. QED
    BY <1>1, <1>2, <2>1, KeysMatchNext
<1>8. FilledTo'
  <2>1. /\ page * perPage <= Len(items) /\ hidden = HiddenBefore(page * perPage)
        /\ Start(page) \in Nat /\ next >= Start(page) + FreeSlots(slot) /\ FreeSlots(slot) \in Nat
    BY <1>1, FillingPage
  <2>2. next' >= Start(page) + FreeSlots(slot)
    BY <1>1, <1>3, <2>1
  <2>3. QED
    BY <1>1, <1>2, <1>4, <2>1, <2>2, FilledToNext
<1>9. PagesDivide'
  BY <1>1, <1>4, PagesDivideNext
<1>10. QED
  BY <1>5, <1>6, <1>7, <1>8, <1>9 DEF PagesIInv

\* When the first loop ends the page is full or there is no other item.
LEMMA FillEndsKeeps ==
  ASSUME PagesIInv, FillEnds
  PROVE  PagesIInv'
<1>1. /\ step = "fill" /\ ~(slot < perPage /\ next < Len(items)) /\ step' = "rest"
      /\ UNCHANGED menu
      /\ page' = page /\ slot' = slot /\ next' = next /\ hidden' = hidden
      /\ slots' = slots /\ offered' = offered /\ shown' = shown
  BY DEF FillEnds, Filling
<1>2. items' = items /\ statics' = statics /\ perPage' = perPage
  BY <1>1 DEF menu
<1>3. /\ slot \in Nat /\ next \in Nat /\ page >= 0 /\ page \in Nat /\ Len(items) \in Nat
      /\ perPage \in Nat /\ slot <= perPage /\ perPage <= Rows /\ Rows \in Nat
  BY <1>1, Drawing
<1>4. PagesTypeOK'
  BY <1>1, <1>2 DEF PagesIInv, PagesTypeOK, Slot, Content, NoContent
<1>5. DrawnInOrder'
  <2>1. slot <= Rows
    BY <1>3
  <2>2. QED
    BY <1>1, <1>2, <1>3, <2>1 DEF PagesIInv, DrawnInOrder, PageDisplayed, Slot
<1>6. KeysMatch'
  <2>1. /\ \A p \in DOMAIN shown : \A s \in DOMAIN shown[p] : MayShow(s, shown[p][s])
        /\ offered \subseteq DOMAIN shown[page]
        /\ \A s \in DOMAIN shown[page] :
             slots[s] = shown[page][s] /\ slots[s] # <<"Next", 0>> /\ (slots[s] = <<"Back", 0>> => page > 0)
        /\ \A s \in offered : \A i \in 0..Len(items)-1 :
             slots[s] = <<"item", i>> => items[i + 1] = "Enabled"
    BY <1>1, <1>3, KeysMatchNow DEF PagesIInv
  <2>2. QED
    BY <1>1, <2>1, KeysMatchNext
<1>7. /\ page * perPage <= Len(items) /\ hidden = HiddenBefore(page * perPage)
      /\ Start(page) \in Nat /\ FreeSlots(slot) \in Nat /\ FreeSlots(perPage) \in Nat
      /\ FreeSlots(slot) <= FreeSlots(perPage)
      /\ next >= Start(page) + FreeSlots(slot)
      /\ First(page) \in Nat /\ First(page + 1) = First(page) + FreeSlots(perPage)
      /\ NoItemHides => next = First(page) + FreeSlots(slot)
  BY <1>1, FillingPage
<1>8. next >= Len(items) \/ slot = perPage
  BY <1>1, <1>3
<1>9. next >= Len(items) \/ next >= Start(page) + FreeSlots(perPage)
  BY <1>7, <1>8
<1>10. NoItemHides => next <= First(page + 1) /\ (next >= Len(items) \/ next = First(page + 1))
  <2>1. NoItemHides => next <= First(page + 1)
    BY <1>3, <1>7
  <2>2. NoItemHides => (next >= Len(items) \/ next = First(page + 1))
    BY <1>7, <1>8
  <2>3. QED
    BY <2>1, <2>2
<1>11. FilledTo'
  <2>1. step' # "fill" /\ UNCHANGED menu
    BY <1>1
  <2>2. QED
    BY <1>1, <1>7, <1>9, <1>10, <2>1, FilledToNext
<1>12. PagesDivide'
  <2>1. SUFFICES ASSUME NoItemHides, NEW p \in DOMAIN shown
                 PROVE  ItemsOn(p) = {i \in 0..Len(items)-1 : First(p) <= i /\ i < First(p + 1)}
    BY <1>1, PagesDivideNext DEF ItemsOn
  <2>2. ItemsOn(p) = {i \in 0..Len(items)-1 : First(p) <= i /\ i < (IF p = page THEN next ELSE First(p + 1))}
    BY <1>1, <2>1 DEF PagesIInv, PagesDivide
  <2>3. CASE p = page
    <3>1. \A i \in 0..Len(items)-1 : i < next <=> i < First(p + 1)
      BY <1>3, <1>7, <1>10, <2>1, <2>3
    <3>2. QED
      BY <2>2, <2>3, <3>1
  <2>4. CASE p # page
    BY <2>2, <2>4
  <2>5. QED
    BY <2>3, <2>4
<1>13. QED
  BY <1>4, <1>5, <1>6, <1>11, <1>12 DEF PagesIInv

\* What comes after the first loop draws no items.
LEMMA FilledStays ==
  ASSUME PagesIInv, step = "rest", step' # "fill",
         UNCHANGED menu, page' = page, hidden' = hidden, next' = next
  PROVE  FilledTo'
<1>1. /\ page * perPage <= Len(items) /\ hidden = HiddenBefore(page * perPage)
      /\ next >= Len(items) \/ next >= Start(page) + FreeSlots(perPage)
      /\ NoItemHides => next <= First(page + 1) /\ (next >= Len(items) \/ next = First(page + 1))
  BY FillingPage
<1>2. QED
  BY <1>1, FilledToNext

\* The second loop draws the static items of the rows that are left.
LEMMA RestStaticKeeps ==
  ASSUME PagesIInv, RestStatic
  PROVE  PagesIInv'
<1>1. /\ step = "rest" /\ slot < Rows
      /\ statics[slot] \notin {"none", "Hide"} /\ Put(<<"static", slot>>, statics[slot])
      /\ UNCHANGED <<menu, page, step, hidden>> /\ next' = next
  BY DEF RestStatic
<1>2. slot \in Nat /\ slot \in Slot /\ next \in Nat /\ page >= 0 /\ slot \in 0..MaxItems + Keys
  BY <1>1, Drawing, RowsFit
<1>3. PagesTypeOK' /\ DrawnInOrder' /\ KeysMatch'
  BY <1>1, <1>2, PutKeeps
<1>4. /\ slot' = slot + 1 /\ DOMAIN shown' = DOMAIN shown
      /\ \A p \in DOMAIN shown \ {page} : shown'[p] = shown[p]
      /\ \A j \in 0..Len(items)-1 : <<"item", j>> \in Range(shown'[page]) <=> j \in ItemsOn(page)
  BY <1>1, <1>2, PutDraws
<1>5. FilledTo'
  BY <1>1, FilledStays
<1>6. PagesDivide'
  <2>1. SUFFICES ASSUME NoItemHides, NEW p \in DOMAIN shown
                 PROVE  {i \in 0..Len(items)-1 : <<"item", i>> \in Range(shown'[p])}
                          = {i \in 0..Len(items)-1 : First(p) <= i /\ i < First(p + 1)}
    BY <1>1, <1>4, PagesDivideNext
  <2>2. ItemsOn(p) = {i \in 0..Len(items)-1 : First(p) <= i /\ i < First(p + 1)}
    BY <1>1, <2>1 DEF PagesIInv, PagesDivide
  <2>3. {i \in 0..Len(items)-1 : <<"item", i>> \in Range(shown'[p])} = ItemsOn(p)
    <3>1. CASE p = page
      BY <1>4, <3>1 DEF ItemsOn
    <3>2. CASE p # page
      BY <1>4, <2>1, <3>2 DEF ItemsOn
    <3>3. QED
      BY <3>1, <3>2
  <2>4. QED
    BY <2>2, <2>3
<1>7. QED
  BY <1>3, <1>5, <1>6 DEF PagesIInv

\* It goes past a row that stays empty.
LEMMA RestEmptyKeeps ==
  ASSUME PagesIInv, RestEmpty
  PROVE  PagesIInv'
<1>1. /\ step = "rest" /\ slot < Rows /\ statics[slot] \in {"none", "Hide"} /\ slot' = slot + 1
      /\ UNCHANGED menu
      /\ page' = page /\ step' = step /\ next' = next /\ hidden' = hidden
      /\ slots' = slots /\ offered' = offered /\ shown' = shown
  BY DEF RestEmpty
<1>2. items' = items /\ statics' = statics /\ perPage' = perPage
  BY <1>1 DEF menu
<1>3. slot \in Nat /\ Rows \in Nat /\ page >= 0 /\ page \in Nat /\ DOMAIN shown[page] \subseteq 0..slot-1
  BY <1>1, Drawing
<1>4. slot' \in Nat /\ slot' <= Rows /\ DOMAIN shown[page] \subseteq 0..slot'-1
  BY <1>1, <1>3
<1>5. PagesTypeOK'
  BY <1>1, <1>2, <1>4 DEF PagesIInv, PagesTypeOK, Slot, Content, NoContent
<1>6. DrawnInOrder'
  <2>1. /\ perPage <= Rows /\ \A s \in Slot : s >= Rows => statics[s] = "none"
        /\ page \in DOMAIN shown
        /\ \A s \in 0..Rows-1 :
             s < slot /\ statics[s] \notin {"none", "Hide"} =>
               s \in DOMAIN shown[page] /\ shown[page][s] = <<"static", s>>
    BY <1>3 DEF PagesIInv, DrawnInOrder
  <2>2. \A s \in 0..Rows-1 :
          s < slot' /\ statics[s] \notin {"none", "Hide"} =>
            s \in DOMAIN shown[page] /\ shown[page][s] = <<"static", s>>
    <3>1. \A s \in 0..Rows-1 : s < slot' => s < slot \/ s = slot
      BY <1>1, <1>3
    <3>2. QED
      BY <1>1, <2>1, <3>1
  <2>3. page' # -1 /\ step' = "rest"
    BY <1>1, <1>3
  <2>4. QED
    BY <1>1, <1>4, <2>1, <2>2, <2>3, DrawnInOrderNext
<1>7. KeysMatch'
  <2>1. /\ \A p \in DOMAIN shown : \A s \in DOMAIN shown[p] : MayShow(s, shown[p][s])
        /\ offered \subseteq DOMAIN shown[page]
        /\ \A s \in DOMAIN shown[page] :
             slots[s] = shown[page][s] /\ slots[s] # <<"Next", 0>> /\ (slots[s] = <<"Back", 0>> => page > 0)
        /\ \A s \in offered : \A i \in 0..Len(items)-1 :
             slots[s] = <<"item", i>> => items[i + 1] = "Enabled"
    BY <1>1, <1>3, KeysMatchNow DEF PagesIInv
  <2>2. QED
    BY <1>1, <2>1, KeysMatchNext
<1>8. FilledTo'
  BY <1>1, FilledStays
<1>9. PagesDivide'
  BY <1>1, PagesDivideNext DEF PagesIInv, PagesDivide, ItemsOn
<1>10. QED
  BY <1>5, <1>6, <1>7, <1>8, <1>9 DEF PagesIInv

----------------------------------------------------------------------------
(* The navigation items.                                                   *)

\* They take slots below the rows.
LEMMA NavigateEffect ==
  ASSUME PagesIInv, Navigate
  PROVE  /\ slot = Rows /\ slot \in Nat /\ slot + 2 \in Slot
         /\ NavigationKeys \subseteq {slot, slot + 1, slot + 2} /\ NavigationKeys \subseteq Slot
         /\ slot \in NavigationKeys <=> HasNext
         /\ \A s \in NavigationKeys : s \notin DOMAIN shown[page] /\ s >= Rows
         /\ DOMAIN Navigation = NavigationKeys
         /\ \A s \in NavigationKeys : Navigation[s] \in {<<"Next", 0>>, <<"Back", 0>>, <<"Exit", 0>>}
         /\ \A s \in NavigationKeys : s = slot <=> Navigation[s] = <<"Next", 0>>
         /\ \A s \in NavigationKeys : Navigation[s] = <<"Back", 0>> => page > 0
         /\ slots' \in [Slot -> Content \cup {NoContent}]
         /\ \A s \in NavigationKeys : slots'[s] = Navigation[s]
         /\ \A s \in Slot \ NavigationKeys : slots'[s] = slots[s]
         /\ offered' = offered \cup NavigationKeys
         /\ DOMAIN shown' = DOMAIN shown
         /\ DOMAIN shown'[page] = DOMAIN shown[page] \cup NavigationKeys
         /\ \A s \in NavigationKeys : shown'[page][s] = Navigation[s]
         /\ \A s \in DOMAIN shown[page] : shown'[page][s] = shown[page][s]
         /\ \A p \in DOMAIN shown \ {page} : shown'[p] = shown[p]
<1>1. /\ step = "rest" /\ slot >= Rows
      /\ slots' = Over(slots, Navigation)
      /\ offered' = offered \cup NavigationKeys
      /\ shown' = [shown EXCEPT ![page] = Over(shown[page], Navigation)]
  BY DEF Navigate
<1>2. /\ page \in DOMAIN shown /\ slot \in Nat /\ slot <= Rows /\ Rows \in Nat
      /\ DOMAIN shown[page] \subseteq 0..slot-1 /\ DOMAIN shown[page] \subseteq Slot
  BY <1>1, Drawing
<1>3. slot = Rows /\ slot + 2 \in Slot /\ {slot, slot + 1, slot + 2} \subseteq Slot
  BY <1>1, <1>2, RowsFit
<1>4. /\ NavigationKeys \subseteq {slot, slot + 1, slot + 2}
      /\ slot \in NavigationKeys <=> HasNext
  BY <1>2 DEF NavigationKeys
<1>5. NavigationKeys \subseteq Slot
  BY <1>3, <1>4
<1>6. \A s \in NavigationKeys : s \notin DOMAIN shown[page] /\ s >= Rows
  BY <1>2, <1>3, <1>4
<1>7. /\ DOMAIN Navigation = NavigationKeys
      /\ \A s \in NavigationKeys : Navigation[s] \in {<<"Next", 0>>, <<"Back", 0>>, <<"Exit", 0>>}
      /\ \A s \in NavigationKeys : s = slot <=> Navigation[s] = <<"Next", 0>>
      /\ \A s \in NavigationKeys : Navigation[s] = <<"Back", 0>> => page > 0
  BY <1>2 DEF Navigation, NavigationKeys
<1>8. {<<"Next", 0>>, <<"Back", 0>>, <<"Exit", 0>>} \subseteq Content
  BY DEF Content
<1>9. slots \in [Slot -> Content \cup {NoContent}]
  BY DEF PagesIInv, PagesTypeOK
<1>10. /\ \A s \in NavigationKeys : slots'[s] = Navigation[s]
       /\ \A s \in Slot \ NavigationKeys : slots'[s] = slots[s]
  BY <1>1, <1>5, <1>7, <1>9 DEF Over
<1>11. slots' \in [Slot -> Content \cup {NoContent}]
  <2>1. slots' = [s \in Slot |-> IF s \in NavigationKeys THEN Navigation[s] ELSE slots[s]]
    <3>1. DOMAIN slots \cup DOMAIN Navigation = Slot
      BY <1>5, <1>7, <1>9
    <3>2. QED
      BY <1>1, <1>7, <3>1 DEF Over
  <2>2. \A s \in Slot : (IF s \in NavigationKeys THEN Navigation[s] ELSE slots[s]) \in Content \cup {NoContent}
    BY <1>7, <1>8, <1>9
  <2>3. QED
    BY <2>1, <2>2
<1> DEFINE now == Over(shown[page], Navigation)
<1>12. /\ DOMAIN now = DOMAIN shown[page] \cup NavigationKeys
       /\ \A s \in NavigationKeys : now[s] = Navigation[s]
       /\ \A s \in DOMAIN shown[page] : now[s] = shown[page][s]
  BY <1>6, <1>7 DEF Over
<1> HIDE DEF now
<1>13. shown' = [shown EXCEPT ![page] = now]
  BY <1>1 DEF now
<1>14. /\ DOMAIN shown' = DOMAIN shown /\ shown'[page] = now
       /\ \A p \in DOMAIN shown \ {page} : shown'[p] = shown[p]
  BY <1>2, <1>13
<1>15. QED
  BY <1>1, <1>2, <1>3, <1>4, <1>5, <1>6, <1>7, <1>10, <1>11, <1>12, <1>14

\* They end the page; Next is there if items are left.
LEMMA NavigateKeeps ==
  ASSUME PagesIInv, Navigate
  PROVE  PagesIInv'
<1>1. /\ slot = Rows /\ slot \in Nat
      /\ NavigationKeys \subseteq Slot
      /\ slot \in NavigationKeys <=> HasNext
      /\ \A s \in NavigationKeys : s \notin DOMAIN shown[page] /\ s >= Rows
      /\ \A s \in NavigationKeys : Navigation[s] \in {<<"Next", 0>>, <<"Back", 0>>, <<"Exit", 0>>}
      /\ \A s \in NavigationKeys : s = slot <=> Navigation[s] = <<"Next", 0>>
      /\ \A s \in NavigationKeys : Navigation[s] = <<"Back", 0>> => page > 0
      /\ slots' \in [Slot -> Content \cup {NoContent}]
      /\ \A s \in NavigationKeys : slots'[s] = Navigation[s]
      /\ \A s \in Slot \ NavigationKeys : slots'[s] = slots[s]
      /\ offered' = offered \cup NavigationKeys
      /\ DOMAIN shown' = DOMAIN shown
      /\ DOMAIN shown'[page] = DOMAIN shown[page] \cup NavigationKeys
      /\ \A s \in NavigationKeys : shown'[page][s] = Navigation[s]
      /\ \A s \in DOMAIN shown[page] : shown'[page][s] = shown[page][s]
      /\ \A p \in DOMAIN shown \ {page} : shown'[p] = shown[p]
  BY NavigateEffect
<1>2. /\ step = "rest" /\ step' = "idle" /\ UNCHANGED menu
      /\ page' = page /\ slot' = slot /\ next' = next /\ hidden' = hidden
  BY DEF Navigate
<1>3. items' = items /\ statics' = statics /\ perPage' = perPage
  BY <1>2 DEF menu
<1>4. page >= 0 /\ page \in Nat /\ page \in DOMAIN shown /\ DOMAIN shown[page] \subseteq Slot
  BY <1>2, Drawing
<1>5. PagesTypeOK
  BY DEF PagesIInv
<1>6. {<<"Next", 0>>, <<"Back", 0>>, <<"Exit", 0>>} \subseteq Content
  BY DEF Content
<1>7. PagesTypeOK'
  <2>1. \A p \in DOMAIN shown' : DOMAIN shown'[p] \subseteq Slot /\ Range(shown'[p]) \subseteq Content
    <3>1. TAKE p \in DOMAIN shown'
    <3>2. p \in DOMAIN shown /\ DOMAIN shown[p] \subseteq Slot /\ Range(shown[p]) \subseteq Content
      BY <1>1, <1>5 DEF PagesTypeOK
    <3>3. CASE p = page
      <4>1. DOMAIN shown'[p] \subseteq Slot
        BY <1>1, <3>2, <3>3
      <4>2. \A s \in DOMAIN shown'[p] : shown'[p][s] \in Content
        <5>1. TAKE s \in DOMAIN shown'[p]
        <5>2. CASE s \in NavigationKeys
          BY <1>1, <1>6, <3>3, <5>2
        <5>3. CASE s \in DOMAIN shown[page]
          BY <1>1, <3>2, <3>3, <5>3 DEF Range
        <5>4. QED
          BY <1>1, <3>3, <5>2, <5>3
      <4>3. QED
        BY <4>1, <4>2 DEF Range
    <3>4. CASE p # page
      BY <1>1, <3>2, <3>4
    <3>5. QED
      BY <3>3, <3>4
  <2>2. DOMAIN shown' \subseteq 0..MaxPage
    BY <1>1, <1>5 DEF PagesTypeOK
  <2>3. offered' \subseteq Slot
    BY <1>1, <1>5 DEF PagesTypeOK
  <2>4. QED
    BY <1>1, <1>2, <1>3, <1>5, <2>1, <2>2, <2>3 DEF PagesTypeOK, Slot, Content, NoContent
<1>8. DrawnInOrder'
  <2>1. /\ perPage <= Rows /\ \A s \in Slot : s >= Rows => statics[s] = "none"
        /\ \A s \in 0..Rows-1 :
             s < slot /\ statics[s] \notin {"none", "Hide"} =>
               s \in DOMAIN shown[page] /\ shown[page][s] = <<"static", s>>
    BY <1>4 DEF PagesIInv, DrawnInOrder
  <2>2. \A s \in 0..Rows-1 :
          s < slot' /\ statics[s] \notin {"none", "Hide"} =>
            s \in DOMAIN shown'[page] /\ shown'[page][s] = <<"static", s>>
    BY <1>1, <1>2, <2>1
  <2>3. page' # -1
    BY <1>2, <1>4
  <2>4. QED
    BY <1>1, <1>2, <1>4, <2>1, <2>2, <2>3, DrawnInOrderNext
<1>9. KeysMatch'
  <2>1. /\ \A p \in DOMAIN shown : \A s \in DOMAIN shown[p] : MayShow(s, shown[p][s])
        /\ offered \subseteq DOMAIN shown[page]
        /\ \A s \in DOMAIN shown[page] :
             slots[s] = shown[page][s] /\ slots[s] # <<"Next", 0>> /\ (slots[s] = <<"Back", 0>> => page > 0)
        /\ \A s \in offered : \A i \in 0..Len(items)-1 :
             slots[s] = <<"item", i>> => items[i + 1] = "Enabled"
    BY <1>2, <1>4, KeysMatchNow DEF PagesIInv
  <2>2. \A p \in DOMAIN shown' : \A s \in DOMAIN shown'[p] : MayShow(s, shown'[p][s])
    <3>1. SUFFICES ASSUME NEW p \in DOMAIN shown', NEW s \in DOMAIN shown'[p]
                   PROVE  MayShow(s, shown'[p][s])
      OBVIOUS
    <3>2. CASE p = page /\ s \in NavigationKeys
      BY <1>1, <3>2 DEF MayShow
    <3>3. CASE p = page /\ s \notin NavigationKeys
      BY <1>1, <1>4, <2>1, <3>3
    <3>4. CASE p # page
      BY <1>1, <2>1, <3>4
    <3>5. QED
      BY <3>2, <3>3, <3>4
  <2>3. offered' \subseteq DOMAIN shown'[page]
    BY <1>1, <2>1
  <2>4. \A s \in DOMAIN shown'[page] :
          /\ slots'[s] = shown'[page][s]
          /\ slots'[s] = <<"Next", 0>> => HasNext
          /\ slots'[s] = <<"Back", 0>> => page > 0
    <3>1. TAKE s \in DOMAIN shown'[page]
    <3>2. CASE s \in NavigationKeys
      BY <1>1, <3>2
    <3>3. CASE s \notin NavigationKeys
      <4>1. s \in DOMAIN shown[page] /\ s \in Slot
        BY <1>1, <1>4, <3>3
      <4>2. slots'[s] = slots[s] /\ shown'[page][s] = shown[page][s]
        BY <1>1, <3>3, <4>1
      <4>3. QED
        BY <2>1, <4>1, <4>2
    <3>4. QED
      BY <3>2, <3>3
  <2>5. \A s \in offered' : \A i \in 0..Len(items)-1 :
          slots'[s] = <<"item", i>> => items[i + 1] = "Enabled"
    <3>1. SUFFICES ASSUME NEW s \in offered', NEW i \in 0..Len(items)-1
                   PROVE  slots'[s] = <<"item", i>> => items[i + 1] = "Enabled"
      OBVIOUS
    <3>2. CASE s \in NavigationKeys
      <4>1. slots'[s] \in {<<"Next", 0>>, <<"Back", 0>>, <<"Exit", 0>>}
        BY <1>1, <3>2
      <4>2. QED
        BY <4>1
    <3>3. CASE s \notin NavigationKeys
      <4>1. s \in offered /\ s \in Slot /\ slots'[s] = slots[s]
        BY <1>1, <1>5, <3>3 DEF PagesTypeOK
      <4>2. QED
        BY <2>1, <4>1
    <3>4. QED
      BY <3>2, <3>3
  <2>6. HasNext => slot \in offered' /\ slots'[slot] = <<"Next", 0>>
    BY <1>1
  <2>7. HasNext <=> Len(items) - hidden > next
    BY DEF HasNext
  <2>8. QED
    BY <1>2, <2>2, <2>3, <2>4, <2>5, <2>6, <2>7, KeysMatchNext
<1>10. FilledTo'
  BY <1>2, FilledStays
<1>11. PagesDivide'
  <2>1. SUFFICES ASSUME NoItemHides, NEW p \in DOMAIN shown
                 PROVE  {i \in 0..Len(items)-1 : <<"item", i>> \in Range(shown'[p])}
                          = {i \in 0..Len(items)-1 : First(p) <= i /\ i < First(p + 1)}
    BY <1>1, <1>2, PagesDivideNext
  <2>2. ItemsOn(p) = {i \in 0..Len(items)-1 : First(p) <= i /\ i < First(p + 1)}
    BY <1>2, <2>1 DEF PagesIInv, PagesDivide
  <2>3. ASSUME NEW i \in 0..Len(items)-1
        PROVE  <<"item", i>> \in Range(shown'[p]) <=> <<"item", i>> \in Range(shown[p])
    <3>1. CASE p = page
      <4>1. \A s \in NavigationKeys : shown'[page][s] # <<"item", i>>
        <5>1. TAKE s \in NavigationKeys
        <5>2. shown'[page][s] \in {<<"Next", 0>>, <<"Back", 0>>, <<"Exit", 0>>}
          BY <1>1
        <5>3. QED
          BY <5>2
      <4>2. <<"item", i>> \in Range(shown[page]) <=> \E s \in DOMAIN shown[page] : shown[page][s] = <<"item", i>>
        BY DEF Range
      <4>3. <<"item", i>> \in Range(shown'[page]) <=> \E s \in DOMAIN shown'[page] : shown'[page][s] = <<"item", i>>
        BY DEF Range
      <4>4. (\E s \in DOMAIN shown'[page] : shown'[page][s] = <<"item", i>>)
              <=> \E s \in DOMAIN shown[page] : shown[page][s] = <<"item", i>>
        BY <1>1, <4>1
      <4>5. QED
        BY <3>1, <4>2, <4>3, <4>4
    <3>2. CASE p # page
      BY <1>1, <2>1, <3>2
    <3>3. QED
      BY <3>1, <3>2
  <2>4. QED
    BY <2>2, <2>3 DEF ItemsOn
<1>12. QED
  BY <1>7, <1>8, <1>9, <1>10, <1>11 DEF PagesIInv

----------------------------------------------------------------------------
(* The invariant, and what follows from it.                                *)

\* No menu has been displayed.
LEMMA PagesInitOK == ASSUME PagesInit PROVE PagesIInv
<1>1. /\ items = <<>> /\ statics = [s \in Slot |-> "none"] /\ perPage = Rows
      /\ page = -1 /\ step = "idle" /\ slot = 0 /\ next = 0 /\ hidden = 0
      /\ slots = [s \in Slot |-> NoContent] /\ offered = {} /\ DOMAIN shown = {}
  BY DEF PagesInit
<1>2. items \in Seq(Status) /\ Len(items) = 0
  BY <1>1
<1>3. PagesTypeOK
  BY <1>1, <1>2, RowsFit DEF PagesTypeOK
<1>4. DrawnInOrder
  BY <1>1, RowsFit DEF DrawnInOrder, PageDisplayed
<1>5. KeysMatch /\ FilledTo /\ PagesDivide
  BY <1>1 DEF KeysMatch, FilledTo, PagesDivide
<1>6. QED
  BY <1>3, <1>4, <1>5 DEF PagesIInv

\* What the player can turn the page with is a key this page drew.
LEMMA NextIsDrawn ==
  ASSUME PagesIInv, PageDisplayed, Press("Next")
  PROVE  HasNext
<1>1. page >= 0 /\ page \in DOMAIN shown
  BY DEF PageDisplayed, PagesIInv, DrawnInOrder
<1>2. PICK key \in offered : slots[key][1] = "Next"
  BY DEF Press
<1>3. key \in DOMAIN shown[page] /\ slots[key] = shown[page][key] /\ MayShow(key, slots[key])
  BY <1>1, KeysMatchNow DEF PagesIInv
<1>4. slots[key] = <<"Next", 0>>
  BY <1>2, <1>3 DEF MayShow
<1>5. QED
  BY <1>1, <1>3, <1>4, KeysMatchNow DEF PagesIInv, HasNext

\* So is Back, which the first page does not have.
LEMMA BackIsDrawn ==
  ASSUME PagesIInv, PageDisplayed, Press("Back")
  PROVE  page > 0
<1>1. page >= 0 /\ page \in DOMAIN shown
  BY DEF PageDisplayed, PagesIInv, DrawnInOrder
<1>2. PICK key \in offered : slots[key][1] = "Back"
  BY DEF Press
<1>3. key \in DOMAIN shown[page] /\ slots[key] = shown[page][key] /\ MayShow(key, slots[key])
  BY <1>1, KeysMatchNow DEF PagesIInv
<1>4. slots[key] = <<"Back", 0>>
  BY <1>2, <1>3 DEF MayShow
<1>5. QED
  BY <1>1, <1>3, <1>4, KeysMatchNow DEF PagesIInv

\* A step that changes nothing keeps everything.
LEMMA PagesStutter ==
  ASSUME PagesIInv, UNCHANGED pagesVars
  PROVE  PagesIInv'
<1>1. /\ items' = items /\ statics' = statics /\ perPage' = perPage /\ UNCHANGED menu
      /\ page' = page /\ step' = step /\ slot' = slot /\ next' = next /\ hidden' = hidden
      /\ slots' = slots /\ offered' = offered /\ shown' = shown
  BY DEF pagesVars, menu
<1>2. PagesTypeOK'
  BY <1>1 DEF PagesIInv, PagesTypeOK, Slot, Content, NoContent
<1>3. DrawnInOrder'
  BY <1>1 DEF PagesIInv, DrawnInOrder, PageDisplayed, Slot
<1>4. KeysMatch'
  BY <1>1, KeysMatchNow, KeysMatchNext DEF PagesIInv
<1>5. FilledTo'
  BY <1>1, FilledToNext DEF PagesIInv, FilledTo
<1>6. PagesDivide'
  BY <1>1, PagesDivideNext DEF PagesIInv, PagesDivide, ItemsOn
<1>7. QED
  BY <1>2, <1>3, <1>4, <1>5, <1>6 DEF PagesIInv

\* Each step keeps the invariant: one case per action.
LEMMA PagesStep ==
  ASSUME PerPage \subseteq 0..Rows, PagesIInv, [PagesNext]_pagesVars
  PROVE  PagesIInv'
<1>1. CASE Build
  BY <1>1, BuildKeeps
<1>2. CASE \E p \in 0..MaxPage : DisplayPage(p)
  BY <1>2, DisplayPageKeeps
<1>3. CASE DisplayStep
  <2>1. CASE FillStatic
    BY <2>1, FillStaticKeeps
  <2>2. CASE FillItem
    BY <2>2, FillItemKeeps
  <2>3. CASE SkipHidden
    BY <2>3, SkipHiddenKeeps
  <2>4. CASE FillEnds
    BY <2>4, FillEndsKeeps
  <2>5. CASE RestStatic
    BY <2>5, RestStaticKeeps
  <2>6. CASE RestEmpty
    BY <2>6, RestEmptyKeeps
  <2>7. CASE Navigate
    BY <2>7, NavigateKeeps
  <2>8. CASE FillHiddenStatic
    BY <2>8, PagesStutter DEF FillHiddenStatic
  <2>9. QED
    BY <1>3, <2>1, <2>2, <2>3, <2>4, <2>5, <2>6, <2>7, <2>8 DEF DisplayStep
<1>4. CASE PressNext
  <2>1. page + 1 \in 0..MaxPage /\ DisplayPage(page + 1)
    BY <1>4, RowsFit DEF PressNext, PageDisplayed, PagesIInv, PagesTypeOK
  <2>2. QED
    BY <2>1, DisplayPageKeeps
<1>5. CASE PressBack
  <2>1. DisplayPage(page - 1) /\ page \in 0..MaxPage
    BY <1>5, RowsFit DEF PressBack, PageDisplayed, PagesIInv, PagesTypeOK
  <2>2. page > 0
    BY <1>5, BackIsDrawn DEF PressBack
  <2>3. page - 1 \in 0..MaxPage
    BY <2>1, <2>2, RowsFit
  <2>4. QED
    BY <2>1, <2>3, DisplayPageKeeps
<1>6. CASE UNCHANGED pagesVars
  BY <1>6, PagesStutter
<1>7. QED
  BY <1>1, <1>2, <1>3, <1>4, <1>5, <1>6 DEF PagesNext

\* An id has room for the menu and for the index of every item.
LEMMA IdsFit == MenuId \in Nat /\ Half \in Nat /\ MaxItems + Keys <= Half
<1>1. MenuId \in Nat
  BY IdsHave16Bits
<1>2. MaxItems + Keys <= Half
  BY IdsHave16Bits DEF Half
<1>3. Half \in Nat
  BY DEF Half
<1>4. QED
  BY <1>1, <1>2, <1>3

\* The id packed of an item's index leads back to it.
LEMMA IdsLeadBack ==
  ASSUME PagesTypeOK, NEW index \in Nat, index < Half
  PROVE  /\ PackedItem(index) >= 0 /\ PackedItem(index) \div Half = MenuId
         /\ PackedItem(index) % Half = index
<1>1. MenuId \in Nat
  BY IdsFit
<1>2. PackedItem(index) = MenuId * 65536 + index /\ index < 65536
  BY DEF PackedItem, Half
<1>3. PackedItem(index) >= 0
  BY <1>1, <1>2
<1>4. (MenuId * 65536 + index) \div 65536 = MenuId /\ (MenuId * 65536 + index) % 65536 = index
  BY <1>1, <1>2
<1>5. QED
  BY <1>2, <1>3, <1>4 DEF Half

\* The keys of a page that is done.
LEMMA PagesInvKeys == PagesIInv => KeysAreDrawn
<1> SUFFICES ASSUME PagesIInv PROVE KeysAreDrawn
  OBVIOUS
<1>1. KeysFit
  <2>1. SUFFICES ASSUME step = "rest", slot >= Rows PROVE slot + 2 \in Slot
    BY DEF KeysFit
  <2>2. slot \in Nat /\ slot <= Rows
    BY <2>1, Drawing
  <2>3. QED
    BY <2>1, <2>2, RowsFit
<1>2. ASSUME PageDisplayed, NEW key \in offered
      PROVE  /\ key \in DOMAIN shown[page] /\ slots[key] = shown[page][key]
             /\ \A i \in 0..Len(items)-1 : slots[key] = <<"item", i>> => Item(i) = "Enabled"
             /\ slots[key][1] \in {"item", "static"} => ItemOf(ItemId(slots[key])) = slots[key]
  <2>1. page >= 0 /\ page \in DOMAIN shown /\ PagesTypeOK
    BY <1>2 DEF PageDisplayed, PagesIInv, DrawnInOrder
  <2>2. /\ key \in DOMAIN shown[page] /\ slots[key] = shown[page][key] /\ MayShow(key, slots[key])
        /\ \A i \in 0..Len(items)-1 : slots[key] = <<"item", i>> => Item(i) = "Enabled"
    BY <1>2, <2>1, KeysMatchNow DEF PagesIInv, Item
  <2>3. key \in Slot /\ key \in Nat
    BY <1>2, <2>1, RowsFit DEF PagesTypeOK
  <2>4. Len(items) \in Nat /\ Len(items) <= MaxItems
    BY <2>1 DEF PagesTypeOK
  <2>5. ASSUME NEW i \in 0..Len(items)-1, slots[key] = <<"item", i>>
        PROVE  ItemOf(ItemId(slots[key])) = slots[key]
    <3>1. ItemId(slots[key]) = PackedItem(i)
      BY <2>5 DEF ItemId, ItemIndex, NavigationType
    <3>2. i \in Nat /\ i < Half
      BY <2>4, RowsFit, IdsFit
    <3>3. ItemOf(PackedItem(i)) = ItemAt(i)
      BY <2>1, <3>2, IdsLeadBack DEF ItemOf
    <3>4. ItemAt(i) = <<"item", i>>
      BY <2>4 DEF ItemAt
    <3>5. QED
      BY <2>5, <3>1, <3>3, <3>4
  <2>6. ASSUME slots[key] = <<"static", key>>, statics[key] # "none"
        PROVE  ItemOf(ItemId(slots[key])) = slots[key]
    <3>1. ItemId(slots[key]) = PackedItem(Len(items) + key)
      BY <2>6 DEF ItemId, ItemIndex, NavigationType
    <3>2. Len(items) + key \in Nat /\ Len(items) + key < Half
      <4>1. key < Keys
        BY <2>3, RowsFit
      <4>2. QED
        BY <2>3, <2>4, <4>1, RowsFit, IdsFit
    <3>3. ItemOf(PackedItem(Len(items) + key)) = ItemAt(Len(items) + key)
      BY <2>1, <3>2, IdsLeadBack DEF ItemOf
    <3>4. ~(Len(items) + key < Len(items)) /\ (Len(items) + key) - Len(items) = key
      BY <2>3, <2>4
    <3>5. ItemAt(Len(items) + key) = <<"static", key>>
      BY <2>3, <2>6, <3>4 DEF ItemAt
    <3>6. QED
      BY <2>6, <3>1, <3>3, <3>5
  <2>7. slots[key][1] \in {"item", "static"} => ItemOf(ItemId(slots[key])) = slots[key]
    BY <2>2, <2>5, <2>6 DEF MayShow
  <2>8. QED
    BY <2>2, <2>7
<1>3. QED
  BY <1>1, <1>2 DEF KeysAreDrawn

\* The pages divide the items, and leave none when there is no next page.
LEMMA PagesInvItems == PagesIInv => ItemsShownOnce
<1> SUFFICES ASSUME PagesIInv PROVE ItemsShownOnce
  OBVIOUS
<1>1. /\ PagesTypeOK /\ Len(items) \in Nat /\ perPage \in Nat /\ page \in -1..MaxPage
      /\ next \in Nat /\ FreeSlots(perPage) \in Nat
      /\ page >= 0 => page \in Nat
  <2>1. PagesTypeOK /\ Len(items) \in Nat /\ perPage \in 0..Keys /\ page \in -1..MaxPage /\ next \in Nat
    BY DEF PagesIInv, PagesTypeOK
  <2>2. FreeSlots(perPage) \in Nat
    BY <2>1, FreeSlotsStep
  <2>3. perPage \in Nat /\ (page >= 0 => page \in Nat)
    BY <2>1, RowsFit
  <2>4. QED
    BY <2>1, <2>2, <2>3
<1> DEFINE k == FreeSlots(perPage)
<1>2. \A p \in Nat : First(p) = p * k /\ First(p) \in Nat
  BY <1>1, FreeOrStatic, Products DEF First
<1> HIDE DEF k
<1>3. PagesDisjoint
  <2>1. SUFFICES ASSUME NoItemHides, NEW p \in DOMAIN shown, NEW q \in DOMAIN shown, p < q,
                        NEW i \in ItemsOn(p), i \in ItemsOn(q)
                 PROVE  FALSE
    <3>1. DOMAIN shown \subseteq Nat
      BY <1>1, RowsFit DEF PagesTypeOK
    <3>2. \A p, q \in DOMAIN shown : p # q => p < q \/ q < p
      BY <3>1
    <3>3. QED
      BY <3>2 DEF PagesDisjoint
  <2>2. p \in Nat /\ q \in Nat /\ i \in 0..Len(items)-1 /\ i \in Nat
    BY <1>1, RowsFit DEF PagesTypeOK, ItemsOn
  <2>3. First(q) <= i
    BY <2>1 DEF PagesIInv, PagesDivide
  <2>4. i < (IF p = page /\ step = "fill" THEN next ELSE First(p + 1))
    BY <2>1 DEF PagesIInv, PagesDivide
  <2>5. p = page /\ step = "fill" => next <= First(p + 1)
    <3>1. SUFFICES ASSUME p = page, step = "fill" PROVE next <= First(p + 1)
      OBVIOUS
    <3>2. /\ First(page) \in Nat /\ First(page + 1) = First(page) + FreeSlots(perPage)
          /\ next = First(page) + FreeSlots(slot)
          /\ FreeSlots(slot) \in Nat /\ FreeSlots(slot) <= FreeSlots(perPage)
      BY <2>1, <3>1, FillingPage
    <3>3. QED
      BY <1>1, <3>1, <3>2
  <2>6. First(p + 1) <= First(q)
    <3>1. k \in Nat
      BY <1>1 DEF k
    <3>2. First(p + 1) = (p + 1) * k /\ First(q) = q * k
      BY <1>2, <2>2
    <3>3. QED
      BY <2>1, <2>2, <3>1, <3>2, Products
  <2>7. First(p + 1) \in Nat /\ First(q) \in Nat
    <3>1. p + 1 \in Nat
      BY <2>2
    <3>2. QED
      BY <1>2, <2>2, <3>1
  <2>8. QED
    BY <1>1, <2>2, <2>3, <2>4, <2>5, <2>6, <2>7
<1>4. NothingLost
  <2>1. SUFFICES ASSUME NoItemHides, PageDisplayed, ~Press("Next"), DOMAIN shown = 0..page
                 PROVE  Visible = UNION {ItemsOn(p) : p \in 0..page}
    BY DEF NothingLost
  <2>2. page >= 0 /\ page \in Nat /\ step = "idle" /\ page \in 0..MaxPage
    BY <1>1, <2>1, RowsFit DEF PageDisplayed
  <2>3. ~HasNext
    <3>1. HasNext => slot \in offered /\ slots[slot] = <<"Next", 0>>
      BY <2>2 DEF PagesIInv, KeysMatch
    <3>2. slots[slot] = <<"Next", 0>> => slots[slot][1] = "Next"
      OBVIOUS
    <3>3. QED
      BY <2>1, <3>1, <3>2 DEF Press
  <2>4. /\ page * perPage <= Len(items) /\ hidden = HiddenBefore(page * perPage)
        /\ next <= First(page + 1)
    BY <2>1, <2>2 DEF PagesIInv, FilledTo
  <2>5. hidden = 0
    BY <1>1, <2>1, <2>2, <2>4, StartOfPage
  <2>6. Len(items) <= next
    BY <1>1, <2>3, <2>5 DEF HasNext
  <2>7. \A p \in 0..page : ItemsOn(p) = {i \in 0..Len(items)-1 : First(p) <= i /\ i < First(p + 1)}
    BY <2>1, <2>2 DEF PagesIInv, PagesDivide
  <2>8. ASSUME NEW i \in 0..Len(items)-1
        PROVE  \E p \in 0..page : i \in ItemsOn(p)
    <3>1. k \in Nat /\ i \in Nat /\ page + 1 \in Nat
      BY <1>1, <2>2 DEF k
    <3>2. First(page + 1) = (page + 1) * k
      BY <1>2, <3>1
    <3>3. i < (page + 1) * k
      <4>1. First(page + 1) \in Nat
        BY <1>2, <3>1
      <4>2. i < First(page + 1)
        BY <1>1, <2>4, <2>6, <3>1, <4>1
      <4>3. QED
        BY <3>2, <4>2
    <3>4. PICK p \in 0..page : p * k <= i /\ i < (p + 1) * k
      BY <2>2, <3>1, <3>3, PageOf
    <3>5. First(p) = p * k /\ First(p + 1) = (p + 1) * k
      BY <1>2, <2>2
    <3>6. QED
      BY <2>7, <3>4, <3>5
  <2>9. Visible = 0..Len(items)-1 /\ \A p \in 0..page : ItemsOn(p) \subseteq 0..Len(items)-1
    BY <2>1 DEF NoItemHides, ItemsOn
  <2>10. QED
    BY <2>8, <2>9
<1>5. PlainNextStaysInside
  <2>1. SUFFICES ASSUME NoStatics, PageDisplayed, Press("Next")
                 PROVE  (page + 1) * perPage <= Len(items)
    BY DEF PlainNextStaysInside, NextStaysInside
  <2>2. page >= 0 /\ page \in Nat /\ step = "idle" /\ page \in 0..MaxPage
    BY <1>1, <2>1, RowsFit DEF PageDisplayed
  <2>3. Len(items) - hidden > next
    BY <2>1, NextIsDrawn DEF HasNext
  <2>4. /\ page * perPage <= Len(items) /\ hidden = HiddenBefore(page * perPage)
        /\ next >= Len(items) \/ next >= Start(page) + FreeSlots(perPage)
    BY <2>2 DEF PagesIInv, FilledTo
  <2>5. StaticsPerPage = 0
    <3>1. \A s \in 0..perPage-1 : s \in Slot
      BY <1>1, RowsFit DEF PagesTypeOK
    <3>2. {s \in 0..perPage-1 : statics[s] # "none"} = {}
      BY <2>1, <3>1 DEF NoStatics
    <3>3. QED
      BY <3>2, FS_EmptySet DEF StaticsPerPage
  <2>6. FreeSlots(perPage) = perPage
    BY <1>1, <2>5, FreeOrStatic
  <2>7. /\ Start(page) = First(page) + hidden /\ hidden \in 0..MaxItems
        /\ First(page) = page * perPage
    BY <1>1, <2>2, <2>4, <2>6, StartOfPage
  <2>8. page * perPage \in Nat /\ (page + 1) * perPage = page * perPage + perPage
    BY <1>1, <2>2, Products
  <2>9. hidden \in Nat
    BY <2>7, RowsFit
  <2>10. next >= page * perPage + hidden + perPage
    BY <1>1, <2>3, <2>4, <2>6, <2>7, <2>8, <2>9
  <2>11. QED
    BY <1>1, <2>3, <2>8, <2>9, <2>10
<1>6. StaticsOnEachPage
  <2>1. SUFFICES ASSUME PageDisplayed, NEW s \in Slot, statics[s] \notin {"none", "Hide"}
                 PROVE  s \in DOMAIN shown[page] /\ shown[page][s] = <<"static", s>>
    BY DEF StaticsOnEachPage
  <2>2. page >= 0 /\ slot = Rows
    BY <2>1 DEF PageDisplayed, PagesIInv, DrawnInOrder
  <2>3. s \in 0..Rows-1 /\ s < slot
    BY <2>1, <2>2, RowsFit DEF PagesIInv, DrawnInOrder
  <2>4. QED
    BY <2>1, <2>2, <2>3 DEF PagesIInv, DrawnInOrder
<1>7. QED
  BY <1>1, <1>3, <1>4, <1>5, <1>6 DEF ItemsShownOnce

\* Whatever is built, displayed and pressed, display() has drawn what PagesIInv
\* says; that takes pages of no more items than there are rows.
THEOREM PagesInductiveInvariant ==
  ASSUME PerPage \subseteq 0..Rows
  PROVE  /\ PagesInit => PagesIInv
         /\ PagesIInv /\ [PagesNext]_pagesVars => PagesIInv'
BY PagesInitOK, PagesStep

\* At all times, that is.
LEMMA PagesInvariant ==
  ASSUME PerPage \subseteq 0..Rows
  PROVE  PagesSpec => []PagesIInv
<1>1. PagesInit => PagesIInv
  BY PagesInitOK
<1>2. PagesIInv /\ [PagesNext]_pagesVars => PagesIInv'
  BY PagesStep
<1>3. QED
  BY <1>1, <1>2, PTL DEF PagesSpec

\* Menu::display(): a menu none of whose items hides shows each of them on one
\* page and loses none, static items or not; without static items it offers no
\* page that is not there; and static items are on every page.
THEOREM ItemsAreShownOnce ==
  ASSUME PerPage \subseteq 0..Rows
  PROVE  PagesSpec => []ItemsShownOnce
<1>1. PagesIInv => ItemsShownOnce
  BY PagesInvItems
<1>2. QED
  BY <1>1, PagesInvariant, PTL

\* m_slots and m_keys: a key that is offered stands for what the page drew there,
\* which is not disabled, and whose id leads the natives back to it.
THEOREM KeysAreOfThePage ==
  ASSUME PerPage \subseteq 0..Rows
  PROVE  PagesSpec => []KeysAreDrawn
<1>1. PagesIInv => KeysAreDrawn
  BY PagesInvKeys
<1>2. QED
  BY <1>1, PagesInvariant, PTL

----------------------------------------------------------------------------
(* The parts the text of a menu is sent in (MenuText).                     *)

\* Adding to a number and taking the same off again wraps around to it.
LEMMA WrapsBack ==
  ASSUME NEW w \in Nat, NEW n \in 0..w - 1
  PROVE  (n + w) % w = n
OBVIOUS

\* What a view takes of what is left, and what is left after it: less, or, where
\* the text is too long and the view takes all of it, a number beyond all texts.
LEMMA LeftAfterView ==
  ASSUME MenuSizes, TextTypeOK, ViewsFollow, showing
  PROVE  /\ Left(view) \in 0..Wrap - 1 /\ view.size \in 0..view.length - view.pos
         /\ view.pos + view.size \in Nat
         /\ \/ LoopIsInside /\ view.size <= view.left /\ Left(view) = view.left - view.size
            \/ /\ view.length > MaxMenu /\ Left(view) > 0
               /\ view.pos + view.size = view.length
<1>1. /\ view.length \in Nat /\ view.pos \in Nat /\ view.left \in 0..Wrap - 1
      /\ view.size \in Nat /\ view.length < Wrap /\ Wrap \in Nat /\ Chunk \in Nat \ {0}
      /\ MaxMenu \in Nat /\ MaxMenu < Wrap
      /\ view.size = ViewSize(view.length, view.pos, view.left)
  BY DEF MenuSizes, TextTypeOK, ViewsFollow
<1>2. view.pos <= view.length
  BY <1>1 DEF ViewsFollow, LoopIsInside, LoopIsLost, ToSend
<1>3. view.size \in 0..view.length - view.pos
  BY <1>1, <1>2 DEF ViewSize
<1>4. CASE view.size <= view.left
  <2> DEFINE n == view.left - view.size
  <2>1. n \in 0..Wrap - 1 /\ view.left + Wrap - view.size = n + Wrap
    BY <1>1, <1>4
  <2> HIDE DEF n
  <2>2. Left(view) = n
    BY <1>1, <2>1, WrapsBack DEF Left
  <2>3. CASE LoopIsInside
    BY <1>1, <1>3, <1>4, <2>1, <2>2, <2>3 DEF n
  <2>4. CASE LoopIsLost
    <3>1. view.size = 0 /\ view.pos + view.size = view.length
      BY <1>1, <1>3, <2>4 DEF LoopIsLost
    <3>2. n > 0
      BY <1>1, <2>4, <3>1 DEF LoopIsLost, n
    <3>3. QED
      BY <1>1, <1>3, <2>1, <2>2, <2>4, <3>1, <3>2 DEF LoopIsLost
  <2>5. QED
    BY <2>3, <2>4 DEF ViewsFollow
<1>5. CASE view.size > view.left
  <2>1. view.size = view.length - view.pos /\ LoopIsInside /\ view.length > MaxMenu
    BY <1>1, <1>2, <1>5 DEF ViewSize, ViewsFollow, LoopIsInside, LoopIsLost, ToSend
  <2> DEFINE n == view.left + Wrap - view.size
  <2>2. n \in 1..Wrap - 1
    BY <1>1, <1>3, <1>5
  <2>3. Left(view) = n
    <3> HIDE DEF n
    <3>1. n % Wrap = n
      BY <1>1, <2>2
    <3>2. QED
      BY <3>1 DEF Left, n
  <2> HIDE DEF n
  <2>4. QED
    BY <1>1, <1>3, <2>1, <2>2, <2>3
<1>6. QED
  BY <1>1, <1>3, <1>4, <1>5

LEMMA ShowMenuKeepsTextIInv ==
  ASSUME MenuSizes, NEW length \in MenuLengths, TextIInv, ShowMenu(length)
  PROVE  TextIInv'
<1> DEFINE left == ToSend(length)
           size == ViewSize(length, 0, left)
<1>1. /\ length \in Nat /\ length < Wrap /\ Chunk \in Nat \ {0}
      /\ MaxMenu \in Nat /\ MaxMenu < Wrap /\ Wrap \in Nat
  BY DEF MenuSizes
<1>2. left \in 0..Wrap - 1 /\ size \in Nat
  BY <1>1 DEF ToSend, ViewSize
<1>3. /\ view' = [length |-> length, pos |-> 0, left |-> left, size |-> size]
      /\ part' = NoPart /\ showing' = TRUE
  BY DEF ShowMenu
<1> HIDE DEF left, size
<1>4. TextTypeOK'
  BY <1>1, <1>2, <1>3 DEF TextTypeOK, NoPart
<1>5. /\ view'.length = length /\ view'.pos = 0 /\ view'.left = left
      /\ view'.size = size
  BY <1>3
<1>6. LoopIsInside'
  BY <1>2, <1>5 DEF LoopIsInside, left
<1>7. ViewsFollow'
  BY <1>1, <1>3, <1>5, <1>6 DEF ViewsFollow, size
<1>8. QED
  BY <1>3, <1>4, <1>7 DEF TextIInv, PartEndsThere, PartsReachTheEnd

LEMMA ShowPartKeepsTextIInv ==
  ASSUME MenuSizes, TextIInv, ShowPart
  PROVE  TextIInv'
<1> DEFINE left == Left(view)
           pos == view.pos + view.size
           size == ViewSize(view.length, pos, left)
<1>1. showing /\ TextTypeOK /\ ViewsFollow
  BY DEF TextIInv, PartsReachTheEnd, ShowPart
<1>2. /\ left \in 0..Wrap - 1 /\ view.size \in 0..view.length - view.pos /\ pos \in Nat
      /\ \/ LoopIsInside /\ view.size <= view.left /\ left = view.left - view.size
         \/ view.length > MaxMenu /\ left > 0 /\ pos = view.length
  BY <1>1, LeftAfterView
<1>3. /\ part' = [from |-> view.pos, upto |-> pos, written |-> view.length - view.pos,
                  more |-> left > 0]
      /\ view' = [view EXCEPT !.left = left, !.pos = pos, !.size = size]
      /\ showing' = (left > 0)
  BY DEF ShowPart
<1> HIDE DEF left
<1>4. /\ view.pos \in Nat /\ view.length \in Nat /\ view.length < Wrap
      /\ view.left \in Nat /\ view.size \in Nat /\ Chunk \in Nat \ {0} /\ MaxMenu \in Nat
      /\ view.size = ViewSize(view.length, view.pos, view.left)
  BY <1>1 DEF TextTypeOK, ViewsFollow, MenuSizes
<1>5. size \in Nat
  BY <1>2, <1>4 DEF ViewSize
<1>6. /\ view'.length = view.length /\ view'.pos = pos /\ view'.left = left
      /\ view'.size = size
  BY <1>1, <1>3 DEF TextTypeOK
<1>7. TextTypeOK'
  <2>1. view.length - view.pos \in Nat /\ (left > 0) \in BOOLEAN
    BY <1>2, <1>4
  <2>2. part' \in [from : Nat, upto : Nat, written : Nat, more : BOOLEAN]
    BY <1>2, <1>3, <1>4, <2>1
  <2>3. view' \in [length : Nat, pos : Nat, left : 0..Wrap - 1, size : Nat]
    <3> HIDE DEF size, pos
    <3>1. QED
      BY <1>1, <1>2, <1>3, <1>5 DEF TextTypeOK
  <2>4. QED
    BY <1>3, <2>1, <2>2, <2>3 DEF TextTypeOK
<1>8. /\ part'.from = view.pos /\ part'.upto = pos
      /\ part'.written = view.length - view.pos /\ part'.more = (left > 0)
  BY <1>3
<1>9. \/ pos + left = ToSend(view.length)
      \/ view.length > MaxMenu /\ left > 0 /\ pos = view.length
  BY <1>2, <1>4 DEF LoopIsInside
<1>10. ViewsFollow' /\ PartEndsThere'
  <2>1. LoopIsInside' \/ LoopIsLost'
    BY <1>6, <1>9 DEF LoopIsInside, LoopIsLost
  <2> HIDE DEF pos
  <2>2. view'.size = ViewSize(view'.length, view'.pos, view'.left)
    BY <1>6
  <2> HIDE DEF size
  <2>3. QED
    BY <1>3, <1>4, <1>6, <1>8, <2>1, <2>2 DEF ViewsFollow, PartEndsThere
<1>11. PartsReachTheEnd'
  <2>1. part'.from + part'.written = view'.length
    BY <1>4, <1>6, <1>8
  <2>2. ASSUME view.length <= MaxMenu
        PROVE  (left > 0 <=> view.length - view.pos > Chunk) /\ (left > 0 <=> pos < view.length)
    <3>1. LoopIsInside /\ view.pos + view.left = view.length /\ left = view.left - view.size
      BY <1>2, <1>4, <2>2 DEF LoopIsInside, ToSend
    <3>2. view.size = IF view.left > Chunk THEN Chunk ELSE view.left
      BY <1>4, <3>1 DEF ViewSize
    <3>3. QED
      BY <1>4, <3>1, <3>2
  <2>3. ASSUME view.length > MaxMenu
        PROVE  left > 0
    <3>1. CASE left = 0
      <4>1. LoopIsInside /\ view.size = view.left /\ view.pos + view.left = MaxMenu
        BY <1>2, <1>4, <2>3, <3>1 DEF LoopIsInside, ToSend
      <4>2. QED
        BY <1>4, <2>3, <4>1 DEF ViewSize
    <3>2. QED
      BY <1>2, <3>1
  <2> HIDE DEF pos, size
  <2>4. view'.length = view.length /\ part'.more = (left > 0) /\ showing' = (left > 0)
    BY <1>3, <1>6, <1>8
  <2>5. part'.written = view.length - view.pos /\ part'.upto = pos
    BY <1>8
  <2>6. CASE view'.length <= MaxMenu
    <3>1. /\ part'.more <=> part'.written > Chunk
          /\ showing' <=> part'.upto < view'.length
      BY <2>2, <2>4, <2>5, <2>6
    <3>2. QED
      BY <1>7, <2>1, <2>6, <3>1 DEF PartsReachTheEnd
  <2>7. CASE ~(view'.length <= MaxMenu)
    <3>0. view.length > MaxMenu
      BY <1>4, <2>4, <2>7
    <3>1. part'.more /\ showing'
      BY <2>3, <2>4, <3>0, Zenon
    <3>2. QED
      BY <1>7, <2>1, <2>7, <3>1 DEF PartsReachTheEnd
  <2>8. QED
    BY <2>6, <2>7
<1>12. QED
  BY <1>10, <1>11 DEF TextIInv

\* However long a text is and whatever the engine takes in one message, the loop
\* of ShowMenu() is inside what it may send or has lost count.
THEOREM TextInductiveInvariant == TextSpec => []TextIInv
<1> USE MenuSizes
<1>1. ASSUME TextInit PROVE TextIInv
  <2>1. /\ showing = FALSE /\ part = NoPart
        /\ view = [length |-> 0, pos |-> 0, left |-> 0, size |-> 0]
    BY <1>1 DEF TextInit, NoText
  <2>2. 0 \in Nat /\ 0 \in 0..Wrap - 1 /\ FALSE \in BOOLEAN
    BY DEF MenuSizes
  <2>3. /\ NoPart \in [from : Nat, upto : Nat, written : Nat, more : BOOLEAN]
        /\ [length |-> 0, pos |-> 0, left |-> 0, size |-> 0]
              \in [length : Nat, pos : Nat, left : 0..Wrap - 1, size : Nat]
    BY <2>2 DEF NoPart
  <2>4. TextTypeOK
    BY <2>1, <2>3 DEF TextTypeOK
  <2>5. QED
    BY <2>1, <2>4 DEF TextIInv, ViewsFollow, PartEndsThere, PartsReachTheEnd
<1>2. ASSUME TextIInv, [TextNext]_textVars
      PROVE  TextIInv'
  <2>1. CASE ShowPart
    BY <2>1, <1>2, ShowPartKeepsTextIInv
  <2>2. CASE \E length \in MenuLengths : ShowMenu(length)
    BY <2>2, <1>2, ShowMenuKeepsTextIInv
  <2>3. CASE UNCHANGED textVars
    BY <2>3, <1>2 DEF textVars, TextIInv, TextTypeOK, ViewsFollow, LoopIsInside, LoopIsLost,
                      PartEndsThere, PartsReachTheEnd
  <2>4. QED
    BY <2>1, <2>2, <2>3, <1>2 DEF TextNext
<1>3. QED
  BY <1>1, <1>2, PTL DEF TextSpec

\* Every message of a menu carries the rest of the text, so that all but the last
\* are longer than the limit the text is cut for; and a text above maxMenuLength
\* is sent without end.
THEOREM PartsCarryTheRest == TextSpec => []PartsReachTheEnd
<1>1. TextIInv => PartsReachTheEnd
  BY DEF TextIInv
<1>2. QED
  BY <1>1, TextInductiveInvariant, PTL

----------------------------------------------------------------------------
(* Recursive functions.  The value at n is given where n is in Stop, and   *)
(* otherwise a step from the value at a smaller number.                    *)

\* A pair of numbers in order.
Below == {p \in Nat \X Nat : p[1] < p[2]}

\* Every set of numbers that is not empty has a smallest one.
LEMMA SmallestNumber ==
  ASSUME NEW T, T \subseteq Nat, T # {}
  PROVE  \E x \in T : \A y \in T : x <= y
<1>1. IsWellFoundedOn(Below, Nat)
  BY NatLessThanWellFounded DEF OpToRel, Below
<1>2. PICK x \in T : \A y \in T : ~(<<y, x>> \in Below)
  BY <1>1, WFMin
<1>3. \A y \in T : ~(y < x)
  BY <1>2 DEF Below
<1>4. QED
  BY <1>3

\* h is the function up to n.
Approx(h, n, Val, Stop, base, prev, grow) ==
  /\ h \in [0..n -> Val]
  /\ \A k \in 0..n : h[k] = IF k \in Stop THEN base[k] ELSE grow[<<k, h[prev[k]]>>]

\* What a recursive function is made of: values to begin with, what is added at
\* each number, and the smaller number it goes on from.
Recursive(Val, Stop, base, prev, grow) ==
  /\ base \in [Nat -> Val] /\ grow \in [Nat \X Val -> Val] /\ prev \in [Nat -> Nat]
  /\ \A k \in Nat : k \notin Stop => prev[k] < k

\* Two functions that are right up to some numbers agree where both are.
LEMMA ApproxAgree ==
  ASSUME NEW Val, NEW Stop, NEW base, NEW prev, NEW grow,
         Recursive(Val, Stop, base, prev, grow),
         NEW m \in Nat, NEW n \in Nat, NEW g, NEW h,
         Approx(g, m, Val, Stop, base, prev, grow),
         Approx(h, n, Val, Stop, base, prev, grow)
  PROVE  \A k \in Nat : k <= m /\ k <= n => g[k] = h[k]
<1> DEFINE Bad == {k \in Nat : k <= m /\ k <= n /\ g[k] # h[k]}
<1>1. SUFFICES ASSUME Bad # {}
               PROVE  FALSE
  OBVIOUS
<1>2. PICK k \in Bad : \A l \in Bad : k <= l
  <2>1. Bad \subseteq Nat
    OBVIOUS
  <2> HIDE DEF Bad
  <2>2. QED
    BY <1>1, <2>1, SmallestNumber
<1>3. k \in Nat /\ k <= m /\ k <= n /\ g[k] # h[k] /\ k \in 0..m /\ k \in 0..n
  OBVIOUS
<1>4. /\ g[k] = IF k \in Stop THEN base[k] ELSE grow[<<k, g[prev[k]]>>]
      /\ h[k] = IF k \in Stop THEN base[k] ELSE grow[<<k, h[prev[k]]>>]
  <2> HIDE DEF Bad
  <2>1. QED
    BY <1>3 DEF Approx
<1>5. k \notin Stop
  BY <1>3, <1>4
<1>6. prev[k] \in Nat /\ prev[k] < k
  <2> HIDE DEF Bad
  <2>1. QED
    BY <1>3, <1>5 DEF Recursive
<1>7. prev[k] \notin Bad
  <2> HIDE DEF Bad
  <2>1. QED
    BY <1>2, <1>3, <1>6
<1>8. g[prev[k]] = h[prev[k]]
  BY <1>3, <1>6, <1>7
<1>9. QED
  BY <1>3, <1>4, <1>5, <1>8

\* If there are functions that are right up to smaller numbers, there is one up to n.
LEMMA ApproxGrow ==
  ASSUME NEW Val, NEW Stop, NEW base, NEW prev, NEW grow,
         Recursive(Val, Stop, base, prev, grow),
         NEW n \in Nat,
         \A m \in Nat : m < n => \E g : Approx(g, m, Val, Stop, base, prev, grow)
  PROVE  \E h : Approx(h, n, Val, Stop, base, prev, grow)
<1>1. CASE n = 0
  <2>1. 0 \in Stop
    BY DEF Recursive
  <2> DEFINE h == [k \in 0..n |-> base[k]]
  <2>2. \A k \in 0..n : k = 0 /\ k \in Nat
    BY <1>1
  <2>3. h \in [0..n -> Val]
    BY <2>2 DEF Recursive
  <2>4. Approx(h, n, Val, Stop, base, prev, grow)
    BY <2>1, <2>2, <2>3 DEF Approx
  <2>5. QED
    BY <2>4
<1>2. CASE n # 0
  <2>1. n - 1 \in Nat /\ n - 1 < n
    BY <1>2
  <2>2. PICK g : Approx(g, n - 1, Val, Stop, base, prev, grow)
    BY <2>1
  <2> DEFINE last == IF n \in Stop THEN base[n] ELSE grow[<<n, g[prev[n]]>>]
             h == [k \in 0..n |-> IF k = n THEN last ELSE g[k]]
  <2>3. n \notin Stop => prev[n] \in 0..n - 1
    BY <2>1 DEF Recursive
  <2>4. /\ g \in [0..n - 1 -> Val]
        /\ \A k \in 0..n - 1 : g[k] = IF k \in Stop THEN base[k] ELSE grow[<<k, g[prev[k]]>>]
    BY <2>2 DEF Approx
  <2>5. last \in Val
    BY <2>3, <2>4 DEF Recursive
  <2>6. \A k \in 0..n : k = n \/ k \in 0..n - 1
    BY <2>1
  <2>7. h \in [0..n -> Val]
    <3> HIDE DEF last
    <3>1. QED
      BY <2>4, <2>5, <2>6
  <2>8. ASSUME NEW k \in 0..n
        PROVE  h[k] = IF k \in Stop THEN base[k] ELSE grow[<<k, h[prev[k]]>>]
    <3>1. CASE k = n
      <4>1. n \notin Stop => h[prev[n]] = g[prev[n]]
        BY <2>3, <2>1
      <4>2. h[n] = last
        BY <2>1
      <4>3. QED
        BY <3>1, <4>1, <4>2
    <3>2. CASE k # n
      <4>1. k \in 0..n - 1 /\ k \in Nat
        BY <2>6, <3>2
      <4>2. k \notin Stop => prev[k] \in 0..n - 1 /\ prev[k] # n /\ prev[k] \in 0..n
        BY <4>1 DEF Recursive
      <4>3. h[k] = g[k] /\ (k \notin Stop => h[prev[k]] = g[prev[k]])
        <5> HIDE DEF last
        <5>1. QED
          BY <3>2, <4>2
      <4>4. QED
        BY <4>1, <4>3, <2>4
    <3>3. QED
      BY <3>1, <3>2
  <2>9. Approx(h, n, Val, Stop, base, prev, grow)
    <3> HIDE DEF h
    <3>1. QED
      BY <2>7, <2>8 DEF Approx
  <2>10. QED
    BY <2>9
<1>3. QED
  BY <1>1, <1>2

\* Such a function exists, whatever its step.
LEMMA RecursionWorks ==
  ASSUME NEW Val, NEW Stop, NEW base, NEW prev, NEW grow,
         Recursive(Val, Stop, base, prev, grow)
  PROVE  \E f \in [Nat -> Val] :
           \A k \in Nat : f[k] = IF k \in Stop THEN base[k] ELSE grow[<<k, f[prev[k]]>>]
<1>1. \A n \in Nat : \E h : Approx(h, n, Val, Stop, base, prev, grow)
  <2> DEFINE Bad == {n \in Nat : ~\E h : Approx(h, n, Val, Stop, base, prev, grow)}
  <2>1. SUFFICES ASSUME Bad # {}
                 PROVE  FALSE
    OBVIOUS
  <2>2. PICK n \in Bad : \A l \in Bad : n <= l
    <3>1. Bad \subseteq Nat
      OBVIOUS
    <3> HIDE DEF Bad
    <3>2. QED
      BY <2>1, <3>1, SmallestNumber
  <2>3. n \in Nat /\ ~\E h : Approx(h, n, Val, Stop, base, prev, grow)
    OBVIOUS
  <2>4. \A m \in Nat : m < n => m \notin Bad
    <3> HIDE DEF Bad
    <3>1. QED
      BY <2>2, <2>3
  <2>5. \A m \in Nat : m < n => \E g : Approx(g, m, Val, Stop, base, prev, grow)
    BY <2>4
  <2> HIDE DEF Bad
  <2>6. QED
    BY <2>3, <2>5, ApproxGrow
<1> DEFINE at(n) == CHOOSE h : Approx(h, n, Val, Stop, base, prev, grow)
           f == [n \in Nat |-> at(n)[n]]
<1>2. ASSUME NEW n \in Nat
      PROVE  Approx(at(n), n, Val, Stop, base, prev, grow)
  BY <1>1
<1>3. ASSUME NEW n \in Nat
      PROVE  /\ at(n)[n] \in Val
             /\ at(n)[n] = IF n \in Stop THEN base[n] ELSE grow[<<n, at(n)[prev[n]]>>]
  <2>1. n \in 0..n
    OBVIOUS
  <2> HIDE DEF at
  <2>2. QED
    BY <1>2, <2>1 DEF Approx
<1>4. ASSUME NEW n \in Nat, n \notin Stop
      PROVE  prev[n] \in Nat /\ at(n)[prev[n]] = at(prev[n])[prev[n]]
  <2>1. prev[n] \in Nat /\ prev[n] < n
    BY <1>4 DEF Recursive
  <2> HIDE DEF at
  <2>2. Approx(at(n), n, Val, Stop, base, prev, grow)
    BY <1>2
  <2>3. Approx(at(prev[n]), prev[n], Val, Stop, base, prev, grow)
    BY <1>2, <2>1
  <2>4. prev[n] <= n /\ prev[n] <= prev[n]
    BY <2>1
  <2>5. QED
    BY <2>1, <2>2, <2>3, <2>4, ApproxAgree
<1>5. f \in [Nat -> Val]
  <2> HIDE DEF at
  <2>1. QED
    BY <1>3
<1>6. ASSUME NEW n \in Nat
      PROVE  f[n] = IF n \in Stop THEN base[n] ELSE grow[<<n, f[prev[n]]>>]
  <2> HIDE DEF at
  <2>1. CASE n \in Stop
    BY <1>3, <2>1
  <2>2. CASE n \notin Stop
    BY <1>3, <1>4, <2>2
  <2>3. QED
    BY <2>1, <2>2
<1>7. QED
  <2> HIDE DEF f
  <2>1. QED
    BY <1>5, <1>6

----------------------------------------------------------------------------
(* Pieces of text.                                                         *)

\* How much is padded, or left: what is positive of a number.
LEMMA AtLeastZero ==
  ASSUME NEW n \in Int
  PROVE  Max({0, n}) = IF n > 0 THEN n ELSE 0
<1> DEFINE m == IF n > 0 THEN n ELSE 0
<1>1. m \in {0, n} /\ \A y \in {0, n} : m >= y
  OBVIOUS
<1>2. \A x \in {0, n} : (\A y \in {0, n} : x >= y) => x = m
  OBVIOUS
<1>3. QED
  BY <1>1, <1>2 DEF Max

\* How large a number is without its sign.
LEMMA GreaterIs ==
  ASSUME NEW n \in Int
  PROVE  Max({n, -n}) = (IF n < 0 THEN -n ELSE n) /\ Max({n, -n}) \in Nat
<1> DEFINE a == IF n < 0 THEN -n ELSE n
<1>1. a \in {n, -n} /\ \A y \in {n, -n} : a >= y
  OBVIOUS
<1>2. \A x \in {n, -n} : (\A y \in {n, -n} : x >= y) => x = a
  OBVIOUS
<1>3. Max({n, -n}) = a
  BY <1>1, <1>2 DEF Max
<1>4. QED
  BY <1>3

\* The smaller of two numbers.
LEMMA AtmostIs ==
  ASSUME NEW m \in Int, NEW n \in Int
  PROVE  Atmost(m, n) \in {m, n} /\ Atmost(m, n) <= m /\ Atmost(m, n) <= n /\ Atmost(m, n) \in Int
BY DEF Atmost

\* The bytes that conversions write.
LEMMA OwnOnes ==
  /\ \A i \in 1..16 : Lower[i] \in OwnBytes /\ Upper[i] \in OwnBytes
  /\ " " \in OwnBytes /\ "+" \in OwnBytes /\ "-" \in OwnBytes /\ "." \in OwnBytes
  /\ "0" \in OwnBytes
  /\ "x" \in OwnBytes /\ "X" \in OwnBytes /\ "%" \in OwnBytes /\ "\n" \in OwnBytes
  /\ "\r" \in OwnBytes
<1>1. Lower[1] = "0"
  BY DEF Lower
<1>2. \A i \in 1..16 : Lower[i] \in OwnBytes /\ Upper[i] \in OwnBytes
  BY DEF OwnBytes
<1>3. /\ " " \in OwnBytes /\ "+" \in OwnBytes /\ "-" \in OwnBytes /\ "." \in OwnBytes
      /\ "x" \in OwnBytes /\ "X" \in OwnBytes /\ "%" \in OwnBytes /\ "\n" \in OwnBytes
      /\ "\r" \in OwnBytes
  BY DEF OwnBytes
<1>4. "0" \in OwnBytes
  BY <1>1, <1>2
<1>5. QED
  BY <1>2, <1>3, <1>4

\* They belong to text.
LEMMA Own ==
  /\ \A i \in 1..16 : Lower[i] \in Byte /\ Upper[i] \in Byte
  /\ " " \in Byte /\ "+" \in Byte /\ "-" \in Byte /\ "." \in Byte /\ "0" \in Byte
  /\ "x" \in Byte /\ "X" \in Byte /\ "%" \in Byte /\ "\n" \in Byte /\ "\r" \in Byte
<1>1. \A b \in OwnBytes : b \in Byte
  BY BytesOfText
<1>2. QED
  BY <1>1, OwnOnes

\* What is made of them is text.
LEMMA OwnText == \A s \in Seq(OwnBytes) : s \in Seq(Byte)
<1>1. OwnBytes \subseteq Byte
  BY BytesOfText
<1>2. QED
  BY <1>1

\* What an array holds: text, and the NUL that ends it.
ArrayByte == Byte \cup {NUL}

LEMMA AnyText ==
  /\ \A s \in Seq(Byte) : s \in Seq(ArrayByte)
  /\ \A s \in Seq(OwnBytes) : s \in Seq(ArrayByte)
  /\ Byte \subseteq ArrayByte /\ NUL \in ArrayByte
<1>1. Byte \subseteq ArrayByte /\ NUL \in ArrayByte
  BY DEF ArrayByte
<1>2. QED
  BY <1>1, OwnText

\* Bytes in a row are text.
LEMMA BytesMakeText ==
  ASSUME NEW B, NEW n \in Nat, NEW f \in [1..n -> B]
  PROVE  f \in Seq(B) /\ Len(f) = n
OBVIOUS

\* Lengths are numbers.
LEMMA LenOf ==
  ASSUME NEW B, NEW s \in Seq(B)
  PROVE  Len(s) \in Nat /\ Len(s) \in Int
OBVIOUS

\* Padding is text, as long as it is asked for.
LEMMA RepeatType ==
  ASSUME NEW B, NEW byte \in B, NEW n \in Nat
  PROVE  Repeat(byte, n) \in Seq(B) /\ Len(Repeat(byte, n)) = n
<1>1. Repeat(byte, n) \in [1..n -> B]
  BY DEF Repeat
<1>2. QED
  BY <1>1, BytesMakeText

\* The beginning of text is text, no longer than asked for.
LEMMA UptoType ==
  ASSUME NEW B, NEW s \in Seq(B), NEW n \in Nat
  PROVE  Upto(s, n) \in Seq(B) /\ Len(Upto(s, n)) = Atmost(n, Len(s)) /\ Len(Upto(s, n)) <= n
<1> DEFINE k == Atmost(n, Len(s))
<1>1. k \in Nat /\ k <= Len(s) /\ k <= n
  BY LenOf DEF Atmost
<1> HIDE DEF k
<1>2. SubSeq(s, 1, k) \in Seq(B) /\ Len(SubSeq(s, 1, k)) = k
  BY <1>1, SubSeqProperties
<1>3. Upto(s, n) = SubSeq(s, 1, k)
  BY DEF Upto, k
<1>4. QED
  BY <1>1, <1>2, <1>3 DEF k

\* Text backwards is text of the same length.
LEMMA ReverseType ==
  ASSUME NEW B, NEW s \in Seq(B)
  PROVE  Reverse(s) \in Seq(B) /\ Len(Reverse(s)) = Len(s)
<1>1. Len(s) \in Nat /\ \A i \in 1..Len(s) : Len(s) - i + 1 \in 1..Len(s)
  BY LenProperties
<1>2. \A i \in 1..Len(s) : s[Len(s) - i + 1] \in B
  BY <1>1
<1>3. Reverse(s) \in [1..Len(s) -> B]
  BY <1>2 DEF Reverse
<1>4. QED
  BY <1>1, <1>3

\* Text after text is as long as both.
LEMMA Joined ==
  ASSUME NEW B, NEW s \in Seq(B), NEW t \in Seq(B)
  PROVE  s \o t \in Seq(B) /\ Len(s \o t) = Len(s) + Len(t) /\ Len(s) \in Nat
BY ConcatProperties, LenProperties

\* A byte makes text longer by one.
LEMMA Appended ==
  ASSUME NEW B, NEW s \in Seq(B), NEW byte \in B
  PROVE  Append(s, byte) \in Seq(B) /\ Len(Append(s, byte)) = Len(s) + 1
BY AppendProperties

\* The shortest texts.
LEMMA Short ==
  ASSUME NEW B
  PROVE  /\ <<>> \in Seq(B) /\ Len(<<>>) = 0
         /\ \A byte \in B : <<byte>> \in Seq(B) /\ Len(<<byte>>) = 1
<1>1. <<>> \in Seq(B) /\ Len(<<>>) = 0
  OBVIOUS
<1>2. ASSUME NEW byte \in B
      PROVE  <<byte>> \in Seq(B) /\ Len(<<byte>>) = 1
  OBVIOUS
<1>3. QED
  BY <1>1, <1>2

\* Digits and zeros in front of them are text.
LEMMA PaddedType ==
  ASSUME NEW B, NEW buf \in Seq(B), NEW n \in Nat, NEW byte \in B
  PROVE  Padded(buf, n, byte) \in Seq(B)
<1> DEFINE m == Max({0, Atmost(n, NtoaSize) - Len(buf)})
<1>1. Atmost(n, NtoaSize) - Len(buf) \in Int
  BY LenOf, PrintfSizes DEF Atmost
<1>2. m \in Nat
  <2> DEFINE k == Atmost(n, NtoaSize) - Len(buf)
  <2>1. k \in Int
    BY <1>1
  <2> HIDE DEF k
  <2>2. Max({0, k}) \in Nat
    BY <2>1, AtLeastZero
  <2>3. QED
    BY <2>2 DEF k
<1> HIDE DEF m
<1>3. Repeat(byte, m) \in Seq(B)
  BY <1>2, RepeatType
<1>4. buf \o Repeat(byte, m) \in Seq(B)
  BY <1>3, Joined
<1>5. QED
  BY <1>4 DEF Padded, m

\* Text without its last bytes is text.
LEMMA DropLastType ==
  ASSUME NEW B, NEW buf \in Seq(B), NEW n \in Nat
  PROVE  DropLast(buf, n) \in Seq(B)
<1> DEFINE k == Len(buf) - n
           m == Max({0, k})
<1>1. k \in Int /\ k <= Len(buf) /\ Len(buf) \in Nat
  BY LenOf
<1>2. m \in Nat /\ m <= Len(buf)
  <2> HIDE DEF k
  <2>1. QED
    BY <1>1, AtLeastZero
<1>3. DropLast(buf, n) = SubSeq(buf, 1, m)
  BY DEF DropLast
<1> HIDE DEF m
<1>4. SubSeq(buf, 1, m) \in Seq(B)
  BY <1>2, SubSeqProperties
<1>5. QED
  BY <1>3, <1>4

\* A number with its sign is text.
LEMMA SignedType ==
  ASSUME NEW buf \in Seq(OwnBytes), NEW negative, NEW flags, NEW width
  PROVE  Signed(buf, negative, flags, width) \in Seq(OwnBytes)
<1>1. DropLast(buf, 1) \in Seq(OwnBytes)
  BY DropLastType
<1> DEFINE room == IF Len(buf) = width /\ Signs(negative, flags) THEN DropLast(buf, 1) ELSE buf
<1>2. room \in Seq(OwnBytes)
  BY <1>1
<1> HIDE DEF room
<1>3. /\ Append(room, "-") \in Seq(OwnBytes) /\ Append(room, "+") \in Seq(OwnBytes)
      /\ Append(room, " ") \in Seq(OwnBytes)
  BY <1>2, OwnOnes, Appended
<1>4. Signed(buf, negative, flags, width)
        \in {room, Append(room, "-"), Append(room, "+"), Append(room, " ")}
  BY DEF Signed, room
<1>5. QED
  BY <1>2, <1>3, <1>4

\* Precisions.
Prec == Nat \cup {NoPrec}

\* A precision of a directive is one; a negative one becomes large.
LEMMA PrecisionType ==
  ASSUME NEW d, IsDirective(d)
  PROVE  /\ Precision(d.prec) \in Prec
         /\ d.prec = NoPrec \/ d.prec \in Nat => Precision(d.prec) = d.prec /\ d.prec \in Prec
<1> DEFINE p == d.prec
<1>1. (p = NoPrec \/ (p \in Int /\ -IntLimit <= p)) /\ IntLimit \in Nat /\ NoPrec \notin Int
  BY PrintfSizes DEF IsDirective
<1> HIDE DEF p
<1>2. Precision(p) \in Prec /\ (p = NoPrec \/ p \in Nat => Precision(p) = p /\ p \in Prec)
  <2>1. CASE p = NoPrec
    BY <2>1 DEF Precision, Prec
  <2>2. CASE p # NoPrec
    BY <1>1, <2>2 DEF Precision, Prec
  <2>3. QED
    BY <2>1, <2>2
<1>3. QED
  BY <1>2 DEF p

\* A number with its zeros is text.
LEMMA ZerosType ==
  ASSUME NEW buf \in Seq(OwnBytes), NEW flags, NEW prec \in Prec, NEW width \in Nat
  PROVE  Zeros(buf, flags, prec, width) \in Seq(OwnBytes)
<1> DEFINE n == IF prec = NoPrec THEN 0 ELSE prec
<1>1. n \in Nat
  BY DEF Prec
<1> DEFINE toPrec == Padded(buf, n, "0")
<1>2. toPrec \in Seq(OwnBytes)
  <2> HIDE DEF n
  <2>1. "0" \in OwnBytes
    BY OwnOnes
  <2>2. QED
    BY <1>1, <2>1, PaddedType
<1>3. Padded(toPrec, width, "0") \in Seq(OwnBytes)
  <2> HIDE DEF toPrec
  <2>1. "0" \in OwnBytes
    BY OwnOnes
  <2>2. QED
    BY <1>2, <2>1, PaddedType
<1>4. Zeros(buf, flags, prec, width) \in {buf, toPrec, Padded(toPrec, width, "0")}
  BY DEF Zeros
<1>5. QED
  BY <1>2, <1>3, <1>4

\* A number with its prefix is text.
LEMMA PrefixedType ==
  ASSUME NEW buf \in Seq(OwnBytes), NEW flags, NEW base, NEW prec, NEW width, NEW upper
  PROVE  Prefixed(buf, flags, base, prec, width, upper) \in Seq(OwnBytes)
<1> DEFINE n == IF base = 16 THEN 2 ELSE 1
           fills == Len(buf) \in {IF prec = NoPrec THEN 0 ELSE prec, width} /\ buf # <<>>
           room == IF fills THEN DropLast(buf, n) ELSE buf
           x == IF base = 16 THEN <<IF upper THEN "X" ELSE "x">> ELSE <<>>
<1>1. DropLast(buf, n) \in Seq(OwnBytes)
  BY DropLastType
<1>2. room \in Seq(OwnBytes)
  BY <1>1
<1>3. x \in Seq(OwnBytes) /\ <<"0">> \in Seq(OwnBytes)
  <2>1. /\ <<"X">> \in Seq(OwnBytes) /\ <<"x">> \in Seq(OwnBytes) /\ <<"0">> \in Seq(OwnBytes)
        /\ <<>> \in Seq(OwnBytes)
    BY OwnOnes, Short
  <2>2. x \in {<<>>, <<"X">>, <<"x">>}
    OBVIOUS
  <2>3. QED
    BY <2>1, <2>2
<1>4. room \o x \o <<"0">> \in Seq(OwnBytes)
  <2> HIDE DEF room, x
  <2>1. room \o x \in Seq(OwnBytes)
    BY <1>2, <1>3, Joined
  <2>2. QED
    BY <2>1, <1>3, Joined
<1>5. Upto(room \o x \o <<"0">>, NtoaSize) \in Seq(OwnBytes)
  <2> HIDE DEF room, x
  <2>1. QED
    BY <1>4, PrintfSizes, UptoType
<1>6. QED
  BY <1>5 DEF Prefixed

\* What is copied into the caller's buffer fits into it.
LEMMA OutFits ==
  ASSUME NEW buf \in Seq(OwnBytes), NEW flags, NEW width \in Nat, NEW maxlen \in Nat
  PROVE  /\ Out(buf, flags, width, maxlen) \in Seq(OwnBytes)
         /\ Len(Out(buf, flags, width, maxlen)) <= maxlen
<1> DEFINE gap == Atmost(width, maxlen) - Len(buf)
           n == Max({0, gap})
           pad == Repeat(" ", n)
           copy == Upto(Reverse(buf), maxlen)
<1>1. Len(buf) \in Nat /\ gap \in Int /\ Atmost(width, maxlen) <= maxlen
  BY LenOf DEF Atmost
<1>2. n = IF gap > 0 THEN gap ELSE 0
  <2> HIDE DEF gap
  <2>1. QED
    BY <1>1, AtLeastZero
<1>3. n \in Nat
  <2> HIDE DEF gap, n
  <2>1. QED
    BY <1>1, <1>2
<1>4. pad \in Seq(OwnBytes) /\ Len(pad) = n
  <2> HIDE DEF n
  <2>1. " " \in OwnBytes
    BY OwnOnes
  <2>2. QED
    BY <1>3, <2>1, RepeatType
<1>5. copy \in Seq(OwnBytes) /\ Len(copy) = Atmost(maxlen, Len(buf))
  BY ReverseType, UptoType
<1>6. Atmost(maxlen, Len(buf)) + n <= maxlen
  <2>1. Atmost(maxlen, Len(buf)) <= maxlen /\ Atmost(maxlen, Len(buf)) <= Len(buf)
        /\ Atmost(maxlen, Len(buf)) \in Int
    BY <1>1, AtmostIs
  <2>2. CASE gap > 0
    <3>1. n = Atmost(width, maxlen) - Len(buf)
      BY <1>2, <2>2
    <3> HIDE DEF gap, n
    <3>2. Atmost(width, maxlen) \in Int
      BY AtmostIs
    <3>3. QED
      BY <1>1, <2>1, <3>1, <3>2
  <2>3. CASE ~(gap > 0)
    <3>1. n = 0
      BY <1>2, <2>3
    <3> HIDE DEF gap, n
    <3>2. QED
      BY <2>1, <3>1
  <2>4. QED
    BY <2>2, <2>3
<1> HIDE DEF gap, n, pad, copy
<1>7. /\ copy \o pad \in Seq(OwnBytes) /\ Len(copy \o pad) <= maxlen
      /\ pad \o copy \in Seq(OwnBytes) /\ Len(pad \o copy) <= maxlen /\ Len(copy) <= maxlen
  BY <1>1, <1>3, <1>4, <1>5, <1>6, Joined
<1>8. Out(buf, flags, width, maxlen) \in {copy \o pad, copy, pad \o copy}
  BY DEF Out, gap, n, pad, copy
<1>9. QED
  BY <1>5, <1>7, <1>8

----------------------------------------------------------------------------
(* Numbers.                                                                *)

\* The equation of the digits of numbers, the last one first.
IsDigits(f, base, digit) ==
  f = [n \in Nat |-> IF n < base THEN <<digit[n + 1]>>
                     ELSE <<digit[(n % base) + 1]>> \o f[n \div base]]

\* The bases that directives have, and their digits.
Bases == {2, 8, 10, 16}
DigitSets == {Lower, Upper}

\* The last digit of a number is text, and the others are of a smaller number.
LEMMA DigitsOf ==
  ASSUME NEW base \in Bases, NEW digit \in DigitSets, NEW n \in Nat
  PROVE  /\ n % base \in 0..base - 1
         /\ n \div base \in Nat
         /\ ~(n < base) => n \div base < n
         /\ n < base => digit[n + 1] \in OwnBytes
         /\ digit[(n % base) + 1] \in OwnBytes
<1>1. \A i \in 1..16 : digit[i] \in OwnBytes
  BY OwnOnes DEF DigitSets
<1>2. CASE base = 2
  <2>1. n % 2 \in 0..1 /\ n \div 2 \in Nat /\ (~(n < 2) => n \div 2 < n)
    OBVIOUS
  <2>2. (n % 2) + 1 \in 1..16 /\ (n < 2 => n + 1 \in 1..16)
    BY <2>1
  <2>3. QED
    BY <1>1, <1>2, <2>1, <2>2
<1>3. CASE base = 8
  <2>1. n % 8 \in 0..7 /\ n \div 8 \in Nat /\ (~(n < 8) => n \div 8 < n)
    OBVIOUS
  <2>2. (n % 8) + 1 \in 1..16 /\ (n < 8 => n + 1 \in 1..16)
    BY <2>1
  <2>3. QED
    BY <1>1, <1>3, <2>1, <2>2
<1>4. CASE base = 10
  <2>1. n % 10 \in 0..9 /\ n \div 10 \in Nat /\ (~(n < 10) => n \div 10 < n)
    OBVIOUS
  <2>2. (n % 10) + 1 \in 1..16 /\ (n < 10 => n + 1 \in 1..16)
    BY <2>1
  <2>3. QED
    BY <1>1, <1>4, <2>1, <2>2
<1>5. CASE base = 16
  <2>1. n % 16 \in 0..15 /\ n \div 16 \in Nat /\ (~(n < 16) => n \div 16 < n)
    OBVIOUS
  <2>2. (n % 16) + 1 \in 1..16 /\ (n < 16 => n + 1 \in 1..16)
    BY <2>1
  <2>3. QED
    BY <1>1, <1>5, <2>1, <2>2
<1>6. QED
  BY <1>2, <1>3, <1>4, <1>5 DEF Bases

\* The loop of _ntoa_long() writes digits, at least one.
LEMMA ReversedType ==
  ASSUME NEW value \in Nat, NEW base \in Bases, NEW digit \in DigitSets
  PROVE  Reversed(value, base, digit) \in Seq(OwnBytes) /\ Reversed(value, base, digit) # <<>>
<1> DEFINE Text == Seq(OwnBytes)
           Stop == 0..base - 1
           first == [n \in Nat |-> IF n < base THEN <<digit[n + 1]>> ELSE <<>>]
           grow == [x \in Nat \X Text |-> <<digit[(x[1] % base) + 1]>> \o x[2]]
           prev == [n \in Nat |-> n \div base]
<1>1. Recursive(Text, Stop, first, prev, grow)
  <2>1. base \in Nat \ {0}
    BY DEF Bases
  <2>2. first \in [Nat -> Text]
    <3>1. ASSUME NEW n \in Nat
          PROVE  (IF n < base THEN <<digit[n + 1]>> ELSE <<>>) \in Text
      BY <3>1, DigitsOf, Short
    <3>2. QED
      BY <3>1
  <2>3. grow \in [Nat \X Text -> Text]
    <3>1. ASSUME NEW n \in Nat, NEW s \in Text
          PROVE  <<digit[(n % base) + 1]>> \o s \in Text
      BY DigitsOf, Short, Joined
    <3>2. QED
      BY <3>1
  <2>4. prev \in [Nat -> Nat] /\ \A n \in Nat : n \notin Stop => prev[n] < n
    <3>1. ASSUME NEW n \in Nat
          PROVE  n \div base \in Nat /\ (n \notin Stop => n \div base < n)
      <4>1. n \div base \in Nat /\ (~(n < base) => n \div base < n)
        BY DigitsOf
      <4>2. n \notin Stop => ~(n < base)
        BY <2>1
      <4>3. QED
        BY <4>1, <4>2
    <3>2. QED
      BY <3>1
  <2>5. QED
    <3> HIDE DEF Text, Stop, first, grow, prev
    <3>1. QED
      BY <2>2, <2>3, <2>4 DEF Recursive
<1>2. PICK f \in [Nat -> Text] :
        \A n \in Nat : f[n] = IF n \in Stop THEN first[n] ELSE grow[<<n, f[prev[n]]>>]
  <2> HIDE DEF Text, Stop, first, grow, prev
  <2>1. QED
    BY <1>1, RecursionWorks
<1>3. IsDigits(f, base, digit)
  <2>1. ASSUME NEW n \in Nat
        PROVE  f[n] = IF n < base THEN <<digit[n + 1]>>
                      ELSE <<digit[(n % base) + 1]>> \o f[n \div base]
    <3>1. base \in Nat /\ n \div base \in Nat /\ (n \in Stop <=> n < base)
      BY DigitsOf DEF Bases
    <3>2. f[n \div base] \in Text
      BY <3>1
    <3>3. CASE n < base
      <4>1. f[n] = first[n]
        BY <1>2, <3>1, <3>3
      <4>2. QED
        BY <3>3, <4>1
    <3>4. CASE ~(n < base)
      <4>1. f[n] = grow[<<n, f[prev[n]]>>] /\ prev[n] = n \div base
        <5>1. prev[n] = n \div base
          OBVIOUS
        <5> HIDE DEF first, grow, prev, Stop
        <5>2. QED
          BY <1>2, <3>1, <3>4, <5>1
      <4>2. grow[<<n, f[n \div base]>>] = <<digit[(n % base) + 1]>> \o f[n \div base]
        <5> HIDE DEF Text
        <5>1. QED
          BY <3>2
      <4>3. QED
        BY <3>4, <4>1, <4>2
    <3>5. QED
      BY <3>3, <3>4
  <2>2. QED
    <3> HIDE DEF Text
    <3>1. QED
      BY <1>2, <2>1 DEF IsDigits
<1> DEFINE g == CHOOSE h : IsDigits(h, base, digit)
<1>4. IsDigits(g, base, digit)
  BY <1>3
<1> HIDE DEF g
<1>5. \A n \in Nat : g[n] = IF n < base THEN <<digit[n + 1]>>
                            ELSE <<digit[(n % base) + 1]>> \o g[n \div base]
  BY <1>4 DEF IsDigits
<1>6. \A n \in Nat : g[n] \in Seq(OwnBytes)
  <2> DEFINE Bad == {n \in Nat : g[n] \notin Seq(OwnBytes)}
  <2>1. SUFFICES ASSUME Bad # {}
                 PROVE  FALSE
    OBVIOUS
  <2>2. PICK n \in Bad : \A l \in Bad : n <= l
    <3>1. Bad \subseteq Nat
      OBVIOUS
    <3> HIDE DEF Bad
    <3>2. QED
      BY <2>1, <3>1, SmallestNumber
  <2>3. n \in Nat /\ g[n] \notin Seq(OwnBytes)
    OBVIOUS
  <2>4. n \div base \in Nat /\ (~(n < base) => n \div base \notin Bad)
    <3> HIDE DEF Bad
    <3>1. n \div base \in Nat /\ (~(n < base) => n \div base < n)
      BY <2>3, DigitsOf
    <3>2. Bad \subseteq Nat
      BY DEF Bad
    <3>3. QED
      BY <2>2, <2>3, <3>1, <3>2
  <2>5. ~(n < base) => g[n \div base] \in Seq(OwnBytes)
    BY <2>4
  <2> HIDE DEF Bad
  <2>6. CASE n < base
    BY <2>3, <2>6, <1>5, DigitsOf, Short
  <2>7. CASE ~(n < base)
    <3>1. g[n] = <<digit[(n % base) + 1]>> \o g[n \div base]
      BY <1>5, <2>3, <2>7
    <3>2. QED
      BY <2>3, <2>5, <2>7, <3>1, DigitsOf, Short, Joined
  <2>8. QED
    BY <2>6, <2>7
<1>7. g[value] # <<>>
  <2>1. CASE value < base
    <3> DEFINE only == <<digit[value + 1]>>
    <3>1. Len(only) = 1 /\ Len(<<>>) = 0
      BY <2>1, DigitsOf, Short
    <3>2. g[value] = only
      BY <1>5, <2>1
    <3>3. only # <<>>
      OBVIOUS
    <3> HIDE DEF only
    <3>4. QED
      BY <3>2, <3>3
  <2>2. CASE ~(value < base)
    <3> DEFINE last == <<digit[(value % base) + 1]>>
               others == g[value \div base]
    <3>1. others \in Seq(OwnBytes) /\ last \in Seq(OwnBytes) /\ Len(last) = 1
      BY <1>6, DigitsOf, Short
    <3>2. g[value] = last \o others
      BY <1>5, <2>2
    <3> HIDE DEF last, others
    <3>3. Len(last \o others) = 1 + Len(others) /\ Len(others) \in Nat /\ Len(<<>>) = 0
      BY <3>1, Joined, LenOf, Short
    <3>4. QED
      BY <3>2, <3>3
  <2>3. QED
    BY <2>1, <2>2
<1>8. Reversed(value, base, digit) = g[value]
  BY DEF Reversed, IsDigits, g
<1>9. QED
  BY <1>6, <1>7, <1>8

\* The equation of the powers of ten.
IsPowers(p) == p = [k \in Nat |-> IF k = 0 THEN 1 ELSE 10 * p[k - 1]]

\* The powers of ten are numbers above zero.
LEMMA Pow10Type ==
  ASSUME NEW n \in Nat
  PROVE  /\ Pow10(n) \in Nat \ {0} /\ Pow10(0) = 1
         /\ n # 0 => Pow10(n) = 10 * Pow10(n - 1) /\ Pow10(n - 1) \in Nat \ {0}
<1> DEFINE Pos == Nat \ {0}
           first == [k \in Nat |-> 1]
           grow == [x \in Nat \X Pos |-> 10 * x[2]]
           prev == [k \in Nat |-> IF k = 0 THEN 0 ELSE k - 1]
<1>1. Recursive(Pos, {0}, first, prev, grow)
  <2>1. first \in [Nat -> Pos] /\ grow \in [Nat \X Pos -> Pos]
    OBVIOUS
  <2>2. prev \in [Nat -> Nat] /\ \A k \in Nat : k \notin {0} => prev[k] < k
    OBVIOUS
  <2>3. QED
    <3> HIDE DEF Pos, first, grow, prev
    <3>1. QED
      BY <2>1, <2>2 DEF Recursive
<1>2. PICK f \in [Nat -> Pos] :
        \A k \in Nat : f[k] = IF k \in {0} THEN first[k] ELSE grow[<<k, f[prev[k]]>>]
  <2> HIDE DEF Pos, first, grow, prev
  <2>1. QED
    BY <1>1, RecursionWorks
<1>3. IsPowers(f)
  <2>1. ASSUME NEW k \in Nat
        PROVE  f[k] = IF k = 0 THEN 1 ELSE 10 * f[k - 1]
    <3>1. CASE k = 0
      BY <1>2, <3>1
    <3>2. CASE k # 0
      <4>1. k - 1 \in Nat /\ prev[k] = k - 1
        BY <3>2
      <4>2. f[k - 1] \in Pos
        BY <4>1
      <4>3. f[k] = grow[<<k, f[k - 1]>>]
        <5> HIDE DEF first, grow, prev, Pos
        <5>1. QED
          BY <1>2, <3>2, <4>1
      <4>4. grow[<<k, f[k - 1]>>] = 10 * f[k - 1]
        <5> HIDE DEF Pos
        <5>1. QED
          BY <4>2
      <4>5. QED
        BY <3>2, <4>3, <4>4
    <3>3. QED
      BY <3>1, <3>2
  <2>2. QED
    <3> HIDE DEF Pos
    <3>1. QED
      BY <1>2, <2>1 DEF IsPowers
<1> DEFINE g == CHOOSE h : IsPowers(h)
<1>4. IsPowers(g)
  BY <1>3
<1> HIDE DEF g
<1>5. \A k \in Nat : g[k] = IF k = 0 THEN 1 ELSE 10 * g[k - 1]
  BY <1>4 DEF IsPowers
<1>6. \A k \in Nat : g[k] \in Nat \ {0}
  <2> DEFINE Bad == {k \in Nat : g[k] \notin Nat \ {0}}
  <2>1. SUFFICES ASSUME Bad # {}
                 PROVE  FALSE
    OBVIOUS
  <2>2. PICK k \in Bad : \A l \in Bad : k <= l
    <3>1. Bad \subseteq Nat
      OBVIOUS
    <3> HIDE DEF Bad
    <3>2. QED
      BY <2>1, <3>1, SmallestNumber
  <2>3. k \in Nat /\ g[k] \notin Nat \ {0}
    OBVIOUS
  <2>4. k # 0
    BY <2>3, <1>5
  <2>5. k - 1 \in Nat /\ k - 1 \notin Bad
    <3> HIDE DEF Bad
    <3>1. QED
      BY <2>2, <2>3, <2>4
  <2>6. g[k - 1] \in Nat \ {0}
    BY <2>5
  <2>7. g[k] = 10 * g[k - 1]
    <3> HIDE DEF Bad
    <3>1. QED
      BY <2>3, <2>4, <1>5
  <2> HIDE DEF Bad
  <2>8. QED
    BY <2>3, <2>6, <2>7
<1>7. Pow10(n) = g[n] /\ Pow10(0) = g[0] /\ Pow10(n - 1) = g[n - 1]
  BY DEF Pow10, IsPowers, g
<1>8. n # 0 => n - 1 \in Nat /\ g[n] = 10 * g[n - 1]
  BY <1>5
<1>9. g[0] = 1
  BY <1>5
<1>10. QED
  BY <1>6, <1>7, <1>8, <1>9

----------------------------------------------------------------------------
(* Directives.                                                             *)

\* What _ntoa_format() has in its array before the sign is text.
LEMMA NtoaDigitsType ==
  ASSUME NEW value \in Nat, NEW base \in Bases, NEW upper, NEW flags,
         NEW prec \in Prec, NEW width \in Nat
  PROVE  NtoaDigits(value, base, upper, flags, prec, width) \in Seq(OwnBytes)
<1> DEFINE all == Reversed(value, base, IF upper THEN Upper ELSE Lower)
           digits == IF prec # NoPrec /\ value = 0 THEN <<>> ELSE Upto(all, NtoaSize)
           zeros == Zeros(digits, flags, prec, width)
           hashed == Prefixed(zeros, flags, base, prec, width, upper)
<1>1. all \in Seq(OwnBytes)
  BY ReversedType DEF DigitSets
<1>2. digits \in Seq(OwnBytes)
  <2> HIDE DEF all
  <2>1. QED
    BY <1>1, PrintfSizes, UptoType, Short
<1>3. zeros \in Seq(OwnBytes)
  <2> HIDE DEF digits
  <2>1. QED
    BY <1>2, ZerosType
<1>4. hashed \in Seq(OwnBytes)
  <2> HIDE DEF zeros
  <2>1. QED
    BY <1>3, PrefixedType
<1>5. QED
  BY <1>4 DEF NtoaDigits

\* What _ntoa_long() writes fits into the room there is; it is a number unless
\* the sign finds no digit to take the place of.
LEMMA NtoaFits ==
  ASSUME NEW value \in Nat, NEW negative, NEW base \in Bases, NEW upper, NEW flags,
         NEW prec \in Prec, NEW width \in Nat, NEW maxlen \in Nat,
         NEW str \in Ntoa(value, negative, base, upper, flags, prec, width, maxlen)
  PROVE  /\ str \in Seq(ArrayByte) /\ Len(str) <= maxlen
         /\ ~GivesUpNone(NtoaDigits(value, base, upper, flags, prec, width), negative, flags, width)
              => str \in Seq(OwnBytes)
<1> DEFINE buf == NtoaDigits(value, base, upper, flags, prec, width)
           signed == Signed(buf, negative, flags, width)
           out == Out(signed, flags, width, maxlen)
<1>1. buf \in Seq(OwnBytes)
  BY NtoaDigitsType
<1> HIDE DEF buf
<1>2. signed \in Seq(OwnBytes)
  BY <1>1, SignedType
<1>3. out \in Seq(OwnBytes) /\ Len(out) <= maxlen
  <2> HIDE DEF signed
  <2>1. QED
    BY <1>2, OutFits
<1>4. str \in IF maxlen = 0 THEN {<<>>}
             ELSE IF GivesUpNone(buf, negative, flags, width) THEN [1..maxlen -> Junk]
             ELSE {out}
  BY DEF Ntoa, buf
<1> HIDE DEF out
<1>5. <<>> \in Seq(OwnBytes) /\ Len(<<>>) = 0
  BY Short
<1>6. CASE maxlen = 0
  BY <1>4, <1>5, <1>6, AnyText
<1>7. CASE maxlen # 0 /\ GivesUpNone(buf, negative, flags, width)
  <2>1. str \in [1..maxlen -> Junk]
    BY <1>4, <1>7
  <2>2. str \in [1..maxlen -> ArrayByte]
    BY <2>1, PrintfSizes DEF ArrayByte
  <2>3. str \in Seq(ArrayByte) /\ Len(str) = maxlen
    BY <2>2, BytesMakeText
  <2>4. QED
    BY <1>7, <2>3 DEF buf
<1>8. CASE maxlen # 0 /\ ~GivesUpNone(buf, negative, flags, width)
  <2>1. str = out
    BY <1>4, <1>8
  <2>2. QED
    BY <1>3, <2>1, AnyText
<1>9. QED
  BY <1>6, <1>7, <1>8

\* A rounded float has a number on each side of its point.
LEMMA RoundedType ==
  ASSUME NEW whole \in Nat, NEW eighths \in 0..7, NEW prec \in Nat
  PROVE  Rounded(whole, eighths, prec).whole \in Nat /\ Rounded(whole, eighths, prec).frac \in Nat
<1> DEFINE tmp == eighths * Pow10(prec)
           frac == tmp \div 8
           diff == tmp % 8
           rollover == diff > 4 /\ frac + 1 >= Pow10(prec)
<1>1. tmp \in Nat
  BY Pow10Type
<1>2. frac \in Nat
  <2> HIDE DEF tmp
  <2>1. QED
    BY <1>1
<1> HIDE DEF tmp, frac, diff, rollover
<1>3. Rounded(whole, eighths, prec) =
        [whole |-> IF rollover \/ (prec = 0 /\ diff = 4 /\ whole % 2 = 1) THEN whole + 1 ELSE whole,
         frac |-> IF rollover THEN 0
                  ELSE IF diff > 4 \/ (diff = 4 /\ (frac = 0 \/ frac % 2 = 1)) THEN frac + 1
                  ELSE frac]
  BY DEF Rounded, rollover, diff, frac, tmp
<1>4. QED
  BY <1>2, <1>3

\* The floats of directives.
Float == [negative : BOOLEAN, whole : Nat, eighths : 0..7]

\* What _ftoa() writes fits into the room there is.
LEMMA FtoaFits ==
  ASSUME NEW x \in Float, NEW flags, NEW given \in Prec, NEW width \in Nat, NEW maxlen \in Nat
  PROVE  /\ Ftoa(x, flags, given, width, maxlen) \in Seq(OwnBytes)
         /\ Len(Ftoa(x, flags, given, width, maxlen)) <= maxlen
<1> DEFINE prec == IF given = NoPrec THEN 6 ELSE Atmost(given, 9)
           r == Rounded(x.whole, x.eighths, prec)
           digits == Padded(Reversed(r.frac, 10, Lower), prec, "0")
           fraction == IF prec = 0 THEN <<>> ELSE Append(digits, ".")
           all == fraction \o Reversed(r.whole, 10, Lower)
           buf == Upto(all, NtoaSize)
           zeros == IF "zero" \in flags /\ "left" \notin flags THEN Padded(buf, width, "0") ELSE buf
           negative == x.negative /\ (x.whole > 0 \/ x.eighths > 0)
           signed == Signed(zeros, negative, flags, width)
           out == Out(signed, flags, width, maxlen)
<1>1. prec \in Nat
  BY DEF Prec, Atmost
<1>2. r.whole \in Nat /\ r.frac \in Nat
  <2> HIDE DEF prec
  <2>1. x.whole \in Nat /\ x.eighths \in 0..7
    BY DEF Float
  <2>2. QED
    BY <1>1, <2>1, RoundedType
<1>3. 10 \in Bases /\ Lower \in DigitSets
  BY DEF Bases, DigitSets
<1>4. digits \in Seq(OwnBytes)
  <2> HIDE DEF r, prec
  <2>1. Reversed(r.frac, 10, Lower) \in Seq(OwnBytes)
    BY <1>2, <1>3, ReversedType
  <2>2. QED
    BY <1>1, <2>1, OwnOnes, PaddedType
<1>5. fraction \in Seq(OwnBytes)
  <2> HIDE DEF digits, prec
  <2>1. Append(digits, ".") \in Seq(OwnBytes)
    BY <1>4, OwnOnes, Appended
  <2>2. QED
    BY <2>1, Short
<1>6. all \in Seq(OwnBytes)
  <2> HIDE DEF fraction, r
  <2>1. Reversed(r.whole, 10, Lower) \in Seq(OwnBytes)
    BY <1>2, <1>3, ReversedType
  <2>2. QED
    BY <1>5, <2>1, Joined
<1>7. buf \in Seq(OwnBytes)
  <2> HIDE DEF all
  <2>1. QED
    BY <1>6, PrintfSizes, UptoType
<1>8. zeros \in Seq(OwnBytes)
  <2> HIDE DEF buf
  <2>1. Padded(buf, width, "0") \in Seq(OwnBytes)
    BY <1>7, OwnOnes, PaddedType
  <2>2. QED
    BY <1>7, <2>1
<1>9. signed \in Seq(OwnBytes)
  <2> HIDE DEF zeros, negative
  <2>1. QED
    BY <1>8, SignedType
<1>10. out \in Seq(OwnBytes) /\ Len(out) <= maxlen
  <2> HIDE DEF signed
  <2>1. QED
    BY <1>9, OutFits
<1>11. Ftoa(x, flags, given, width, maxlen)
         = IF x.whole > Threshold \/ (x.whole = Threshold /\ x.eighths > 0) THEN <<>> ELSE out
  BY DEF Ftoa
<1> HIDE DEF out
<1>12. QED
  BY <1>10, <1>11, Short

\* What `%s' writes fits into the room there is.
LEMMA StrFits ==
  ASSUME NEW s \in Seq(Byte), NEW flags, NEW prec \in Prec, NEW width \in Nat, NEW maxlen \in Nat
  PROVE  /\ Str(s, flags, prec, width, maxlen) \in Seq(Byte)
         /\ Len(Str(s, flags, prec, width, maxlen)) <= maxlen
<1> DEFINE n == IF prec = NoPrec THEN Len(s) ELSE prec
           taken == Upto(s, n)
           gap == width - Len(taken)
           pad == Repeat(" ", Max({0, gap}))
           all == IF "left" \in flags THEN taken \o pad ELSE pad \o taken
<1>1. n \in Nat
  BY LenOf DEF Prec
<1>2. taken \in Seq(Byte)
  <2> HIDE DEF n
  <2>1. QED
    BY <1>1, UptoType
<1>3. gap \in Int
  <2> HIDE DEF taken
  <2>1. QED
    BY <1>2, LenOf
<1>4. pad \in Seq(Byte)
  <2> HIDE DEF gap
  <2>1. Max({0, gap}) \in Nat
    BY <1>3, AtLeastZero
  <2>2. QED
    BY <2>1, Own, RepeatType
<1>5. all \in Seq(Byte)
  <2> HIDE DEF taken, pad
  <2>1. QED
    BY <1>2, <1>4, Joined
<1>6. Str(s, flags, prec, width, maxlen) = Upto(all, maxlen)
  BY DEF Str
<1> HIDE DEF all
<1>7. QED
  BY <1>5, <1>6, UptoType

\* The character of a directive is written even where its padding has left no
\* room for it.
LEMMA CharFits ==
  ASSUME NEW byte \in ArrayByte, NEW flags, NEW width \in Nat, NEW maxlen \in Nat \ {0}
  PROVE  /\ Char(byte, flags, width, maxlen) \in Seq(ArrayByte)
         /\ Len(Char(byte, flags, width, maxlen)) <= maxlen + 1
         /\ "left" \in flags \/ width <= maxlen => Len(Char(byte, flags, width, maxlen)) <= maxlen
<1> DEFINE w == Max({0, width - 1})
           m == Max({0, maxlen - 1})
           pad == Repeat(" ", w)
           after == <<byte>> \o Upto(pad, m)
           before == Append(Upto(pad, maxlen), byte)
<1>1. width - 1 \in Int /\ maxlen - 1 \in Int
  OBVIOUS
<1>2. w \in Nat /\ (width <= maxlen => w < maxlen) /\ m = maxlen - 1 /\ m \in Nat
  BY <1>1, AtLeastZero
<1>3. pad \in Seq(ArrayByte) /\ Len(pad) = w
  <2> HIDE DEF w
  <2>1. QED
    BY <1>2, Own, AnyText, RepeatType
<1> HIDE DEF w, m, pad
<1>4. Upto(pad, m) \in Seq(ArrayByte) /\ Len(Upto(pad, m)) <= m
  BY <1>2, <1>3, UptoType
<1>5. after \in Seq(ArrayByte) /\ Len(after) <= maxlen /\ Len(after) <= maxlen + 1
  <2>1. <<byte>> \in Seq(ArrayByte) /\ Len(<<byte>>) = 1
    BY Short
  <2>2. after \in Seq(ArrayByte) /\ Len(after) = 1 + Len(Upto(pad, m)) /\ Len(Upto(pad, m)) \in Nat
    BY <1>4, <2>1, Joined, LenOf
  <2> HIDE DEF after
  <2>3. QED
    BY <1>2, <1>4, <2>2
<1>6. Upto(pad, maxlen) \in Seq(ArrayByte) /\ Len(Upto(pad, maxlen)) = Atmost(maxlen, w)
  BY <1>3, UptoType
<1>7. /\ before \in Seq(ArrayByte) /\ Len(before) <= maxlen + 1
      /\ width <= maxlen => Len(before) <= maxlen
  <2>1. before \in Seq(ArrayByte) /\ Len(before) = Atmost(maxlen, w) + 1
    BY <1>6, Appended
  <2>2. /\ width <= maxlen => Atmost(maxlen, w) < maxlen
        /\ Atmost(maxlen, w) \in Nat /\ Atmost(maxlen, w) <= maxlen
    BY <1>2 DEF Atmost
  <2> HIDE DEF before
  <2>3. QED
    BY <2>1, <2>2
<1>8. Char(byte, flags, width, maxlen) = IF "left" \in flags THEN after ELSE before
  BY DEF Char, w, m, pad
<1> HIDE DEF after, before
<1>9. QED
  BY <1>5, <1>7, <1>8

----------------------------------------------------------------------------
\* Two bytes are text.
LEMMA TwoBytes ==
  ASSUME NEW a \in Byte, NEW b \in Byte
  PROVE  <<a, b>> \in Seq(Byte)
OBVIOUS

\* A directive writes what fits into the room there is, unless its padding has
\* crowded a character out; it writes text unless it takes bytes from elsewhere.
LEMMA WrittenFits ==
  ASSUME NEW d, IsDirective(d), NEW maxlen \in Nat \ {0}, NEW str \in Written(d, maxlen)
  PROVE  /\ str \in Seq(ArrayByte) /\ Len(str) <= maxlen + 1
         /\ ~Crowds(d, maxlen) => Len(str) <= maxlen
         /\ d.spec \notin {"s", "c", "other"} /\ ~Cuts(d) => str \in Seq(OwnBytes)
<1> DEFINE flags == FlagsOf(d)
           prec == Precision(d.prec)
<1>1. d.width \in Nat /\ prec \in Prec
  BY PrecisionType DEF IsDirective
<1> HIDE DEF prec
<1>2. SUFFICES /\ str \in Seq(ArrayByte) /\ (Len(str) <= maxlen \/ (Len(str) <= maxlen + 1 /\ Crowds(d, maxlen)))
               /\ d.spec \notin {"s", "c", "other"} /\ ~Cuts(d) => str \in Seq(OwnBytes)
  <2>1. str \in Seq(ArrayByte) => Len(str) \in Nat
    BY LenOf
  <2>2. QED
    BY <2>1
<1>3. CASE d.spec = "d"
  <2> DEFINE n == IF d.arg < 0 THEN -d.arg ELSE d.arg
             neg == d.arg < 0
             up == FALSE
             buf == NtoaDigits(n, 10, up, flags, prec, d.width)
  <2>1. n \in Nat /\ n = Max({d.arg, -d.arg})
    BY <1>3, GreaterIs DEF IsDirective
  <2>2. str \in Ntoa(n, neg, 10, up, flags, prec, d.width, maxlen)
    BY <1>3 DEF Written, prec
  <2>3. ~Cuts(d) => ~GivesUpNone(buf, neg, flags, d.width)
    <3>1. GivesUpNone(NtoaDigits(Max({d.arg, -d.arg}), 10, FALSE, FlagsOf(d), Precision(d.prec), d.width),
                      d.arg < 0, FlagsOf(d), d.width) => Cuts(d)
      BY <1>3 DEF Cuts
    <3> HIDE DEF n
    <3>2. QED
      BY <2>1, <3>1 DEF prec
  <2>4. 10 \in Bases
    BY DEF Bases
  <2> HIDE DEF n, neg, up, flags
  <2>5. QED
    BY <1>1, <2>1, <2>2, <2>3, <2>4, NtoaFits
<1>4. ASSUME NEW base \in Bases, d.spec \in Unsigned,
             str \in Ntoa(d.arg, FALSE, base, d.spec = "X", flags, prec, d.width, maxlen)
      PROVE  str \in Seq(OwnBytes) /\ Len(str) <= maxlen
  <2>1. d.arg \in Nat /\ flags \cap {"plus", "space"} = {}
    BY <1>4 DEF IsDirective, FlagsOf, Unsigned
  <2> DEFINE neg == FALSE
             up == d.spec = "X"
             buf == NtoaDigits(d.arg, base, up, flags, prec, d.width)
  <2>2. ~GivesUpNone(buf, neg, flags, d.width)
    BY <2>1 DEF GivesUpNone, Signs
  <2>3. str \in Ntoa(d.arg, neg, base, up, flags, prec, d.width, maxlen)
    BY <1>4
  <2> HIDE DEF neg, up, flags
  <2>4. QED
    BY <1>1, <1>4, <2>1, <2>2, <2>3, NtoaFits
<1>5. CASE d.spec \in Unsigned
  <2>1. \E base \in Bases : str \in Ntoa(d.arg, FALSE, base, d.spec = "X", flags, prec, d.width, maxlen)
    BY <1>5 DEF Written, Unsigned, Bases, prec
  <2> HIDE DEF flags
  <2>2. str \in Seq(OwnBytes) /\ Len(str) <= maxlen
    BY <1>4, <1>5, <2>1
  <2>3. QED
    BY <2>2, AnyText
<1>6. CASE d.spec = "f"
  <2>1. d.arg \in Float
    BY <1>6 DEF IsDirective, Float
  <2>2. str = Ftoa(d.arg, flags, prec, d.width, maxlen)
    BY <1>6 DEF Written, prec
  <2> HIDE DEF flags
  <2>3. QED
    BY <1>1, <2>1, <2>2, FtoaFits, AnyText
<1>7. CASE d.spec = "s"
  <2>1. d.arg \in Seq(Byte)
    BY <1>7 DEF IsDirective
  <2>2. str = Str(d.arg, flags, prec, d.width, maxlen)
    BY <1>7 DEF Written, prec
  <2> HIDE DEF flags
  <2>3. QED
    BY <1>1, <1>7, <2>1, <2>2, StrFits, AnyText
<1>8. CASE d.spec = "c"
  <2>1. d.arg \in ArrayByte
    BY <1>8 DEF IsDirective, ArrayByte
  <2>2. str = Char(d.arg, flags, d.width, maxlen) /\ flags = d.flags
    BY <1>8 DEF Written, FlagsOf
  <2> HIDE DEF flags
  <2>3. /\ str \in Seq(ArrayByte) /\ Len(str) <= maxlen + 1
        /\ "left" \in flags \/ d.width <= maxlen => Len(str) <= maxlen
    BY <1>1, <2>1, <2>2, CharFits
  <2>4. "left" \in flags \/ d.width <= maxlen \/ Crowds(d, maxlen)
    BY <1>1, <1>8, <2>2 DEF Crowds
  <2>5. QED
    BY <1>8, <2>3, <2>4
<1>9. CASE d.spec = "%"
  <2>1. str = <<"%">>
    BY <1>9 DEF Written
  <2>2. <<"%">> \in Seq(OwnBytes) /\ Len(<<"%">>) = 1
    BY OwnOnes, Short
  <2>3. str \in Seq(OwnBytes) /\ Len(str) = 1
    BY <2>1, <2>2
  <2>4. QED
    BY <2>3, AnyText
<1>10. CASE d.spec = "other"
  <2>1. str = <<d.arg>> /\ d.arg \in ArrayByte
    BY <1>10 DEF Written, IsDirective, ArrayByte
  <2>2. str \in Seq(ArrayByte) /\ Len(str) = 1
    BY <2>1, Short
  <2>3. QED
    BY <1>10, <2>2
<1>11. QED
  BY <1>3, <1>5, <1>6, <1>7, <1>8, <1>9, <1>10 DEF IsDirective

\* The padding of a field is text.
LEMMA GapFilled ==
  ASSUME NEW B, NEW byte \in B, NEW n \in Int
  PROVE  Repeat(byte, Max({0, n})) \in Seq(B)
<1>1. Max({0, n}) \in Nat
  BY AtLeastZero
<1>2. QED
  BY <1>1, RepeatType

\* A field of C is text.
LEMMA CFieldType ==
  ASSUME NEW B, OwnBytes \subseteq B, NEW prefix \in Seq(B), NEW digits \in Seq(B), NEW flags, NEW width \in Nat, NEW mayZero
  PROVE  CField(prefix, digits, flags, width, mayZero) \in Seq(B)
<1> DEFINE n == width - Len(prefix) - Len(digits)
           blanks == Repeat(" ", Max({0, n}))
           zeros == Repeat("0", Max({0, n}))
<1>1. n \in Int
  BY LenOf
<1>2. blanks \in Seq(B) /\ zeros \in Seq(B)
  <2> HIDE DEF n
  <2>1. QED
    BY <1>1, OwnOnes, GapFilled
<1>3. CField(prefix, digits, flags, width, mayZero)
        \in {prefix \o digits \o blanks, prefix \o zeros \o digits, blanks \o prefix \o digits}
  BY DEF CField
<1> HIDE DEF blanks, zeros
<1>4. prefix \o digits \in Seq(B) /\ prefix \o zeros \in Seq(B) /\ blanks \o prefix \in Seq(B)
  BY <1>2, Joined
<1>5. /\ prefix \o digits \o blanks \in Seq(B) /\ prefix \o zeros \o digits \in Seq(B)
      /\ blanks \o prefix \o digits \in Seq(B)
  BY <1>2, <1>4, Joined
<1>6. QED
  BY <1>3, <1>5

\* A sign of C is text.
LEMMA CSignType ==
  ASSUME NEW negative, NEW flags
  PROVE  CSign(negative, flags) \in Seq(Byte)
<1>1. CSign(negative, flags) \in {<<"-">>, <<"+">>, <<" ">>, <<>>}
  BY DEF CSign
<1>2. QED
  BY <1>1, Own, Short

\* An integer of C is text.
LEMMA CIntegerType ==
  ASSUME NEW value \in Nat, NEW prefix \in Seq(Byte), NEW base \in Bases, NEW digit \in DigitSets,
         NEW flags, NEW prec \in Prec, NEW width \in Nat
  PROVE  CInteger(value, prefix, base, digit, flags, prec, width) \in Seq(Byte)
<1> DEFINE all == Reverse(Reversed(value, base, digit))
           n == prec - Len(all)
           digits == IF prec = NoPrec THEN all
                     ELSE IF value = 0 THEN Repeat("0", prec)
                     ELSE Repeat("0", Max({0, n})) \o all
<1>1. all \in Seq(Byte)
  <2>1. Reversed(value, base, digit) \in Seq(Byte)
    BY ReversedType, OwnText
  <2>2. QED
    BY <2>1, ReverseType
<1> HIDE DEF all
<1>2. CASE prec = NoPrec
  <2>1. digits = all
    BY <1>2
  <2>2. QED
    BY <1>1, <2>1, BytesOfText, CFieldType DEF CInteger, all
<1>3. CASE prec # NoPrec
  <2>1. prec \in Nat /\ n \in Int
    BY <1>1, <1>3, LenOf DEF Prec
  <2>2. Repeat("0", prec) \in Seq(Byte)
    BY <2>1, Own, RepeatType
  <2>3. Repeat("0", Max({0, n})) \o all \in Seq(Byte)
    <3> HIDE DEF n
    <3>1. Repeat("0", Max({0, n})) \in Seq(Byte)
      BY <2>1, Own, GapFilled
    <3>2. QED
      BY <1>1, <3>1, Joined
  <2>4. digits \in Seq(Byte)
    BY <1>1, <2>2, <2>3
  <2>5. CInteger(value, prefix, base, digit, flags, prec, width)
          = CField(prefix, digits, flags, width, prec = NoPrec)
    BY DEF CInteger, all
  <2> HIDE DEF digits
  <2>6. QED
    BY <2>4, <2>5, BytesOfText, CFieldType
<1>4. QED
  BY <1>2, <1>3

\* A quotient and a remainder are numbers.
LEMMA Quotient ==
  ASSUME NEW n \in Nat, NEW m \in Nat \ {0}
  PROVE  n \div m \in Nat /\ n % m \in Nat
OBVIOUS

\* A float of C is text.
LEMMA CFloatType ==
  ASSUME NEW x \in Float, NEW flags, NEW given \in Prec, NEW width \in Nat
  PROVE  CFloat(x, flags, given, width) \in Seq(Byte)
<1> DEFINE prec == IF given = NoPrec THEN 6 ELSE given
           n == (8 * x.whole + x.eighths) * Pow10(prec)
           q == n \div 8
           up == n % 8 > 4 \/ (n % 8 = 4 /\ q % 2 = 1)
           r == IF up THEN q + 1 ELSE q
           upper == r \div Pow10(prec)
           lower == r % Pow10(prec)
           whole == Reverse(Reversed(upper, 10, Lower))
           frac == Reverse(Padded(Reversed(lower, 10, Lower), prec, "0"))
           all == IF prec = 0 THEN whole ELSE whole \o <<".">> \o frac
<1>1. prec \in Nat
  BY DEF Prec
<1>2. Pow10(prec) \in Nat \ {0}
  <2> HIDE DEF prec
  <2>1. QED
    BY <1>1, Pow10Type
<1>3. n \in Nat
  <2> HIDE DEF prec
  <2>1. x.whole \in Nat /\ x.eighths \in Nat
    BY DEF Float
  <2> DEFINE count == 8 * x.whole + x.eighths
             power == Pow10(prec)
  <2>2. count \in Nat /\ power \in Nat
    BY <1>2, <2>1
  <2> HIDE DEF count, power
  <2>3. count * power \in Nat
    BY <2>2
  <2>4. QED
    BY <2>3 DEF count, power
<1>4. r \in Nat
  <2> HIDE DEF n
  <2>1. q \in Nat
    BY <1>3
  <2> HIDE DEF q, up
  <2>2. QED
    BY <2>1
<1>5. upper \in Nat /\ lower \in Nat
  <2> HIDE DEF r, prec
  <2>1. QED
    BY <1>2, <1>4, Quotient
<1>6. 10 \in Bases /\ Lower \in DigitSets
  BY DEF Bases, DigitSets
<1>7. whole \in Seq(Byte)
  <2> HIDE DEF upper
  <2>1. QED
    BY <1>5, <1>6, ReversedType, ReverseType, OwnText
<1>8. frac \in Seq(Byte)
  <2> HIDE DEF lower, prec
  <2>1. Padded(Reversed(lower, 10, Lower), prec, "0") \in Seq(Byte)
    BY <1>1, <1>5, <1>6, Own, ReversedType, PaddedType, OwnText
  <2>2. QED
    BY <2>1, ReverseType
<1>9. all \in Seq(Byte)
  <2> HIDE DEF whole, frac, prec
  <2>1. <<".">> \in Seq(Byte)
    BY Own, Short
  <2>2. whole \o <<".">> \in Seq(Byte)
    BY <1>7, <2>1, Joined
  <2>3. whole \o <<".">> \o frac \in Seq(Byte)
    BY <1>8, <2>2, Joined
  <2>4. QED
    BY <1>7, <2>3
<1>10. CFloat(x, flags, given, width) = CField(CSign(x.negative, flags), all, flags, width, TRUE)
  BY DEF CFloat
<1> HIDE DEF all
<1>11. QED
  BY <1>9, <1>10, BytesOfText, CSignType, CFieldType

\* What C writes is text as well, and a byte that `%c' is given.
LEMMA CWrittenType ==
  ASSUME NEW d, IsDirective(d)
  PROVE  CWritten(d) \in Seq(ArrayByte)
<1> DEFINE flags == FlagsOf(d)
           prec == IF d.prec # NoPrec /\ d.prec < 0 THEN NoPrec ELSE d.prec
           Hex(prefix) == IF "hash" \in flags /\ d.arg # 0 THEN prefix ELSE <<>>
           two == <<"0", "x">>
           twoUpper == <<"0", "X">>
<1>1. d.width \in Nat /\ d.prec \in {NoPrec} \cup Int /\ NoPrec \notin Int
  BY PrintfSizes DEF IsDirective
<1>2. prec \in Prec
  BY <1>1 DEF Prec
<1> HIDE DEF prec
<1>3. /\ <<>> \in Seq(Byte) /\ two \in Seq(Byte) /\ twoUpper \in Seq(Byte)
      /\ Hex(two) \in Seq(Byte) /\ Hex(twoUpper) \in Seq(Byte)
  <2>1. <<>> \in Seq(Byte) /\ two \in Seq(Byte) /\ twoUpper \in Seq(Byte)
    BY Short, Own, TwoBytes
  <2> HIDE DEF two, twoUpper
  <2>2. QED
    BY <2>1
<1>4. CASE d.spec = "d"
  <2> DEFINE n == IF d.arg < 0 THEN -d.arg ELSE d.arg
             sign == CSign(d.arg < 0, flags)
  <2>1. n \in Nat
    BY <1>4 DEF IsDirective
  <2>2. CWritten(d) = CInteger(n, sign, 10, Lower, flags, prec, d.width)
    BY <1>4 DEF CWritten, prec
  <2>3. sign \in Seq(Byte)
    BY CSignType
  <2> HIDE DEF n, sign, flags
  <2>4. CInteger(n, sign, 10, Lower, flags, prec, d.width) \in Seq(Byte)
    BY <1>1, <1>2, <2>1, <2>3, CIntegerType DEF Bases, DigitSets
  <2>5. QED
    BY <2>2, <2>4, AnyText
<1>5. ASSUME NEW base \in Bases, NEW digit \in DigitSets, NEW prefix \in Seq(Byte), d.spec \in Unsigned,
             CWritten(d) = CInteger(d.arg, prefix, base, digit, flags, prec, d.width)
      PROVE  CWritten(d) \in Seq(ArrayByte)
  <2>1. d.arg \in Nat
    BY <1>5 DEF IsDirective
  <2> HIDE DEF flags
  <2>2. QED
    BY <1>1, <1>2, <1>5, <2>1, CIntegerType, AnyText
<1>6. CASE d.spec \in Unsigned
  <2>1. PICK base \in Bases, digit \in DigitSets, prefix \in {<<>>, Hex(two), Hex(twoUpper)} :
          CWritten(d) = CInteger(d.arg, prefix, base, digit, flags, prec, d.width)
    <3>1. CASE d.spec = "u"
      <4>1. CWritten(d) = CInteger(d.arg, <<>>, 10, Lower, flags, prec, d.width)
        BY <3>1 DEF CWritten, prec
      <4>2. QED
        BY <4>1 DEF Bases, DigitSets
    <3>2. CASE d.spec = "x"
      <4>1. CWritten(d) = CInteger(d.arg, Hex(two), 16, Lower, flags, prec, d.width)
        BY <3>2 DEF CWritten, prec
      <4>2. QED
        BY <4>1 DEF Bases, DigitSets
    <3>3. CASE d.spec = "X"
      <4>1. CWritten(d) = CInteger(d.arg, Hex(twoUpper), 16, Upper, flags, prec, d.width)
        BY <3>3 DEF CWritten, prec
      <4>2. QED
        BY <4>1 DEF Bases, DigitSets
    <3>4. CASE d.spec = "o"
      <4>1. CWritten(d) = CInteger(d.arg, <<>>, 8, Lower, flags, prec, d.width)
        BY <3>4 DEF CWritten, prec
      <4>2. QED
        BY <4>1 DEF Bases, DigitSets
    <3>5. CASE d.spec = "b"
      <4>1. CWritten(d) = CInteger(d.arg, <<>>, 2, Lower, flags, prec, d.width)
        BY <3>5 DEF CWritten, prec
      <4>2. QED
        BY <4>1 DEF Bases, DigitSets
    <3>6. QED
      BY <1>6, <3>1, <3>2, <3>3, <3>4, <3>5 DEF Unsigned
  <2>2. prefix \in Seq(Byte)
    <3> HIDE DEF two, twoUpper, Hex
    <3>1. QED
      BY <1>3
  <2>3. QED
    BY <1>5, <1>6, <2>1, <2>2
<1>7. CASE d.spec = "f"
  <2>1. d.arg \in Float
    BY <1>7 DEF IsDirective, Float
  <2>2. CWritten(d) = CFloat(d.arg, flags, prec, d.width)
    BY <1>7 DEF CWritten, prec
  <2> HIDE DEF flags
  <2>3. QED
    BY <1>1, <1>2, <2>1, <2>2, CFloatType, AnyText
<1>8. CASE d.spec = "s"
  <2> DEFINE taken == IF prec = NoPrec THEN d.arg ELSE Upto(d.arg, prec)
  <2>1. d.arg \in Seq(Byte)
    BY <1>8 DEF IsDirective
  <2>2. CWritten(d) = CField(<<>>, taken, flags, d.width, FALSE)
    BY <1>8 DEF CWritten, prec
  <2>3. taken \in Seq(Byte)
    <3>1. prec # NoPrec => prec \in Nat
      BY <1>2 DEF Prec
    <3>2. QED
      BY <2>1, <3>1, UptoType
  <2> HIDE DEF taken, flags
  <2> DEFINE mayZero == FALSE
  <2>4. CWritten(d) = CField(<<>>, taken, flags, d.width, mayZero)
    BY <2>2
  <2> HIDE DEF mayZero
  <2>5. CField(<<>>, taken, flags, d.width, mayZero) \in Seq(Byte)
    BY <1>1, <1>3, <2>3, BytesOfText, CFieldType
  <2>6. QED
    BY <2>4, <2>5, AnyText
<1>9. CASE d.spec = "c"
  <2>1. <<d.arg>> \in Seq(ArrayByte) /\ <<>> \in Seq(ArrayByte)
    BY <1>9, Short DEF IsDirective, ArrayByte
  <2> DEFINE mayZero == FALSE
             only == <<d.arg>>
  <2>2. CWritten(d) = CField(<<>>, only, flags, d.width, mayZero)
    BY <1>9 DEF CWritten
  <2>3. OwnBytes \subseteq ArrayByte
    BY BytesOfText, AnyText
  <2> HIDE DEF mayZero, only, flags
  <2>4. CField(<<>>, only, flags, d.width, mayZero) \in Seq(ArrayByte)
    BY <1>1, <2>1, <2>3, CFieldType DEF only
  <2>5. QED
    BY <2>2, <2>4
<1>10. CASE d.spec = "%"
  <2>1. CWritten(d) = <<"%">>
    BY <1>10 DEF CWritten
  <2>2. QED
    BY <2>1, Own, Short, AnyText
<1>11. CASE d.spec = "other"
  <2>1. CWritten(d) = <<>>
    BY <1>11 DEF CWritten
  <2>2. QED
    BY <2>1, Short
<1>12. QED
  BY <1>4, <1>6, <1>7, <1>8, <1>9, <1>10, <1>11 DEF IsDirective

----------------------------------------------------------------------------
(* The array of a native and what is sent of it.                           *)

LEMMA LargestIn ==
  ASSUME NEW n \in Nat, NEW S \in SUBSET (0..n), S # {}
  PROVE  Max(S) \in S /\ \A k \in S : k <= Max(S)
<1> DEFINE T == {n - k : k \in S}
<1>1. T \subseteq Nat /\ T # {}
  <2>1. ASSUME NEW k \in S PROVE n - k \in Nat
    <3>1. k \in 0..n
      OBVIOUS
    <3>2. QED
      BY <3>1
  <2>2. PICK k \in S : TRUE
    OBVIOUS
  <2>3. n - k \in T
    OBVIOUS
  <2>4. QED
    BY <2>1, <2>3
<1>2. PICK t \in T : \A u \in T : t <= u
  <2> HIDE DEF T
  <2>1. QED
    BY <1>1, SmallestNumber
<1>3. PICK m \in S : t = n - m
  OBVIOUS
<1>4. ASSUME NEW k \in S
      PROVE  m >= k
  <2>1. n - k \in T
    OBVIOUS
  <2>2. n - m <= n - k
    BY <1>2, <1>3, <2>1
  <2> HIDE DEF T
  <2>3. m \in 0..n /\ k \in 0..n
    OBVIOUS
  <2>4. QED
    BY <2>2, <2>3
<1>5. \E x \in S : \A y \in S : x >= y
  BY <1>4
<1>6. Max(S) \in S /\ \A y \in S : Max(S) >= y
  BY <1>5 DEF Max
<1>7. S \subseteq Int
  OBVIOUS
<1>8. QED
  BY <1>6, <1>7

\* The text in an array ends before its first NUL, and has none itself.
LEMMA CStringIs ==
  ASSUME NEW bytes \in Seq(ArrayByte)
  PROVE  /\ CString(bytes) \in Seq(Byte) /\ Len(CString(bytes)) <= Len(bytes)
         /\ \/ CString(bytes) = bytes /\ \A k \in 1..Len(bytes) : bytes[k] # NUL
            \/ \E k \in 1..Len(bytes) : /\ bytes[k] = NUL /\ CString(bytes) = SubSeq(bytes, 1, k - 1)
                                         /\ \A j \in 1..k - 1 : bytes[j] # NUL
<1> DEFINE ends == {k \in DOMAIN bytes : bytes[k] = NUL}
<1>1. Len(bytes) \in Nat /\ DOMAIN bytes = 1..Len(bytes) /\ \A k \in 1..Len(bytes) : bytes[k] \in ArrayByte
  BY LenOf
<1>2. CASE ends = {}
  <2>1. CString(bytes) = bytes
    BY <1>2 DEF CString
  <2>2. \A k \in 1..Len(bytes) : bytes[k] # NUL
    BY <1>1, <1>2
  <2>3. \A k \in 1..Len(bytes) : bytes[k] \in Byte
    BY <1>1, <2>2 DEF ArrayByte
  <2>4. bytes \in Seq(Byte)
    BY <1>1, <2>3
  <2>5. QED
    BY <1>1, <2>1, <2>2, <2>4
<1>3. CASE ends # {}
  <2>1. PICK k \in ends : \A j \in ends : k <= j
    <3>1. ends \subseteq Nat
      BY <1>1
    <3> HIDE DEF ends
    <3>2. QED
      BY <1>3, <3>1, SmallestNumber
  <2>2. \A x \in ends : (\A y \in ends : x <= y) => x = k
    <3>1. ends \subseteq Nat
      BY <1>1
    <3> HIDE DEF ends
    <3>2. QED
      BY <2>1, <3>1
  <2>3. Min(ends) = k
    <3> HIDE DEF ends
    <3>1. QED
      BY <2>1, <2>2 DEF Min
  <2>4. CString(bytes) = SubSeq(bytes, 1, k - 1)
    BY <1>3, <2>3 DEF CString
  <2>5. k \in 1..Len(bytes) /\ bytes[k] = NUL
    BY <1>1
  <2>6. ASSUME NEW j \in 1..k - 1
        PROVE  bytes[j] # NUL /\ j \in 1..Len(bytes)
    <3>1. j \in 1..Len(bytes) /\ ~(k <= j)
      BY <1>1, <2>5
    <3>2. j \notin ends
      <4> HIDE DEF ends
      <4>1. QED
        BY <2>1, <3>1
    <3>3. QED
      BY <1>1, <3>1, <3>2
  <2> HIDE DEF ends
  <2>7. k - 1 \in Nat /\ k - 1 <= Len(bytes)
    BY <1>1, <2>5
  <2>8. /\ SubSeq(bytes, 1, k - 1) \in Seq(ArrayByte) /\ Len(SubSeq(bytes, 1, k - 1)) = k - 1
        /\ \A j \in 1..k - 1 : SubSeq(bytes, 1, k - 1)[j] = bytes[j]
    BY <2>7, SubSeqProperties
  <2>9. \A j \in 1..k - 1 : SubSeq(bytes, 1, k - 1)[j] \in Byte
    BY <1>1, <2>6, <2>8 DEF ArrayByte
  <2>10. SubSeq(bytes, 1, k - 1) \in Seq(Byte)
    BY <2>7, <2>8, <2>9
  <2>11. QED
    BY <2>4, <2>5, <2>6, <2>7, <2>8, <2>10
<1>4. QED
  BY <1>2, <1>3

\* Text without its last character is text.
LEMMA TrimmedType ==
  ASSUME NEW str \in Seq(Byte)
  PROVE  Trimmed(str) \in Seq(Byte)
<1> DEFINE K == {k \in DOMAIN str : ~Follows(str[k])} \cup {0}
           pos == Max(K)
<1>1. Len(str) \in Nat /\ DOMAIN str = 1..Len(str)
  BY LenOf
<1>2. K \in SUBSET (0..Len(str)) /\ K # {}
  BY <1>1
<1>3. pos \in 0..Len(str)
  <2> HIDE DEF K
  <2>1. QED
    BY <1>1, <1>2, LargestIn
<1>4. Trimmed(str) \in {str, SubSeq(str, 1, pos - 1)} /\ (pos = 0 => Trimmed(str) = str)
  BY DEF Trimmed
<1> HIDE DEF pos
<1>5. pos # 0 => SubSeq(str, 1, pos - 1) \in Seq(Byte)
  <2>1. ASSUME pos # 0
        PROVE  pos - 1 \in Nat /\ pos - 1 <= Len(str)
    BY <1>1, <1>3, <2>1
  <2>2. QED
    BY <2>1, SubSeqProperties
<1>6. QED
  BY <1>4, <1>5

\* What is sent to a player is text.
LEMMA MessageType ==
  ASSUME NEW str \in Seq(Byte), NEW dest, NEW cstrike
  PROVE  Message(str, dest, cstrike) \in Seq(Byte)
<1> DEFINE returned == [k \in DOMAIN str |-> IF str[k] = "\n" THEN "\r" ELSE str[k]]
           line == IF cstrike /\ dest = "center" THEN returned ELSE str
           whole == IF Len(str) > ConsoleLimit /\ dest \in {"notify", "console"}
                    THEN Trimmed(line) ELSE line
           end == IF ~cstrike \/ dest \in {"notify", "console"} THEN <<"\n", "\n">> ELSE <<"\n">>
<1>1. returned \in Seq(Byte)
  <2>1. Len(str) \in Nat /\ DOMAIN str = 1..Len(str) /\ \A k \in 1..Len(str) : str[k] \in Byte
    BY LenOf
  <2>2. returned \in [1..Len(str) -> Byte]
    BY <2>1, Own
  <2> HIDE DEF returned
  <2>3. QED
    BY <2>1, <2>2, BytesMakeText
<1>2. line \in Seq(Byte)
  <2> HIDE DEF returned
  <2>1. QED
    BY <1>1
<1>3. whole \in Seq(Byte)
  <2> HIDE DEF line
  <2>1. Trimmed(line) \in Seq(Byte)
    BY <1>2, TrimmedType
  <2>2. QED
    BY <1>2, <2>1
<1>4. end \in Seq(Byte)
  <2>1. <<"\n">> \in Seq(Byte) /\ <<"\n", "\n">> \in Seq(Byte)
    BY Own, Short, TwoBytes
  <2>2. QED
    BY <2>1
<1>5. Message(str, dest, cstrike) = whole \o end
  BY DEF Message
<1> HIDE DEF whole, end
<1>6. QED
  BY <1>3, <1>4, <1>5, Joined

\* What NumToString() copies is text.
LEMMA NumberType ==
  ASSUME NEW n \in Int, NEW size \in Nat
  PROVE  Upto((IF n < 0 THEN <<"-">> ELSE <<>>)
                 \o Reverse(Reversed(Max({n, -n}), 10, Lower)), size) \in Seq(Byte)
<1> DEFINE sign == IF n < 0 THEN <<"-">> ELSE <<>>
           m == Max({n, -n})
           digits == Reverse(Reversed(m, 10, Lower))
<1>1. m \in Nat
  BY GreaterIs
<1>2. digits \in Seq(Byte)
  <2> HIDE DEF m
  <2>1. QED
    BY <1>1, ReversedType, ReverseType, OwnText DEF Bases, DigitSets
<1>3. sign \in Seq(Byte)
  BY Own, Short
<1> HIDE DEF sign, digits
<1>4. sign \o digits \in Seq(Byte)
  BY <1>2, <1>3, Joined
<1>5. Upto(sign \o digits, size) \in Seq(Byte)
  BY <1>4, UptoType
<1>6. QED
  BY <1>5 DEF sign, digits, m


\* One byte more than the array has, if padding has crowded a character out.
Spill == IF crowded THEN 1 ELSE 0

\* How far formatString() has written: all of the text and, at the end, its NUL.
Within ==
  /\ WriteTypeOK /\ Len(text) <= Size + Spill
  /\ stage = "format" => reach = Len(text)
  /\ stage = "formatted" => reach <= Size + Spill + Spill
  /\ reach <= Array + Spill

\* The array is as long as formatString() takes it to be, and a little longer.
LEMMA ArrayIs == Array \in {Size + 1, Size + 2} /\ Size \in Nat \ {0} /\ Spill \in {0, 1}
BY TextSizes DEF Array, Spill

\* A byte of the format takes one byte of the room.
LEMMA PutByteStays ==
  ASSUME Within, NEW byte \in Bytes, PutByte(byte)
  PROVE  Within'
<1>1. /\ text \in Seq(ArrayByte) /\ expected \in Seq(ArrayByte) /\ Len(text) < Size /\ byte \in ArrayByte
      /\ read \in 0..MaxRead /\ read < MaxRead /\ MaxRead \in Nat /\ Size \in Nat
      /\ Len(text) \in Nat /\ stage = "format"
  BY LenOf, TextSizes, FormatStrings DEF Within, WriteTypeOK, PutByte, Room, ArrayByte
<1>2. /\ text' = Append(text, byte) /\ expected' = Append(expected, byte) /\ read' = read + 1
      /\ reach' = Len(text') /\ stage' = stage /\ exempt' = exempt /\ cut' = cut
      /\ crowded' = crowded /\ sent' = sent
  BY DEF PutByte
<1>3. text' \in Seq(ArrayByte) /\ expected' \in Seq(ArrayByte) /\ Len(text') = Len(text) + 1
  BY <1>1, <1>2, Appended
<1>4. read' \in 0..MaxRead /\ reach' \in Nat
  BY <1>1, <1>2, <1>3
<1>5. Array' = Array /\ Spill' = Spill
  BY <1>2 DEF Array, Spill
<1>6. Len(text') <= Size + Spill /\ reach' <= Array + Spill
  BY <1>1, <1>2, <1>3, ArrayIs
<1>7. QED
  BY <1>1, <1>2, <1>3, <1>4, <1>5, <1>6 DEF Within, WriteTypeOK, ArrayByte

\* A directive takes no more than the room, but for a character.
LEMMA PutDirectiveStays ==
  ASSUME Within, NEW kind \in DOMAIN Directives, NEW d \in Directives[kind],
         PutDirective(d)
  PROVE  Within'
<1> DEFINE room == Size - Len(text)
<1>1. /\ text \in Seq(ArrayByte) /\ expected \in Seq(ArrayByte) /\ Len(text) < Size
      /\ read \in 0..MaxRead /\ read < MaxRead /\ MaxRead \in Nat /\ Size \in Nat
      /\ Len(text) \in Nat /\ stage = "format"
  BY LenOf, TextSizes DEF Within, WriteTypeOK, PutDirective, Room, ArrayByte
<1>2. IsDirective(d)
  BY FormatStrings
<1>3. room \in Nat \ {0}
  BY <1>1
<1>4. PICK new \in Written(d, room) : text' = text \o new
  BY DEF PutDirective
<1>5. new \in Seq(ArrayByte) /\ Len(new) <= room + 1 /\ (~Crowds(d, room) => Len(new) <= room)
  <2> HIDE DEF room
  <2>1. QED
    BY <1>2, <1>3, <1>4, WrittenFits
<1>6. /\ expected' = expected \o CWritten(d) /\ read' = read + 1 /\ reach' = Len(text')
      /\ stage' = stage /\ sent' = sent /\ crowded' = (crowded \/ Crowds(d, room))
  BY DEF PutDirective
<1>7. exempt' \in BOOLEAN /\ cut' \in BOOLEAN /\ crowded' \in BOOLEAN
  BY DEF PutDirective
<1>8. text' \in Seq(ArrayByte) /\ Len(text') = Len(text) + Len(new) /\ Len(new) \in Nat
  BY <1>1, <1>4, <1>5, Joined, LenOf
<1>9. expected' \in Seq(ArrayByte)
  BY <1>1, <1>2, <1>6, CWrittenType, Joined
<1>10. Crowds(d, room) => Spill' = 1
  BY <1>6 DEF Spill
<1>11. Spill' \in {0, 1} /\ Array' = Array
  BY <1>6 DEF Spill, Array
<1> DEFINE crowds == Crowds(d, room)
<1> HIDE DEF crowds
<1>12. Len(text') <= Size + Spill'
  <2>1. CASE crowds
    <3>1. Spill' = 1
      BY <1>10, <2>1 DEF crowds
    <3>2. QED
      BY <1>1, <1>5, <1>8, <3>1
  <2>2. CASE ~crowds
    <3>1. Len(new) <= room
      BY <1>5, <2>2 DEF crowds
    <3>2. QED
      BY <1>1, <1>8, <1>11, <3>1
  <2>3. QED
    BY <2>1, <2>2
<1>13. read' \in 0..MaxRead /\ reach' \in Nat /\ reach' <= Array + Spill'
  BY <1>1, <1>6, <1>8, <1>11, <1>12, ArrayIs
<1>14. QED
  BY <1>1, <1>6, <1>7, <1>8, <1>9, <1>11, <1>12, <1>13 DEF Within, WriteTypeOK, ArrayByte

\* The end of the format writes one NUL, over the last byte if the array is full.
LEMMA FormattedStays ==
  ASSUME Within, MissingArgument \/ Formatted
  PROVE  Within'
<1>1. /\ text \in Seq(ArrayByte) /\ Len(text) \in Nat /\ stage = "format" /\ reach = Len(text)
      /\ Len(text) <= Size + Spill /\ reach \in Nat
  BY LenOf DEF Within, WriteTypeOK, MissingArgument, Formatted, Room, ArrayByte
<1>2. /\ stage' = "formatted" /\ read' = read /\ exempt' = exempt /\ cut' = cut /\ crowded' = crowded
      /\ sent' = sent
  BY DEF MissingArgument, Formatted, historyVars
<1>3. Array' = Array /\ Spill' = Spill
  BY <1>2 DEF Array, Spill
<1>4. /\ text' \in Seq(ArrayByte) /\ expected' \in Seq(ArrayByte) /\ Len(text') <= Size + Spill
      /\ reach' \in Nat /\ reach' <= Size + Spill + Spill /\ reach' <= Array + Spill
  <2>1. CASE MissingArgument
    <3>1. text' = <<>> /\ expected' = <<>> /\ reach' = reach /\ Len(text) < Size
      BY <2>1 DEF MissingArgument, Room
    <3>2. <<>> \in Seq(ArrayByte) /\ Len(<<>>) = 0
      BY Short
    <3>3. QED
      BY <1>1, <3>1, <3>2, ArrayIs
  <2>2. CASE Formatted /\ Len(text) = Size
    <3>1. text' = [text EXCEPT ![Size] = NUL] /\ reach' = reach /\ expected' = expected
      BY <2>2 DEF Formatted, historyVars
    <3>2. text' \in Seq(ArrayByte) /\ Len(text') = Len(text)
      <4>1. \A k \in 1..Len(text) : text[k] \in ArrayByte
        BY <1>1
      <4>2. text \in [1..Len(text) -> ArrayByte] /\ Size \in 1..Len(text)
        BY <1>1, <2>2, ArrayIs
      <4>3. text' \in [1..Len(text) -> ArrayByte]
        BY <3>1, <4>2, AnyText
      <4>4. QED
        BY <1>1, <4>3, BytesMakeText
    <3>3. expected' \in Seq(ArrayByte)
      BY <3>1 DEF Within, WriteTypeOK, ArrayByte
    <3>4. QED
      BY <1>1, <2>2, <3>1, <3>2, <3>3, ArrayIs
  <2>3. CASE Formatted /\ Len(text) # Size
    <3>1. text' = text /\ reach' = Len(text) + 1 /\ expected' = expected
      BY <2>3 DEF Formatted, historyVars
    <3>2. expected' \in Seq(ArrayByte)
      BY <3>1 DEF Within, WriteTypeOK, ArrayByte
    <3>3. QED
      BY <1>1, <2>3, <3>1, <3>2, ArrayIs
  <2>4. QED
    BY <2>1, <2>2, <2>3
<1>5. QED
  BY <1>2, <1>3, <1>4 DEF Within, WriteTypeOK, ArrayByte

\* The natives that send text end it where formatString() has stopped.
LEMMA SentStays ==
  ASSUME Within, stage = "formatted" \/ (stage = "format" /\ read = 0), stage' = "done",
         UNCHANGED <<read, text, historyVars>>, NEW to, NEW str,
         to \in Dest \cup {"nobody", "server", "plugin"}, str \in Seq(Byte),
         sent' = [to |-> to, text |-> str], NEW added \in {0, 1, 2}, added = 2 => to = "server",
         reach' \in {reach, Len(text) + added}
  PROVE  Within'
<1>1. sent'.to = to /\ sent'.text = str
  OBVIOUS
<1>2. Spill' = Spill /\ Array' \in {Size + 1, Size + 2} /\ (added = 2 => Array' = Size + 2)
  BY <1>1 DEF Spill, Array, historyVars
<1>3. /\ Len(text) \in Nat /\ reach \in Nat /\ Len(text) <= Size + Spill
      /\ reach <= Size + Spill + Spill
  <2>1. text \in Seq(ArrayByte) /\ reach \in Nat /\ Len(text) <= Size + Spill
    BY DEF Within, WriteTypeOK, ArrayByte
  <2>2. Len(text) \in Nat
    BY <2>1, LenOf
  <2>3. reach <= Size + Spill + Spill
    BY <2>1, <2>2, ArrayIs DEF Within
  <2>4. QED
    BY <2>1, <2>2, <2>3
<1>4. reach' \in Nat /\ reach' <= Array' + Spill
  <2> DEFINE longer == Len(text) + added
  <2>1. longer \in Nat /\ longer <= Array' + Spill
    BY <1>2, <1>3, ArrayIs
  <2>2. reach <= Array' + Spill
    <3>1. PICK a \in {Size + 1, Size + 2} : a = Array'
      BY <1>2
    <3>2. PICK o \in {0, 1} : o = Spill
      BY ArrayIs
    <3>3. Size \in Nat /\ reach \in Nat /\ reach <= Size + o + o
      BY <1>3, <3>2, ArrayIs
    <3>4. reach <= a + o
      BY <3>3
    <3>5. QED
      BY <3>1, <3>2, <3>4
  <2> HIDE DEF longer
  <2>3. reach' = reach \/ reach' = longer
    BY DEF longer
  <2>4. QED
    BY <1>3, <2>1, <2>2, <2>3
<1>5. QED
  BY <1>1, <1>2, <1>4 DEF Within, WriteTypeOK, historyVars

\* Each native sends text.
LEMMA SendStays ==
  ASSUME Within,
         \/ PrintToServer
         \/ \E dest \in Dest, cstrike \in BOOLEAN : SendMsg(dest, cstrike)
         \/ \E size \in Sizes : CopyString(size) \/ \E n \in {0, -12} : NumToString(n, size)
  PROVE  Within'
<1>1. text \in Seq(ArrayByte) /\ CString(text) \in Seq(Byte) /\ Len(text) \in Nat /\ reach \in Nat
  BY CStringIs, LenOf DEF Within, WriteTypeOK, ArrayByte
<1>2. ASSUME PrintToServer PROVE Within'
  <2>1. CString(Append(text, "\n")) \in Seq(Byte)
    BY <1>1, Own, AnyText, Appended, CStringIs
  <2>2. /\ UNCHANGED <<read, text, historyVars>> /\ stage' = "done" /\ stage = "formatted"
        /\ sent' = [to |-> "server", text |-> CString(Append(text, "\n"))]
        /\ reach' = IF reach < Len(text) + 2 THEN Len(text) + 2 ELSE reach
    BY <1>2 DEF PrintToServer, Ended
  <2>3. QED
    BY <2>1, <2>2, SentStays
<1>3. ASSUME NEW dest \in Dest, NEW cstrike \in BOOLEAN, SendMsg(dest, cstrike)
      PROVE  Within'
  <2>1. Message(CString(text), dest, cstrike) \in Seq(Byte)
    BY <1>1, MessageType
  <2>2. /\ UNCHANGED <<read, text, historyVars>> /\ stage' = "done" /\ stage = "formatted"
        /\ reach' = IF reach < Len(text) + 1 THEN Len(text) + 1 ELSE reach
    BY <1>3 DEF SendMsg, Ended
  <2>3. CASE sent' = sent
    <3>1. Spill' = Spill /\ Array' = Array
      BY <2>2, <2>3 DEF Spill, Array, historyVars
    <3>2. Len(text) <= Size + Spill /\ reach <= Array + Spill
      BY DEF Within
    <3>3. reach' \in Nat /\ reach' <= Array + Spill
      BY <1>1, <2>2, <3>2, ArrayIs
    <3>4. QED
      BY <2>2, <2>3, <3>1, <3>3 DEF Within, WriteTypeOK, historyVars
  <2>4. CASE sent' = [to |-> dest, text |-> Message(CString(text), dest, cstrike)]
    BY <2>1, <2>2, <2>4, SentStays
  <2>5. QED
    BY <1>3, <2>3, <2>4 DEF SendMsg
<1>4. ASSUME NEW size \in Sizes PROVE size - 1 \in Nat
  BY <1>4, TextSizes
<1>5. ASSUME NEW size \in Sizes, CopyString(size) PROVE Within'
  <2> DEFINE n == size - 1
             ended == CString(text)
  <2>1. n \in Nat
    BY <1>4
  <2>2. /\ UNCHANGED <<read, text, historyVars>> /\ stage' = "done" /\ reach' = reach
        /\ stage = "formatted" /\ sent' = [to |-> "plugin", text |-> Upto(ended, n)]
    BY <1>5 DEF CopyString, formatVars
  <2> HIDE DEF n
  <2>3. Upto(ended, n) \in Seq(Byte)
    <3> HIDE DEF ended
    <3>1. QED
      BY <1>1, <2>1, UptoType DEF ended
  <2>4. QED
    BY <2>2, <2>3, SentStays
<1>6. ASSUME NEW size \in Sizes, NEW k \in {0, -12}, NumToString(k, size)
      PROVE  Within'
  <2> DEFINE n == size - 1
             number == Upto((IF k < 0 THEN <<"-">> ELSE <<>>)
                              \o Reverse(Reversed(Max({k, -k}), 10, Lower)), n)
  <2>1. n \in Nat /\ k \in Int
    BY <1>4
  <2>2. /\ UNCHANGED <<read, text, historyVars>> /\ stage' = "done" /\ reach' = reach
        /\ stage = "format" /\ read = 0 /\ sent' = [to |-> "plugin", text |-> number]
    BY <1>6 DEF NumToString, formatVars
  <2>3. number \in Seq(Byte)
    <3> HIDE DEF n
    <3>1. QED
      BY <2>1, NumberType
  <2> HIDE DEF number
  <2>4. QED
    BY <2>2, <2>3, SentStays
<1>7. QED
  BY <1>2, <1>3, <1>5, <1>6

\* Every step keeps to the array.
LEMMA WriteStays ==
  ASSUME Within, [WriteNext]_outVars
  PROVE  Within'
<1>1. ASSUME NEW byte \in Bytes, PutByte(byte) PROVE Within'
  BY <1>1, PutByteStays
<1>2. ASSUME NEW kind \in DOMAIN Directives, NEW d \in Directives[kind], PutDirective(d)
      PROVE  Within'
  BY <1>2, PutDirectiveStays
<1>3. CASE MissingArgument \/ Formatted
  BY <1>3, FormattedStays
<1>4. CASE \/ PrintToServer
           \/ \E dest \in Dest, cstrike \in BOOLEAN : SendMsg(dest, cstrike)
           \/ \E size \in Sizes : CopyString(size) \/ \E n \in {0, -12} : NumToString(n, size)
  BY <1>4, SendStays
<1>5. ASSUME UNCHANGED <<formatVars, sent>>, stage' \in {stage, "done"} PROVE Within'
  BY <1>5 DEF formatVars, historyVars, Within, WriteTypeOK, Spill, Array
<1>6. ASSUME NEW length \in MenuLengths, SendMenu(length) PROVE Within'
  BY <1>5, <1>6 DEF SendMenu
<1>7. CASE SendPart
  BY <1>5, <1>7 DEF SendPart
<1>8. CASE UNCHANGED outVars
  BY <1>5, <1>8 DEF outVars, formatVars, historyVars
<1>9. QED
  BY <1>1, <1>2, <1>3, <1>4, <1>6, <1>7, <1>8 DEF WriteNext, Done

\* The array is empty at first.
LEMMA WriteBegins ==
  ASSUME WriteInit
  PROVE  Within
<1>1. <<>> \in Seq(Byte) /\ <<>> \in Seq(ArrayByte) /\ Len(<<>>) = 0
  BY Short
<1>2. /\ text = <<>> /\ expected = <<>> /\ read = 0 /\ stage = "format" /\ exempt = FALSE
      /\ cut = FALSE /\ crowded = FALSE /\ reach = 0 /\ sent.to = "nobody" /\ sent.text = <<>>
  BY DEF WriteInit
<1>3. 0 <= Size + Spill /\ 0 \in 0..MaxRead /\ 0 <= Array + Spill
  BY ArrayIs, TextSizes
<1>4. QED
  BY <1>1, <1>2, <1>3 DEF Within, WriteTypeOK, ArrayByte

\* Whatever widths, precisions, numbers and texts formatString() is given and
\* however long the array is, it writes no byte from buffer_len on, its terminator
\* included, and the natives none behind their arrays; where padding crowds the
\* character of a `%c' out, one byte behind them is all.  What natives send is text.
THEOREM FormatStaysInBuffer == WriteSpec => []StaysInBuffer
<1>1. WriteInit => Within
  BY WriteBegins
<1>2. Within /\ [WriteNext]_outVars => Within'
  BY WriteStays
<1>3. Within => StaysInBuffer
  <2>1. ASSUME Within PROVE StaysInBuffer
    <3>1. reach <= Array + (IF crowded THEN 1 ELSE 0) /\ WriteTypeOK
      BY <2>1 DEF Within, Spill
    <3>2. ASSUME stage # "done", ~crowded PROVE reach <= Size
      <4>1. Spill = 0
        BY <3>2 DEF Spill
      <4>2. CASE stage = "format"
        BY <2>1, <4>1, <4>2, TextSizes DEF Within
      <4>3. CASE stage = "formatted"
        BY <2>1, <4>1, <4>3, TextSizes DEF Within
      <4>4. QED
        BY <3>1, <3>2, <4>2, <4>3 DEF WriteTypeOK
    <3>3. QED
      BY <3>1, <3>2 DEF StaysInBuffer
  <2>2. QED
    BY <2>1
<1>4. QED
  BY <1>1, <1>2, <1>3, PTL DEF WriteSpec

----------------------------------------------------------------------------
(* Whole characters.                                                       *)

\* Bytes that are a character by themselves.
Plain == {byte \in ArrayByte : ~Follows(byte) /\ BytesIn(byte) = 1}

\* A character has one to four bytes; one that follows counts for itself.
LEMMA BytesInRange ==
  /\ \A byte : BytesIn(byte) \in 1..4
  /\ \A byte : Follows(byte) => BytesIn(byte) = 1
BY DEF BytesIn, Follows

\* What natives write of their own are characters of one byte.
LEMMA OwnArePlain == \A byte \in OwnBytes : byte \in Plain
<1> DEFINE Letters == {"0", "1", "2", "3", "4", "5", "6", "7", "8", "9", "a", "b", "c", "d",
                       "e", "f", "A", "B", "C", "D", "E", "F"}
           Others == {" ", "+", "-", ".", "x", "X", "%", "\n", "\r"}
<1>1. \A i \in 1..16 : Lower[i] \in Letters /\ Upper[i] \in Letters
  BY DEF Lower, Upper
<1>2. \A byte \in Letters \cup Others : ~Follows(byte) /\ BytesIn(byte) = 1
  BY DEF Follows, BytesIn
<1>3. \A byte \in OwnBytes : byte \in Letters \cup Others
  <2> HIDE DEF Letters
  <2>1. QED
    BY <1>1 DEF OwnBytes
<1> HIDE DEF Letters, Others
<1>4. QED
  BY <1>2, <1>3, BytesOfText DEF Plain, ArrayByte

\* Such bytes in a row are whole characters.
LEMMA PlainIsWhole ==
  ASSUME NEW s \in Seq(Plain)
  PROVE  s \in Seq(ArrayByte) /\ Whole(s)
<1>1. \A k \in DOMAIN s : s[k] \in Plain
  OBVIOUS
<1>2. \A k \in DOMAIN s : s[k] \in ArrayByte /\ ~Follows(s[k]) /\ BytesIn(s[k]) = 1
  BY <1>1 DEF Plain
<1>3. Len(s) \in Nat /\ DOMAIN s = 1..Len(s)
  BY LenProperties
<1>4. s \in Seq(ArrayByte)
  <2>1. Plain \subseteq ArrayByte
    BY DEF Plain
  <2>2. QED
    BY <2>1
<1>5. \A k \in DOMAIN s : \A i \in k + 1..k + BytesIn(s[k]) - 1 : i \in DOMAIN s => Follows(s[i])
  BY <1>2, <1>3
<1>6. \A k \in DOMAIN s : k + BytesIn(s[k]) - 1 <= Len(s)
  BY <1>2, <1>3
<1>7. QED
  BY <1>2, <1>4, <1>5, <1>6 DEF Whole, Begun

\* What begins with characters does so in its beginning.
LEMMA BegunBefore ==
  ASSUME NEW B, NEW s \in Seq(B), Begun(s), NEW n \in 0..Len(s)
  PROVE  Begun(SubSeq(s, 1, n)) /\ SubSeq(s, 1, n) \in Seq(B) /\ Len(SubSeq(s, 1, n)) = n
<1> DEFINE t == SubSeq(s, 1, n)
<1>1. Len(s) \in Nat /\ DOMAIN s = 1..Len(s) /\ n \in Nat /\ n <= Len(s)
  BY LenProperties
<1>2. t \in Seq(B) /\ Len(t) = n /\ DOMAIN t = 1..n /\ \A k \in 1..n : t[k] = s[k]
  BY <1>1, SubSeqProperties
<1> HIDE DEF t
<1>3. ASSUME NEW k \in DOMAIN t, Follows(t[k])
      PROVE  \E j \in 1..k - 1 : ~Follows(t[j]) /\ k < j + BytesIn(t[j])
  <2>1. k \in 1..n /\ k \in DOMAIN s /\ Follows(s[k])
    BY <1>1, <1>2, <1>3
  <2>2. PICK j \in 1..k - 1 : ~Follows(s[j]) /\ k < j + BytesIn(s[j])
    BY <2>1 DEF Begun
  <2>3. t[j] = s[j]
    BY <1>2, <2>1
  <2>4. QED
    BY <2>2, <2>3
<1>4. ASSUME NEW k \in DOMAIN t, ~Follows(t[k]), NEW i \in k + 1..k + BytesIn(t[k]) - 1,
             i \in DOMAIN t
      PROVE  Follows(t[i])
  <2>1. k \in DOMAIN s /\ i \in DOMAIN s /\ t[k] = s[k] /\ t[i] = s[i]
    BY <1>1, <1>2, <1>4
  <2>2. QED
    BY <1>4, <2>1 DEF Begun
<1>5. Begun(t)
  BY <1>3, <1>4 DEF Begun
<1>6. QED
  BY <1>2, <1>5 DEF t

\* What stands before a byte that begins a character is whole characters.
LEMMA WholeBefore ==
  ASSUME NEW B, NEW s \in Seq(B), Begun(s), NEW n \in 1..Len(s), ~Follows(s[n])
  PROVE  Whole(SubSeq(s, 1, n - 1))
<1> DEFINE m == n - 1
           t == SubSeq(s, 1, m)
<1>1. Len(s) \in Nat /\ DOMAIN s = 1..Len(s) /\ m \in 0..Len(s) /\ m \in Nat /\ m < n /\ m <= Len(s)
  BY LenOf
<1>2. Begun(t) /\ Len(t) = m /\ DOMAIN t = 1..m /\ \A k \in 1..m : t[k] = s[k]
  <2> HIDE DEF m
  <2>1. Begun(t) /\ Len(t) = m /\ t \in Seq(B)
    BY <1>1, BegunBefore
  <2>2. QED
    BY <1>1, <2>1, SubSeqProperties
<1> HIDE DEF t
<1>3. ASSUME NEW k \in DOMAIN t
      PROVE  k + BytesIn(t[k]) - 1 <= Len(t)
  <2>1. k \in 1..m /\ k \in DOMAIN s /\ t[k] = s[k] /\ n \in DOMAIN s
    BY <1>1, <1>2
  <2> DEFINE b == BytesIn(s[k])
  <2>2. b \in 1..4 /\ (Follows(s[k]) => b = 1)
    BY BytesInRange
  <2>3. ~Follows(s[k]) => \A i \in k + 1..k + b - 1 : i \in DOMAIN s => Follows(s[i])
    BY <2>1 DEF Begun
  <2> HIDE DEF b
  <2>4. ~Follows(s[k]) => n \notin k + 1..k + b - 1
    BY <2>1, <2>3
  <2>5. k + b - 1 <= m
    BY <1>1, <2>1, <2>2, <2>4
  <2>6. QED
    BY <1>2, <2>1, <2>5 DEF b
<1>4. QED
  BY <1>2, <1>3 DEF Whole, t

\* The text in an array of characters is characters, and whole if a NUL ends it.
LEMMA CStringBegun ==
  ASSUME ~Follows(NUL), NEW bytes \in Seq(ArrayByte), Begun(bytes)
  PROVE  Begun(CString(bytes)) /\ (CString(bytes) # bytes => Whole(CString(bytes)))
<1>1. CASE CString(bytes) = bytes
  BY <1>1
<1>2. CASE CString(bytes) # bytes
  <2>1. PICK k \in 1..Len(bytes) : bytes[k] = NUL /\ CString(bytes) = SubSeq(bytes, 1, k - 1)
    BY <1>2, CStringIs
  <2>2. Whole(SubSeq(bytes, 1, k - 1))
    BY <2>1, WholeBefore
  <2>3. QED
    BY <2>1, <2>2 DEF Whole
<1>3. QED
  BY <1>1, <1>2

\* Characters after whole ones.
LEMMA WholeThen ==
  ASSUME NEW B, NEW s \in Seq(B), NEW t \in Seq(B), Whole(s), Begun(t)
  PROVE  Begun(s \o t) /\ (Whole(t) => Whole(s \o t))
<1> DEFINE m == Len(s)
           n == Len(t)
           u == s \o t
<1>1. m \in Nat /\ n \in Nat /\ DOMAIN s = 1..m /\ DOMAIN t = 1..n
  BY LenProperties
<1>2. /\ DOMAIN u = 1..m + n /\ Len(u) = m + n
      /\ \A k \in 1..m : u[k] = s[k]
      /\ \A k \in m + 1..m + n : u[k] = t[k - m]
  BY ConcatProperties, LenProperties
<1> HIDE DEF m, n, u
<1>3. ASSUME NEW k \in DOMAIN u, Follows(u[k])
      PROVE  \E j \in 1..k - 1 : ~Follows(u[j]) /\ k < j + BytesIn(u[j])
  <2>1. CASE k <= m
    <3>1. k \in 1..m /\ Follows(s[k])
      BY <1>1, <1>2, <1>3, <2>1
    <3>2. PICK j \in 1..k - 1 : ~Follows(s[j]) /\ k < j + BytesIn(s[j])
      BY <1>1, <3>1 DEF Whole, Begun
    <3>3. u[j] = s[j]
      BY <1>1, <1>2, <3>1
    <3>4. QED
      BY <3>2, <3>3
  <2>2. CASE ~(k <= m)
    <3>1. k \in m + 1..m + n /\ k - m \in 1..n /\ Follows(t[k - m])
      BY <1>1, <1>2, <1>3, <2>2
    <3>2. PICK j \in 1..k - m - 1 : ~Follows(t[j]) /\ k - m < j + BytesIn(t[j])
      BY <1>1, <3>1 DEF Begun
    <3>3. BytesIn(t[j]) \in Int
      BY BytesInRange
    <3>4. /\ j + m \in 1..k - 1 /\ j + m \in m + 1..m + n /\ (j + m) - m = j
          /\ k < j + m + BytesIn(t[j])
      BY <1>1, <3>1, <3>2, <3>3
    <3>5. u[j + m] = t[j]
      BY <1>2, <3>4
    <3>6. QED
      BY <3>2, <3>4, <3>5
  <2>3. QED
    BY <2>1, <2>2
<1>4. ASSUME NEW k \in DOMAIN u, ~Follows(u[k]), NEW i \in k + 1..k + BytesIn(u[k]) - 1,
             i \in DOMAIN u
      PROVE  Follows(u[i])
  <2>1. BytesIn(u[k]) \in 1..4
    BY BytesInRange
  <2>2. CASE k <= m
    <3>1. k \in 1..m /\ u[k] = s[k]
      BY <1>1, <1>2, <2>2
    <3>2. k + BytesIn(s[k]) - 1 <= m
      BY <1>1, <3>1 DEF Whole, m
    <3>3. i \in 1..m /\ u[i] = s[i]
      BY <1>1, <1>2, <2>1, <3>1, <3>2
    <3>4. QED
      BY <1>1, <1>4, <3>1, <3>3 DEF Whole, Begun
  <2>3. CASE ~(k <= m)
    <3>1. k \in m + 1..m + n /\ k - m \in 1..n /\ u[k] = t[k - m]
      BY <1>1, <1>2, <2>3
    <3>2. i \in m + 1..m + n /\ i - m \in 1..n /\ u[i] = t[i - m]
      BY <1>1, <1>2, <1>4, <2>1, <3>1
    <3>3. i - m \in (k - m) + 1..(k - m) + BytesIn(t[k - m]) - 1
      <4> DEFINE b == BytesIn(t[k - m])
      <4>1. b \in Int /\ i \in k + 1..k + b - 1
        BY <1>4, <2>1, <3>1
      <4>2. k \in Int /\ i \in Int /\ m \in Int
        BY <1>1, <3>1, <3>2
      <4> HIDE DEF b
      <4>3. i - m \in (k - m) + 1..(k - m) + b - 1
        BY <4>1, <4>2
      <4>4. QED
        BY <4>3 DEF b
    <3>4. QED
      BY <1>1, <1>4, <3>1, <3>2, <3>3 DEF Begun
  <2>4. QED
    BY <2>2, <2>3
<1>5. Begun(u)
  BY <1>3, <1>4 DEF Begun
<1>6. ASSUME Whole(t), NEW k \in DOMAIN u
      PROVE  k + BytesIn(u[k]) - 1 <= Len(u)
  <2>1. BytesIn(u[k]) \in 1..4
    BY BytesInRange
  <2>2. CASE k <= m
    <3>1. k \in 1..m /\ u[k] = s[k]
      BY <1>1, <1>2, <2>2
    <3>2. k + BytesIn(s[k]) - 1 <= m
      BY <1>1, <3>1 DEF Whole, m
    <3>3. QED
      BY <1>1, <1>2, <2>1, <3>1, <3>2
  <2>3. CASE ~(k <= m)
    <3>1. k - m \in 1..n /\ u[k] = t[k - m]
      BY <1>1, <1>2, <2>3
    <3>2. (k - m) + BytesIn(t[k - m]) - 1 <= n
      BY <1>1, <1>6, <3>1 DEF Whole, n
    <3>3. QED
      BY <1>1, <1>2, <2>1, <3>1, <3>2
  <2>4. QED
    BY <2>2, <2>3
<1>7. QED
  BY <1>5, <1>6 DEF Whole, u

\* The beginning of whole characters is cut only where it ends.
LEMMA UptoBegun ==
  ASSUME NEW B, NEW s \in Seq(B), Whole(s), NEW n \in Nat
  PROVE  Begun(Upto(s, n)) /\ (Len(Upto(s, n)) < n => Whole(Upto(s, n)))
<1> DEFINE k == Atmost(n, Len(s))
<1>1. Len(s) \in Nat /\ k \in 0..Len(s) /\ (k < n => k = Len(s))
  BY LenOf DEF Atmost
<1> HIDE DEF k
<1>2. Upto(s, n) = SubSeq(s, 1, k)
  BY DEF Upto, k
<1>3. Begun(SubSeq(s, 1, k)) /\ Len(SubSeq(s, 1, k)) = k
  BY <1>1, BegunBefore DEF Whole
<1>4. SubSeq(s, 1, Len(s)) = s
  OBVIOUS
<1>5. QED
  BY <1>1, <1>2, <1>3, <1>4

\* `%s' with no precision writes characters, and cuts one only where the room ends.
LEMMA StrBegun ==
  ASSUME NEW s \in Seq(ArrayByte), Whole(s), NEW flags, NEW width \in Nat, NEW maxlen \in Nat
  PROVE  /\ Begun(Str(s, flags, NoPrec, width, maxlen))
         /\ Len(Str(s, flags, NoPrec, width, maxlen)) < maxlen
              => Whole(Str(s, flags, NoPrec, width, maxlen))
<1> DEFINE taken == Upto(s, Len(s))
           gap == width - Len(taken)
           pad == Repeat(" ", Max({0, gap}))
           all == IF "left" \in flags THEN taken \o pad ELSE pad \o taken
<1>1. taken = s
  <2>1. Atmost(Len(s), Len(s)) = Len(s) /\ SubSeq(s, 1, Len(s)) = s
    BY DEF Atmost
  <2>2. QED
    BY <2>1 DEF Upto
<1>2. gap \in Int
  <2> HIDE DEF taken
  <2>1. QED
    BY <1>1, LenOf
<1>3. pad \in Seq(Plain)
  <2> HIDE DEF gap
  <2>1. Max({0, gap}) \in Nat
    BY <1>2, AtLeastZero
  <2>2. " " \in Plain
    BY OwnOnes, OwnArePlain
  <2>3. QED
    BY <2>1, <2>2, RepeatType
<1>4. pad \in Seq(ArrayByte) /\ Whole(pad)
  <2> HIDE DEF pad
  <2>1. QED
    BY <1>3, PlainIsWhole
<1>5. all \in Seq(ArrayByte) /\ Whole(all)
  <2> HIDE DEF taken, pad
  <2>1. /\ s \o pad \in Seq(ArrayByte) /\ Whole(s \o pad)
        /\ pad \o s \in Seq(ArrayByte) /\ Whole(pad \o s)
    BY <1>4, Joined, WholeThen DEF Whole
  <2>2. QED
    BY <1>1, <2>1
<1>6. Str(s, flags, NoPrec, width, maxlen) = Upto(all, maxlen)
  BY DEF Str
<1> HIDE DEF all
<1>7. QED
  BY <1>5, <1>6, UptoBegun

\* So does every directive whose text is whole characters.
LEMMA WrittenBegun ==
  ASSUME NEW d, IsDirective(d), ~Cuts(d), d.spec = "s" => Whole(d.arg),
         d.spec = "other" => d.arg \in Plain,
         NEW maxlen \in Nat \ {0}, NEW str \in Written(d, maxlen)
  PROVE  Begun(str) /\ (Len(str) < maxlen => Whole(str))
<1>1. CASE d.spec = "s"
  <2> DEFINE flags == FlagsOf(d)
  <2>1. d.arg \in Seq(Byte) /\ d.width \in Nat /\ d.prec = NoPrec
    BY <1>1 DEF IsDirective, Cuts
  <2>2. str = Str(d.arg, flags, NoPrec, d.width, maxlen)
    BY <1>1, <2>1 DEF Written, Precision
  <2> HIDE DEF flags
  <2>3. QED
    BY <1>1, <2>1, <2>2, StrBegun, AnyText
<1>2. ASSUME str \in Seq(Plain) PROVE Begun(str) /\ Whole(str)
  BY <1>2, PlainIsWhole DEF Whole
<1>3. CASE d.spec = "other"
  <2>1. str = <<d.arg>> /\ d.arg \in Plain
    BY <1>3 DEF Written
  <2>2. QED
    BY <1>2, <2>1, Short
<1>4. CASE d.spec \notin {"s", "other"}
  <2>1. d.spec # "c"
    BY DEF Cuts
  <2>2. str \in Seq(OwnBytes)
    BY <1>4, <2>1, WrittenFits
  <2>3. str \in Seq(Plain)
    <3>1. OwnBytes \subseteq Plain
      BY OwnArePlain
    <3>2. QED
      BY <2>2, <3>1
  <2>4. QED
    BY <1>2, <2>3
<1>5. QED
  BY <1>1, <1>3, <1>4

\* trimMultiByteChar() leaves whole characters.
LEMMA TrimmedWhole ==
  ASSUME NEW str \in Seq(Byte), Begun(str)
  PROVE  Whole(Trimmed(str))
<1> DEFINE K == {k \in DOMAIN str : ~Follows(str[k])} \cup {0}
           pos == Max(K)
<1>1. Len(str) \in Nat /\ DOMAIN str = 1..Len(str)
  BY LenOf
<1>2. K \in SUBSET (0..Len(str)) /\ K # {}
  BY <1>1
<1>3. pos \in K /\ \A k \in K : k <= pos
  <2> HIDE DEF K
  <2>1. QED
    BY <1>1, <1>2, LargestIn
<1>4. Trimmed(str) = IF pos = 0 \/ Len(str) - pos + 1 >= BytesIn(str[pos]) THEN str
                     ELSE SubSeq(str, 1, pos - 1)
  BY DEF Trimmed
<1> HIDE DEF pos
<1>5. /\ pos # 0 => pos \in 1..Len(str) /\ ~Follows(str[pos])
      /\ pos \in 0..Len(str)
      /\ \A k \in 1..Len(str) : ~Follows(str[k]) => k <= pos
  BY <1>1, <1>2, <1>3
<1> HIDE DEF K
<1>6. \A k \in 1..Len(str) : BytesIn(str[k]) \in 1..4 /\ (Follows(str[k]) => BytesIn(str[k]) = 1)
  BY BytesInRange
<1>7. ASSUME NEW k \in 1..Len(str), k < pos
      PROVE  k + BytesIn(str[k]) - 1 < pos
  <2>1. CASE Follows(str[k])
    BY <1>5, <1>6, <1>7, <2>1
  <2>2. CASE ~Follows(str[k])
    <3>1. SUFFICES ASSUME ~(k + BytesIn(str[k]) - 1 < pos)
                   PROVE  FALSE
      OBVIOUS
    <3>2. pos \in k + 1..k + BytesIn(str[k]) - 1 /\ pos \in 1..Len(str)
      BY <1>1, <1>5, <1>6, <1>7, <3>1
    <3>3. Follows(str[pos])
      BY <1>1, <2>2, <3>2 DEF Begun
    <3>4. QED
      BY <1>5, <1>7, <3>2, <3>3
  <2>3. QED
    BY <2>1, <2>2
<1>8. CASE pos = 0
  <2>1. ASSUME NEW k \in 1..Len(str)
        PROVE  FALSE
    <3>1. Follows(str[k])
      BY <1>5, <1>8
    <3>2. PICK j \in 1..k - 1 : ~Follows(str[j])
      BY <1>1, <3>1 DEF Begun
    <3>3. j \in 1..Len(str)
      BY <1>1
    <3>4. QED
      BY <1>5, <1>8, <3>2, <3>3
  <2>2. \A k \in DOMAIN str : k + BytesIn(str[k]) - 1 <= Len(str)
    BY <1>1, <2>1
  <2>3. QED
    BY <1>4, <1>8, <2>2 DEF Whole
<1>9. CASE pos # 0 /\ Len(str) - pos + 1 >= BytesIn(str[pos])
  <2>1. ASSUME NEW k \in DOMAIN str
        PROVE  k + BytesIn(str[k]) - 1 <= Len(str)
    <3>1. CASE k < pos
      BY <1>1, <1>5, <1>6, <1>7, <3>1
    <3>2. CASE k = pos
      BY <1>1, <1>6, <1>9, <3>2
    <3>3. CASE k > pos
      <4>1. Follows(str[k])
        BY <1>1, <1>5, <3>3
      <4>2. QED
        BY <1>1, <1>6, <4>1
    <3>4. QED
      BY <1>1, <1>5, <3>1, <3>2, <3>3
  <2>2. QED
    BY <1>4, <1>9, <2>1 DEF Whole
<1>10. CASE pos # 0 /\ ~(Len(str) - pos + 1 >= BytesIn(str[pos]))
  <2> DEFINE n == pos - 1
             t == SubSeq(str, 1, n)
  <2>1. n \in 0..Len(str) /\ n \in Nat
    BY <1>1, <1>5, <1>10
  <2>2. Trimmed(str) = t
    BY <1>4, <1>10
  <2>3. Begun(t) /\ t \in Seq(Byte) /\ Len(t) = n /\ DOMAIN t = 1..n /\ \A k \in 1..n : t[k] = str[k]
    <3> HIDE DEF n
    <3>1. Begun(t) /\ t \in Seq(Byte) /\ Len(t) = n
      BY <2>1, BegunBefore
    <3>2. QED
      BY <1>1, <2>1, <3>1, SubSeqProperties
  <2> HIDE DEF t
  <2>4. ASSUME NEW k \in DOMAIN t
        PROVE  k + BytesIn(t[k]) - 1 <= Len(t)
    <3>1. k \in 1..Len(str) /\ k < pos /\ t[k] = str[k]
      BY <1>1, <1>5, <1>10, <2>3
    <3>2. QED
      BY <1>5, <1>6, <1>7, <2>3, <3>1
  <2>5. QED
    BY <2>2, <2>3, <2>4 DEF Whole
<1>11. QED
  BY <1>8, <1>9, <1>10

\* sendMsg() sends whole characters to a console.
LEMMA MessageWhole ==
  ASSUME NEW str \in Seq(Byte), NEW dest \in {"console", "notify"}, NEW cstrike,
         Begun(str), Len(str) < Size - 1 => Whole(str)
  PROVE  Whole(Message(str, dest, cstrike))
<1> DEFINE whole == IF Len(str) > ConsoleLimit /\ dest \in {"notify", "console"}
                    THEN Trimmed(str) ELSE str
           ends == IF ~cstrike \/ dest \in {"notify", "console"} THEN <<"\n", "\n">> ELSE <<"\n">>
<1>1. Message(str, dest, cstrike) = whole \o ends
  BY DEF Message
<1>2. whole \in Seq(Byte) /\ Whole(whole)
  <2>1. CASE Len(str) > ConsoleLimit
    <3>1. whole = Trimmed(str)
      BY <2>1
    <3> HIDE DEF whole
    <3>2. QED
      BY <3>1, TrimmedWhole, TrimmedType
  <2>2. CASE ~(Len(str) > ConsoleLimit)
    <3>1. whole = str
      BY <2>2
    <3>2. Len(str) < Size - 1
      BY <2>2, LenOf, TextSizes
    <3> HIDE DEF whole
    <3>3. QED
      BY <3>1, <3>2
  <2>3. QED
    BY <2>1, <2>2
<1>3. ends \in Seq(Plain)
  <2>1. "\n" \in Plain
    BY OwnOnes, OwnArePlain
  <2>2. <<"\n">> \in Seq(Plain) /\ <<"\n", "\n">> \in Seq(Plain)
    BY <2>1
  <2>3. QED
    BY <2>2
<1> HIDE DEF whole, ends
<1>4. ends \in Seq(ArrayByte) /\ Whole(ends)
  BY <1>3, PlainIsWhole
<1>5. Whole(whole \o ends)
  BY <1>2, <1>4, AnyText, WholeThen DEF Whole
<1>6. QED
  BY <1>1, <1>5

\* What holds of characters at every step.
CharactersIInv == Within /\ CutAtTheEnd /\ WholeCharacters /\ (crowded => cut)

CharactersHold == CutAtTheEnd /\ WholeCharacters /\ (crowded => cut)

\* A byte of a format is a character.
LEMMA PutByteCuts ==
  ASSUME WholeTexts, CharactersIInv, NEW byte \in Bytes, PutByte(byte)
  PROVE  CharactersHold'
<1>1. text \in Seq(ArrayByte) /\ Len(text) < Size /\ stage = "format"
  BY DEF CharactersIInv, Within, WriteTypeOK, PutByte, Room, ArrayByte
<1>2. text' = Append(text, byte) /\ cut' = cut /\ sent' = sent /\ crowded' = crowded /\ stage' = stage
  BY DEF PutByte
<1>3. byte \in Plain
  BY FormatStrings DEF WholeTexts, Plain, ArrayByte
<1>4. <<byte>> \in Seq(ArrayByte) /\ Whole(<<byte>>)
  <2>1. <<byte>> \in Seq(Plain)
    BY <1>3
  <2>2. QED
    BY <2>1, PlainIsWhole
<1>5. text' = text \o <<byte>>
  BY <1>1, <1>2, <1>3, AppendIsConcat DEF Plain
<1>6. ~cut => Whole(text')
  BY <1>1, <1>4, <1>5, WholeThen DEF CharactersIInv, CutAtTheEnd, Whole
<1>7. QED
  BY <1>1, <1>2, <1>6 DEF CharactersIInv, CharactersHold, CutAtTheEnd, WholeCharacters, Whole

\* A directive cuts a character only where the array ends.
LEMMA PutDirectiveCuts ==
  ASSUME WholeTexts, CharactersIInv, NEW kind \in DOMAIN Directives, NEW d \in Directives[kind],
         PutDirective(d)
  PROVE  CharactersHold'
<1> DEFINE room == Size - Len(text)
<1>1. /\ text \in Seq(ArrayByte) /\ Len(text) < Size /\ Len(text) \in Nat /\ Size \in Nat
      /\ stage = "format"
  BY LenOf, TextSizes DEF CharactersIInv, Within, WriteTypeOK, PutDirective, Room, ArrayByte
<1>2. PICK new \in Written(d, room) : text' = text \o new
  BY DEF PutDirective
<1>3. /\ sent' = sent /\ stage' = stage /\ cut' = (cut \/ Cuts(d))
      /\ crowded' = (crowded \/ Crowds(d, room))
  BY DEF PutDirective
<1>4. /\ IsDirective(d) /\ (d.spec = "s" => Whole(d.arg))
      /\ d.spec = "other" => d.arg \in Plain
  BY FormatStrings DEF WholeTexts, IsDirective, Plain, ArrayByte
<1>5. room \in Nat \ {0}
  BY <1>1
<1>6. ASSUME ~cut' PROVE Begun(new) /\ (Len(new) < room => Whole(new))
  <2>1. ~Cuts(d)
    BY <1>3, <1>6
  <2> HIDE DEF room
  <2>2. QED
    BY <1>2, <1>4, <1>5, <2>1, WrittenBegun
<1>7. new \in Seq(ArrayByte)
  <2> HIDE DEF room
  <2>1. QED
    BY <1>2, <1>4, <1>5, WrittenFits
<1>8. Len(text') = Len(text) + Len(new) /\ Len(new) \in Nat
  BY <1>1, <1>2, <1>7, Joined, LenOf
<1>9. Len(text') < Size => Len(new) < room
  BY <1>1, <1>8
<1>10. ~cut' => Begun(text') /\ (Len(text') < Size => Whole(text'))
  <2>1. ~cut' => Whole(text)
    BY <1>1, <1>3 DEF CharactersIInv, CutAtTheEnd
  <2> HIDE DEF room
  <2>2. QED
    BY <1>1, <1>2, <1>6, <1>7, <1>9, <2>1, WholeThen
<1>11. WholeCharacters'
  BY <1>3 DEF CharactersIInv, WholeCharacters
<1>12. crowded' => cut'
  BY <1>3 DEF CharactersIInv, Crowds, Cuts
<1>13. QED
  BY <1>1, <1>3, <1>10, <1>11, <1>12 DEF CharactersHold, CutAtTheEnd

\* At the end of formatString(), what is before a NUL: whole characters, unless
\* the array is full.
LEMMA EndedBegun ==
  ASSUME WholeTexts, CharactersIInv, ~cut, stage = "format"
  PROVE  /\ Begun(CString(text))
         /\ Len(CString(text)) < Size - 1 => Whole(CString(text))
<1>1. text \in Seq(ArrayByte) /\ Begun(text) /\ (Len(text) < Size => Whole(text)) /\ ~Follows(NUL)
  BY DEF CharactersIInv, Within, WriteTypeOK, CutAtTheEnd, WholeTexts, ArrayByte
<1>2. Begun(CString(text)) /\ (CString(text) # text => Whole(CString(text)))
  BY <1>1, CStringBegun
<1>3. Len(text) < Size - 1 => Whole(text)
  BY <1>1, LenOf, TextSizes
<1>4. QED
  BY <1>2, <1>3

\* The terminator in a full array ends it one byte before.
LEMMA FormattedCuts ==
  ASSUME WholeTexts, CharactersIInv, Formatted
  PROVE  CharactersHold'
<1>1. /\ cut' = cut /\ sent' = sent /\ crowded' = crowded /\ stage' = "formatted" /\ stage = "format"
      /\ text' = IF Len(text) = Size THEN [text EXCEPT ![Size] = NUL] ELSE text
  BY DEF Formatted, historyVars
<1>2. text \in Seq(ArrayByte) /\ Len(text) \in Nat /\ Size \in Nat \ {0} /\ ~Follows(NUL)
  BY LenOf, TextSizes DEF CharactersIInv, Within, WriteTypeOK, WholeTexts, ArrayByte
<1>3. ASSUME ~cut
      PROVE  /\ Begun(CString(text'))
             /\ Len(CString(text')) < Size - 1 => Whole(CString(text'))
  <2>1. CASE Len(text) # Size
    BY <1>1, <1>3, <2>1, EndedBegun
  <2>2. CASE Len(text) = Size
    <3> DEFINE t == [text EXCEPT ![Size] = NUL]
    <3>1. text' = t
      BY <1>1, <2>2
    <3>2. text \in [1..Size -> ArrayByte] /\ Size \in 1..Size
      BY <1>2, <2>2
    <3>3. t \in [1..Size -> ArrayByte] /\ t[Size] = NUL /\ \A k \in 1..Size - 1 : t[k] = text[k]
      BY <1>2, <3>2, AnyText
    <3>4. t \in Seq(ArrayByte) /\ Len(t) = Size
      BY <1>2, <3>3, BytesMakeText
    <3> HIDE DEF t
    <3>5. PICK k \in 1..Size : /\ t[k] = NUL /\ CString(t) = SubSeq(t, 1, k - 1)
                              /\ \A j \in 1..k - 1 : t[j] # NUL
      BY <3>2, <3>3, <3>4, CStringIs
    <3> DEFINE n == k - 1
               before == SubSeq(text, 1, n)
    <3>6. n \in 0..Len(text) /\ n \in Nat /\ n <= Size
      BY <1>2, <2>2
    <3>7. SubSeq(t, 1, n) = before /\ Begun(before) /\ Len(before) = n
      <4> HIDE DEF n
      <4>1. /\ SubSeq(t, 1, n) \in Seq(ArrayByte) /\ Len(SubSeq(t, 1, n)) = n
            /\ \A j \in 1..n : SubSeq(t, 1, n)[j] = t[j]
        BY <3>4, <3>6, SubSeqProperties
      <4>2. /\ before \in Seq(ArrayByte) /\ Len(before) = n
            /\ \A j \in 1..n : before[j] = text[j]
        BY <1>2, <2>2, <3>6, SubSeqProperties
      <4>3. \A j \in 1..n : j \in 1..Size - 1
        BY <1>2, <3>6 DEF n
      <4>4. \A j \in 1..n : SubSeq(t, 1, n)[j] = before[j]
        BY <3>3, <4>1, <4>2, <4>3
      <4> DEFINE u == SubSeq(t, 1, n)
      <4>5. u \in Seq(ArrayByte) /\ Len(u) = n /\ \A j \in 1..n : u[j] = before[j]
        BY <4>1, <4>4
      <4> HIDE DEF u, before
      <4>6. u = before
        BY <4>2, <4>5
      <4>7. Begun(before)
        BY <1>1, <1>2, <1>3, <3>6, BegunBefore DEF CharactersIInv, CutAtTheEnd, before
      <4>8. QED
        BY <4>2, <4>6, <4>7 DEF u, before
    <3>8. CString(text') = before
      BY <3>1, <3>5, <3>7
    <3>9. n < Size - 1 => Whole(before)
      <4>1. ASSUME n < Size - 1 PROVE k \in 1..Len(text) /\ text[k] = NUL
        <5>1. k \in 1..Size - 1 /\ k \in 1..Len(text)
          BY <1>2, <2>2, <4>1
        <5>2. t[k] = text[k]
          BY <3>3, <5>1
        <5>3. QED
          BY <3>5, <5>1, <5>2
      <4>2. QED
        BY <1>1, <1>2, <1>3, <4>1, WholeBefore DEF CharactersIInv, CutAtTheEnd
    <3> HIDE DEF n, before
    <3>10. QED
      BY <3>7, <3>8, <3>9
  <2>3. QED
    BY <2>1, <2>2
<1>4. QED
  BY <1>1, <1>3 DEF CharactersIInv, CharactersHold, CutAtTheEnd, WholeCharacters

\* The natives leave the array as it is, and sendMsg() trims what it sends.
LEMMA SendCuts ==
  ASSUME WholeTexts, CharactersIInv,
         \/ PrintToServer
         \/ \E dest \in Dest, cstrike \in BOOLEAN : SendMsg(dest, cstrike)
         \/ \E size \in Sizes : CopyString(size) \/ \E n \in {0, -12} : NumToString(n, size)
         \/ \E length \in MenuLengths : SendMenu(length)
  PROVE  CharactersHold'
<1>1. text' = text /\ cut' = cut /\ crowded' = crowded /\ stage' = "done" /\ stage \in {"format", "formatted"}
  BY DEF PrintToServer, SendMsg, CopyString, NumToString, SendMenu, Ended, formatVars, historyVars
<1>2. ~cut => /\ Begun(CString(text))
              /\ Len(CString(text)) < Size - 1 => Whole(CString(text))
  <2>1. CASE stage = "format"
    BY <2>1, EndedBegun
  <2>2. CASE stage = "formatted"
    BY <2>2 DEF CharactersIInv, CutAtTheEnd
  <2>3. QED
    BY <1>1, <2>1, <2>2
<1>3. CutAtTheEnd' /\ (crowded' => cut')
  BY <1>1, <1>2 DEF CharactersIInv, CutAtTheEnd
<1>4. ASSUME NEW dest \in Dest, NEW cstrike \in BOOLEAN, SendMsg(dest, cstrike)
      PROVE  WholeCharacters'
  <2>1. CASE sent' = sent
    BY <1>1, <2>1 DEF CharactersIInv, WholeCharacters
  <2>2. CASE sent' = [to |-> dest, text |-> Message(CString(text), dest, cstrike)]
    <3>1. sent'.to = dest /\ sent'.text = Message(CString(text), dest, cstrike) /\ cut' = cut
      BY <1>1, <2>2
    <3>2. CString(text) \in Seq(Byte)
      BY CStringIs DEF CharactersIInv, Within, WriteTypeOK, ArrayByte
    <3>3. ASSUME dest \in {"console", "notify"}, ~cut
          PROVE  Whole(Message(CString(text), dest, cstrike))
      BY <1>2, <3>2, <3>3, MessageWhole
    <3>4. QED
      BY <3>1, <3>3 DEF WholeCharacters
  <2>3. QED
    BY <1>4, <2>1, <2>2 DEF SendMsg
<1>5. ASSUME \/ PrintToServer
             \/ \E size \in Sizes : CopyString(size) \/ \E n \in {0, -12} : NumToString(n, size)
      PROVE  WholeCharacters'
  <2>1. sent'.to \in {"server", "plugin"}
    BY <1>5 DEF PrintToServer, CopyString, NumToString
  <2>2. QED
    BY <2>1 DEF WholeCharacters
<1>6. ASSUME NEW length \in MenuLengths, SendMenu(length) PROVE WholeCharacters'
  BY <1>1, <1>6 DEF SendMenu, CharactersIInv, WholeCharacters
<1>7. QED
  BY <1>3, <1>4, <1>5, <1>6 DEF CharactersHold

\* Every step keeps to whole characters.
LEMMA CharactersStay ==
  ASSUME WholeTexts, CharactersIInv, [WriteNext]_outVars
  PROVE  CharactersIInv'
<1>1. Within'
  BY WriteStays DEF CharactersIInv
<1>2. ASSUME NEW byte \in Bytes, PutByte(byte) PROVE CharactersHold'
  BY <1>2, PutByteCuts
<1>3. ASSUME NEW kind \in DOMAIN Directives, NEW d \in Directives[kind], PutDirective(d)
      PROVE  CharactersHold'
  BY <1>3, PutDirectiveCuts
<1>4. ASSUME MissingArgument PROVE CharactersHold'
  <2>1. text' = <<>> /\ cut' = cut /\ sent' = sent /\ crowded' = crowded /\ stage' = "formatted"
    BY <1>4 DEF MissingArgument
  <2>2. Whole(<<>>)
    <3>1. <<>> \in Seq(Plain)
      OBVIOUS
    <3>2. QED
      BY <3>1, PlainIsWhole
  <2>3. CString(<<>>) = <<>>
    <3>1. PICK none \in Seq(ArrayByte) : none = <<>> /\ Len(none) = 0
      BY Short
    <3>2. CString(none) = none \/ \E k \in 1..Len(none) : TRUE
      BY CStringIs
    <3>3. QED
      BY <3>1, <3>2
  <2>4. QED
    BY <2>1, <2>2, <2>3 DEF CharactersIInv, CharactersHold, CutAtTheEnd, WholeCharacters, Whole
<1>5. ASSUME \/ PrintToServer
             \/ \E dest \in Dest, cstrike \in BOOLEAN : SendMsg(dest, cstrike)
             \/ \E size \in Sizes : CopyString(size) \/ \E n \in {0, -12} : NumToString(n, size)
             \/ \E length \in MenuLengths : SendMenu(length)
      PROVE  CharactersHold'
  BY <1>5, SendCuts
<1>6. ASSUME Formatted PROVE CharactersHold'
  BY <1>6, FormattedCuts
<1>7. ASSUME SendPart \/ UNCHANGED outVars
      PROVE  CharactersHold'
  <2>1. text' = text /\ cut' = cut /\ sent' = sent /\ crowded' = crowded /\ stage' = stage
    BY <1>7 DEF SendPart, outVars, formatVars, historyVars
  <2>2. QED
    BY <2>1 DEF CharactersIInv, CharactersHold, CutAtTheEnd, WholeCharacters
<1>8. CharactersHold'
  BY <1>2, <1>3, <1>4, <1>5, <1>6, <1>7 DEF WriteNext, Done
<1>9. QED
  BY <1>1, <1>8 DEF CharactersIInv, CharactersHold

\* As long as formats and texts are whole characters, what is sent to the console
\* of a player is: the array of the native may end in the middle of one, and
\* sendMsg() takes that one away.
THEOREM ConsoleGetsWholeCharacters ==
  ASSUME WholeTexts
  PROVE  WriteSpec => []WholeCharacters
<1>1. WriteInit => CharactersIInv
  <2>1. ASSUME WriteInit
        PROVE  Within /\ text = <<>> /\ sent.to = "nobody" /\ crowded = FALSE /\ stage = "format"
    BY <2>1, WriteBegins DEF WriteInit
  <2>2. Whole(<<>>)
    <3>1. <<>> \in Seq(Plain)
      OBVIOUS
    <3>2. QED
      BY <3>1, PlainIsWhole
  <2>3. QED
    BY <2>1, <2>2 DEF CharactersIInv, CutAtTheEnd, WholeCharacters, Whole
<1>2. CharactersIInv /\ [WriteNext]_outVars => CharactersIInv'
  BY CharactersStay
<1>3. CharactersIInv => WholeCharacters
  BY DEF CharactersIInv
<1>4. QED
  BY <1>1, <1>2, <1>3, PTL DEF WriteSpec

----------------------------------------------------------------------------
(* What C writes.                                                          *)

\* A quotient is known by its remainder.
LEMMA QuotientIs ==
  ASSUME NEW n \in Nat, NEW d \in Nat \ {0}, NEW q \in Nat, NEW r \in 0..d - 1, n = q * d + r
  PROVE  n \div d = q /\ n % d = r
OBVIOUS

\* A number of eighths apart from its whole ones.
LEMMA Eighths ==
  ASSUME NEW w \in Nat, NEW m \in Nat
  PROVE  (8 * w + m) \div 8 = w + (m \div 8) /\ (8 * w + m) % 8 = m % 8
OBVIOUS

\* The fraction of a float to some digits, and what is left of it.
LEMMA Fraction ==
  ASSUME NEW m \in Nat \ {0}, NEW e \in 0..7
  PROVE  LET tmp == e * (10 * m)
             frac == tmp \div 8
             diff == tmp % 8
         IN /\ tmp \in Nat /\ frac \in Nat /\ diff \in 0..7 /\ tmp = 8 * frac + diff
            /\ frac < 10 * m
            /\ diff >= 4 => frac > 0
            /\ diff = 4 => frac + 1 < 10 * m
<1> DEFINE tmp == e * (10 * m)
           frac == tmp \div 8
           diff == tmp % 8
<1>1. tmp \in {0, 10 * m, 2 * (10 * m), 3 * (10 * m), 4 * (10 * m), 5 * (10 * m), 6 * (10 * m),
               7 * (10 * m)}
  OBVIOUS
<1>2. tmp \in Nat /\ tmp <= 70 * m /\ (tmp = 0 \/ tmp >= 10)
  <2> HIDE DEF tmp
  <2>1. QED
    BY <1>1
<1> HIDE DEF tmp
<1>3. frac \in Nat /\ diff \in 0..7 /\ tmp = 8 * frac + diff
  BY <1>2
<1> HIDE DEF frac, diff
<1>4. frac < 10 * m /\ (diff >= 4 => frac > 0) /\ (diff = 4 => frac + 1 < 10 * m)
  BY <1>2, <1>3
<1>5. QED
  BY <1>2, <1>3, <1>4 DEF frac, diff, tmp

\* _ftoa() rounds as C does.
LEMMA RoundsAsC ==
  ASSUME NEW whole \in Nat, NEW e \in 0..7, NEW prec \in Nat
  PROVE  LET P == Pow10(prec)
             n == (8 * whole + e) * P
             q == n \div 8
             up == n % 8 > 4 \/ (n % 8 = 4 /\ q % 2 = 1)
             r == IF up THEN q + 1 ELSE q
         IN /\ Rounded(whole, e, prec).whole = r \div P
            /\ prec # 0 => Rounded(whole, e, prec).frac = r % P
<1> DEFINE P == Pow10(prec)
           n == (8 * whole + e) * P
           q == n \div 8
           up == n % 8 > 4 \/ (n % 8 = 4 /\ q % 2 = 1)
           r == IF up THEN q + 1 ELSE q
           tmp == e * P
           frac == tmp \div 8
           diff == tmp % 8
           rollover == diff > 4 /\ frac + 1 >= P
           more == diff > 4 \/ (diff = 4 /\ (frac = 0 \/ frac % 2 = 1))
           W == whole * P
<1>1. P \in Nat \ {0} /\ (prec = 0 => P = 1) /\ (prec # 0 => \E m \in Nat \ {0} : P = 10 * m)
  BY Pow10Type
<1>2. /\ Rounded(whole, e, prec).whole
           = IF rollover \/ (prec = 0 /\ diff = 4 /\ whole % 2 = 1) THEN whole + 1 ELSE whole
      /\ Rounded(whole, e, prec).frac = IF rollover THEN 0 ELSE IF more THEN frac + 1 ELSE frac
  BY DEF Rounded
<1> HIDE DEF P
<1>3. W \in Nat /\ tmp \in Nat /\ n = 8 * W + tmp
  BY <1>1
<1> HIDE DEF W, tmp
<1>4. q = W + frac /\ n % 8 = diff
  <2> HIDE DEF n
  <2>1. QED
    BY <1>3, Eighths
<1>5. CASE prec = 0
  <2>1. P = 1 /\ W = whole /\ tmp = e
    BY <1>1, <1>5 DEF W, tmp
  <2>2. frac = 0 /\ diff = e
    BY <2>1
  <2> HIDE DEF frac, diff, n
  <2>3. q = whole /\ n % 8 = e
    BY <1>4, <2>1, <2>2
  <2> HIDE DEF q
  <2>4. r \in Nat /\ r = IF e > 4 \/ (e = 4 /\ whole % 2 = 1) THEN whole + 1 ELSE whole
    BY <2>3
  <2> HIDE DEF r
  <2>5. r \div P = r
    BY <2>1, <2>4
  <2>6. Rounded(whole, e, prec).whole = r
    BY <1>2, <1>5, <2>1, <2>2, <2>4
  <2>7. QED
    BY <1>5, <2>5, <2>6 DEF r, q, n, P
<1>6. CASE prec # 0
  <2>1. PICK m \in Nat \ {0} : P = 10 * m
    BY <1>1, <1>6
  <2>2. /\ frac \in Nat /\ diff \in 0..7
        /\ frac < P
        /\ diff >= 4 => frac > 0
        /\ diff = 4 => frac + 1 < P
    BY <2>1, Fraction DEF tmp
  <2>3. W % 2 = 0
    <3>1. W = 2 * (5 * (whole * m)) /\ whole * m \in Nat
      BY <2>1 DEF W
    <3>2. QED
      BY <3>1
  <2> HIDE DEF frac, diff, n
  <2>4. q % 2 = frac % 2 /\ q \in Nat
    BY <1>3, <1>4, <2>2, <2>3
  <2> HIDE DEF q
  <2>5. up = more
    BY <1>4, <2>2, <2>4
  <2>6. r = W + (IF more THEN frac + 1 ELSE frac)
    BY <1>3, <1>4, <2>2, <2>5
  <2> HIDE DEF r
  <2>7. CASE more /\ frac + 1 >= P
    <3>1. diff > 4 /\ frac + 1 = P
      BY <1>1, <2>2, <2>7
    <3>2. r = (whole + 1) * P + 0
      BY <1>1, <2>6, <2>7, <3>1 DEF W
    <3>3. 0 \in 0..P - 1 /\ r \in Nat /\ whole + 1 \in Nat
      BY <1>1, <3>2
    <3>4. r \div P = whole + 1 /\ r % P = 0
      BY <1>1, <3>2, <3>3, QuotientIs
    <3>5. rollover
      BY <3>1, <2>7
    <3>6. QED
      BY <1>2, <3>4, <3>5 DEF r, q, n, P
  <2>8. CASE ~(more /\ frac + 1 >= P)
    <3> DEFINE f == IF more THEN frac + 1 ELSE frac
    <3>1. f \in 0..P - 1
      BY <1>1, <2>2, <2>8
    <3>2. r = whole * P + f
      BY <2>6 DEF W
    <3> HIDE DEF f
    <3>3. r \in Nat
      BY <1>1, <3>1, <3>2
    <3>4. r \div P = whole /\ r % P = f
      BY <1>1, <3>1, <3>2, <3>3, QuotientIs
    <3>5. ~rollover
      BY <2>8
    <3>6. Rounded(whole, e, prec).whole = whole /\ Rounded(whole, e, prec).frac = f
      BY <1>2, <1>6, <3>5 DEF f
    <3>7. QED
      BY <3>4, <3>6 DEF r, q, n, P
  <2>9. QED
    BY <2>7, <2>8
<1>7. QED
  BY <1>5, <1>6

\* Text backwards, byte by byte.
LEMMA ReverseAt ==
  ASSUME NEW B, NEW s \in Seq(B)
  PROVE  /\ Reverse(s) \in Seq(B) /\ Len(Reverse(s)) = Len(s) /\ Len(s) \in Nat
         /\ \A i \in 1..Len(s) : Reverse(s)[i] = s[Len(s) - i + 1]
<1>1. Reverse(s) \in Seq(B) /\ Len(Reverse(s)) = Len(s) /\ Len(s) \in Nat
  BY ReverseType, LenOf
<1>2. \A i \in 1..Len(s) : Reverse(s)[i] = s[Len(s) - i + 1]
  BY <1>1 DEF Reverse
<1>3. QED
  BY <1>1, <1>2

\* Text after text, backwards.
LEMMA ReverseJoin ==
  ASSUME NEW B, NEW s \in Seq(B), NEW t \in Seq(B)
  PROVE  Reverse(s \o t) = Reverse(t) \o Reverse(s)
<1> DEFINE u == s \o t
           l == Reverse(u)
           r == Reverse(t) \o Reverse(s)
           m == Len(s)
           n == Len(t)
<1>1. /\ u \in Seq(B) /\ Len(u) = m + n /\ m \in Nat /\ n \in Nat
      /\ \A i \in 1..m + n : u[i] = IF i <= m THEN s[i] ELSE t[i - m]
  BY ConcatProperties, LenOf
<1>2. /\ Reverse(s) \in Seq(B) /\ Len(Reverse(s)) = m
      /\ \A i \in 1..m : Reverse(s)[i] = s[m - i + 1]
      /\ Reverse(t) \in Seq(B) /\ Len(Reverse(t)) = n
      /\ \A i \in 1..n : Reverse(t)[i] = t[n - i + 1]
  BY ReverseAt
<1>3. /\ r \in Seq(B) /\ Len(r) = n + m
      /\ \A i \in 1..n + m : r[i] = IF i <= n THEN Reverse(t)[i] ELSE Reverse(s)[i - n]
  <2> DEFINE a == Reverse(t)
             b == Reverse(s)
  <2>1. a \in Seq(B) /\ b \in Seq(B) /\ Len(a) = n /\ Len(b) = m
    BY <1>2
  <2> HIDE DEF m, n, a, b
  <2>2. /\ a \o b \in Seq(B) /\ Len(a \o b) = Len(a) + Len(b)
        /\ \A i \in 1..Len(a) + Len(b) :
             (a \o b)[i] = IF i <= Len(a) THEN a[i] ELSE b[i - Len(a)]
    BY <2>1, ConcatProperties
  <2>3. QED
    BY <2>1, <2>2 DEF a, b
<1> HIDE DEF u, m, n
<1>4. /\ l \in Seq(B) /\ Len(l) = m + n
      /\ \A i \in 1..m + n : l[i] = u[m + n - i + 1]
  BY <1>1, ReverseAt
<1> HIDE DEF l, r
<1>5. ASSUME NEW i \in 1..m + n
      PROVE  l[i] = r[i]
  <2>1. l[i] = u[m + n - i + 1] /\ m + n - i + 1 \in 1..m + n
    BY <1>1, <1>4
  <2>2. CASE i <= n
    <3>1. i \in 1..n /\ ~(m + n - i + 1 <= m) /\ (m + n - i + 1) - m = n - i + 1
      BY <1>1, <2>2
    <3>2. r[i] = t[n - i + 1]
      BY <1>1, <1>2, <1>3, <2>2, <3>1
    <3>3. u[m + n - i + 1] = t[n - i + 1]
      BY <1>1, <2>1, <3>1
    <3>4. QED
      BY <2>1, <3>2, <3>3
  <2>3. CASE ~(i <= n)
    <3>1. i - n \in 1..m /\ m + n - i + 1 <= m /\ m - (i - n) + 1 = m + n - i + 1
      BY <1>1, <2>3
    <3>2. r[i] = s[m + n - i + 1]
      BY <1>1, <1>2, <1>3, <2>3, <3>1
    <3>3. u[m + n - i + 1] = s[m + n - i + 1]
      BY <1>1, <2>1, <3>1
    <3>4. QED
      BY <2>1, <3>2, <3>3
  <2>4. QED
    BY <2>2, <2>3
<1>6. Len(l) = Len(r) /\ \A i \in 1..Len(l) : l[i] = r[i]
  BY <1>1, <1>3, <1>4, <1>5
<1>7. l = r
  BY <1>3, <1>4, <1>6, SeqEqual
<1>8. QED
  BY <1>7 DEF l, r, u

\* Padding is the same backwards, as are a single byte and nothing.
LEMMA ReverseSame ==
  ASSUME NEW B, NEW byte \in B, NEW n \in Nat
  PROVE  /\ Reverse(Repeat(byte, n)) = Repeat(byte, n)
         /\ Reverse(<<byte>>) = <<byte>> /\ Reverse(<<>>) = <<>>
         /\ Repeat(byte, 0) = <<>>
<1> DEFINE s == Repeat(byte, n)
<1>1. s \in Seq(B) /\ Len(s) = n /\ \A i \in 1..n : s[i] = byte
  BY RepeatType DEF Repeat
<1> HIDE DEF s
<1>2. /\ Reverse(s) \in Seq(B) /\ Len(Reverse(s)) = n
      /\ \A i \in 1..n : Reverse(s)[i] = s[n - i + 1]
  BY <1>1, ReverseAt
<1>3. \A i \in 1..n : Reverse(s)[i] = s[i]
  BY <1>1, <1>2
<1>4. Reverse(s) = s
  BY <1>1, <1>2, <1>3, SeqEqual
<1>5. Reverse(<<byte>>) = <<byte>>
  <2> DEFINE t == <<byte>>
  <2>1. t \in Seq(B) /\ Len(t) = 1
    OBVIOUS
  <2> HIDE DEF t
  <2>2. /\ Reverse(t) \in Seq(B) /\ Len(Reverse(t)) = 1
        /\ \A i \in 1..1 : Reverse(t)[i] = t[1 - i + 1]
    BY <2>1, ReverseAt
  <2>3. \A i \in 1..1 : Reverse(t)[i] = t[i]
    BY <2>2
  <2>4. Reverse(t) = t
    BY <2>1, <2>2, <2>3, SeqEqual
  <2>5. QED
    BY <2>4 DEF t
<1>6. Reverse(<<>>) = <<>>
  <2>1. <<>> \in Seq(B) /\ Len(<<>>) = 0
    OBVIOUS
  <2>2. Reverse(<<>>) \in Seq(B) /\ Len(Reverse(<<>>)) = 0
    BY <2>1, ReverseType
  <2>3. QED
    BY <2>2, EmptySeq
<1>7. Repeat(byte, 0) = <<>>
  <2>1. Repeat(byte, 0) \in Seq(B) /\ Len(Repeat(byte, 0)) = 0
    BY RepeatType
  <2>2. QED
    BY <2>1, EmptySeq
<1>8. QED
  BY <1>4, <1>5, <1>6, <1>7 DEF s

\* Text that is short enough is copied whole.
LEMMA UptoAll ==
  ASSUME NEW B, NEW s \in Seq(B), NEW n \in Nat, Len(s) <= n
  PROVE  Upto(s, n) = s
<1>1. Atmost(n, Len(s)) = Len(s)
  BY LenOf DEF Atmost
<1>2. SubSeq(s, 1, Len(s)) = s
  BY SubSeqFull
<1>3. QED
  BY <1>1, <1>2 DEF Upto

\* A byte of padding is taken away.
LEMMA DropsPadding ==
  ASSUME NEW B, NEW s \in Seq(B), NEW byte \in B, NEW n \in Nat \ {0}
  PROVE  DropLast(s \o Repeat(byte, n), 1) = s \o Repeat(byte, n - 1)
<1> DEFINE m == Len(s)
           long == Repeat(byte, n)
           short == Repeat(byte, n - 1)
           u == s \o long
           v == s \o short
           k == m + n - 1
<1>1. m \in Nat /\ n - 1 \in Nat /\ k \in Nat /\ n \in Nat
  BY LenOf
<1>2. /\ long \in Seq(B) /\ Len(long) = n /\ \A i \in 1..n : long[i] = byte
      /\ short \in Seq(B) /\ Len(short) = n - 1 /\ \A i \in 1..n - 1 : short[i] = byte
  BY <1>1, RepeatType DEF Repeat
<1> HIDE DEF long, short
<1>3. /\ u \in Seq(B) /\ Len(u) = m + n
      /\ \A i \in 1..m + n : u[i] = IF i <= m THEN s[i] ELSE long[i - m]
      /\ v \in Seq(B) /\ Len(v) = k
      /\ \A i \in 1..m + (n - 1) : v[i] = IF i <= m THEN s[i] ELSE short[i - m]
  BY <1>1, <1>2, ConcatProperties
<1> HIDE DEF u, v, m
<1>4. \A i \in 1..k : u[i] = v[i]
  <2>1. ASSUME NEW i \in 1..k
        PROVE  u[i] = v[i]
    <3>1. CASE i <= m
      <4>1. i \in 1..m + n /\ i \in 1..m + (n - 1)
        BY <1>1
      <4>2. QED
        BY <1>3, <3>1, <4>1
    <3>2. CASE ~(i <= m)
      <4>1. i - m \in 1..n - 1 /\ i - m \in 1..n /\ i \in 1..m + n /\ i \in 1..m + (n - 1)
        BY <1>1, <3>2
      <4>2. QED
        BY <1>2, <1>3, <3>2, <4>1
    <3>3. QED
      BY <3>1, <3>2
  <2>2. QED
    BY <2>1
<1>5. /\ SubSeq(u, 1, k) \in Seq(B) /\ Len(SubSeq(u, 1, k)) = k
      /\ \A i \in 1..k : SubSeq(u, 1, k)[i] = u[i]
  <2>1. \A i \in 1..k : u[i] \in B
    BY <1>1, <1>3
  <2> HIDE DEF k
  <2>2. QED
    BY <1>1, <2>1, SubSeqProperties
<1>6. SubSeq(u, 1, k) = v
  <2> HIDE DEF k
  <2>1. QED
    BY <1>1, <1>3, <1>4, <1>5, SeqEqual
<1>7. Max({0, Len(u) - 1}) = k
  <2>1. Len(u) - 1 = k /\ k \in Int /\ k >= 0
    BY <1>1, <1>3
  <2> HIDE DEF k
  <2>2. QED
    BY <2>1, AtLeastZero
<1>8. DropLast(u, 1) = v
  BY <1>6, <1>7 DEF DropLast
<1>9. QED
  BY <1>8 DEF u, v, long, short

----------------------------------------------------------------------------
(* A number with its sign and zeros.                                       *)

\* The sign of a number.
LEMMA SignIs ==
  ASSUME NEW neg \in BOOLEAN, NEW flags
  PROVE  /\ CSign(neg, flags) \in Seq(Byte) /\ Reverse(CSign(neg, flags)) = CSign(neg, flags)
         /\ IF neg \/ flags \cap {"plus", "space"} # {} THEN Len(CSign(neg, flags)) = 1
            ELSE CSign(neg, flags) = <<>> /\ Len(CSign(neg, flags)) = 0
<1> DEFINE sign == CSign(neg, flags)
           signed == neg \/ flags \cap {"plus", "space"} # {}
<1>1. signed <=> neg \/ "plus" \in flags \/ "space" \in flags
  OBVIOUS
<1>2. IF signed THEN sign \in {<<"-">>, <<"+">>, <<" ">>} ELSE sign = <<>>
  <2> HIDE DEF signed
  <2>1. QED
    BY <1>1 DEF CSign
<1>3. \A s \in {<<"-">>, <<"+">>, <<" ">>} : s \in Seq(Byte) /\ Len(s) = 1 /\ Reverse(s) = s
  BY Own, Short, ReverseSame
<1>4. <<>> \in Seq(Byte) /\ Len(<<>>) = 0 /\ Reverse(<<>>) = <<>>
  BY Own, Short, ReverseSame
<1> HIDE DEF sign, signed
<1>5. sign \in Seq(Byte) /\ Reverse(sign) = sign
  BY <1>2, <1>3, <1>4
<1>6. IF signed THEN Len(sign) = 1 ELSE sign = <<>> /\ Len(sign) = 0
  BY <1>2, <1>3, <1>4
<1>7. QED
  BY <1>5, <1>6 DEF sign, signed

\* A number with as many zeros as its flags want.
Body(buf, flags, width) ==
  IF "zero" \in flags /\ "left" \notin flags THEN Padded(buf, width, "0") ELSE buf

\* How many zeros there are once its sign has its place.
ZerosIn(buf, neg, flags, width) ==
  IF "zero" \in flags /\ "left" \notin flags
  THEN Max({0, width - Len(CSign(neg, flags)) - Len(buf)}) ELSE 0

\* The sign comes after the digits and zeros, and takes the place of a zero.
LEMMA SignedIs ==
  ASSUME NEW buf \in Seq(Byte), NEW neg \in BOOLEAN, NEW flags, NEW width \in Nat,
         Len(buf) + Len(CSign(neg, flags)) <= NtoaSize,
         "zero" \in flags /\ "left" \notin flags => width <= NtoaSize /\ buf # <<>>,
         CSign(neg, flags) # <<>> => ~(Len(buf) = width /\ buf # <<>>)
  PROVE  /\ ZerosIn(buf, neg, flags, width) \in Nat
         /\ Signed(Body(buf, flags, width), neg, flags, width)
              = (buf \o Repeat("0", ZerosIn(buf, neg, flags, width))) \o CSign(neg, flags)
<1> DEFINE sign == CSign(neg, flags)
           signed == neg \/ flags \cap {"plus", "space"} # {}
           body == Body(buf, flags, width)
           z == ZerosIn(buf, neg, flags, width)
           room == IF Len(body) = width /\ signed THEN DropLast(body, 1) ELSE body
           zero == "zero" \in flags /\ "left" \notin flags
<1>1. /\ sign \in Seq(Byte)
      /\ IF signed THEN Len(sign) = 1 ELSE sign = <<>> /\ Len(sign) = 0
  BY SignIs
<1>2. Len(buf) \in Nat /\ NtoaSize \in Nat /\ (buf # <<>> <=> Len(buf) # 0)
  <2>1. Len(buf) \in Nat /\ NtoaSize \in Nat
    BY LenOf, PrintfSizes
  <2>2. buf # <<>> <=> Len(buf) # 0
    BY EmptySeq
  <2>3. QED
    BY <2>1, <2>2
<1>3. signed <=> sign # <<>>
  <2>1. CASE signed
    <3>1. Len(sign) = 1
      BY <1>1, <2>1
    <3> HIDE DEF sign
    <3>2. sign # <<>>
      BY <3>1
    <3>3. QED
      BY <2>1, <3>2
  <2>2. CASE ~signed
    BY <1>1, <2>2
  <2>3. QED
    BY <2>1, <2>2
<1>4. "0" \in Byte
  BY Own
<1>11. Len(buf) + Len(sign) <= NtoaSize
  OBVIOUS
<1> HIDE DEF sign, signed
<1>5. /\ Len(sign) \in {0, 1} /\ Len(sign) \in Int /\ (signed => Len(sign) = 1)
      /\ signed => Len(buf) < NtoaSize
  <2>1. CASE signed
    <3>1. Len(sign) = 1
      BY <1>1, <2>1
    <3>2. QED
      BY <1>2, <1>11, <3>1
  <2>2. CASE ~signed
    <3>1. Len(sign) = 0
      BY <1>1, <2>2
    <3>2. QED
      BY <2>2, <3>1
  <2>3. QED
    BY <2>1, <2>2
<1>6. z \in Nat /\ room = buf \o Repeat("0", z) /\ (signed => Len(room) < NtoaSize)
  <2>1. CASE ~zero
    <3>1. z = 0 /\ body = buf
      BY <2>1 DEF ZerosIn, Body
    <3>2. buf \o Repeat("0", 0) = buf
      BY <1>4, ReverseSame, ConcatEmptySeq
    <3>3. room = buf
      <4>1. CASE Len(buf) = width /\ signed
        <5>1. buf = <<>>
          BY <1>3, <4>1 DEF sign
        <5>2. Max({0, Len(buf) - 1}) = 0
          <6> DEFINE k == Len(buf) - 1
          <6>1. k \in Int /\ ~(k > 0)
            BY <1>2, <5>1
          <6> HIDE DEF k
          <6>2. Max({0, k}) = 0
            BY <6>1, AtLeastZero
          <6>3. QED
            BY <6>2 DEF k
        <5>3. DropLast(buf, 1) = <<>>
          BY <5>1, <5>2 DEF DropLast
        <5>4. QED
          BY <3>1, <5>1, <5>3
      <4>2. CASE ~(Len(buf) = width /\ signed)
        BY <3>1, <4>2
      <4>3. QED
        BY <4>1, <4>2
    <3> HIDE DEF z, room
    <3>4. signed => Len(room) < NtoaSize
      BY <1>5, <3>1, <3>3
    <3>5. QED
      BY <3>1, <3>2, <3>3, <3>4
  <2>2. CASE zero
    <3> DEFINE gap == width - Len(sign) - Len(buf)
               all == width - Len(buf)
    <3>1. gap \in Int /\ all \in Int /\ gap = all - Len(sign)
      BY <1>2, <1>5
    <3>2. z = IF gap > 0 THEN gap ELSE 0
      <4>1. z = Max({0, gap})
        BY <2>2 DEF ZerosIn, sign
      <4> HIDE DEF gap, z
      <4>2. QED
        BY <3>1, <4>1, AtLeastZero
    <3> DEFINE long == IF all > 0 THEN all ELSE 0
    <3>3. body = buf \o Repeat("0", long)
      <4>1. Atmost(width, NtoaSize) = width
        BY <1>2, <2>2 DEF Atmost
      <4>2. body = buf \o Repeat("0", Max({0, all}))
        BY <2>2, <4>1 DEF Body, Padded
      <4> HIDE DEF all, body
      <4>3. Max({0, all}) = long
        BY <3>1, AtLeastZero
      <4>4. QED
        BY <4>2, <4>3
    <3>4. long \in Nat
      BY <3>1
    <3>5. Len(body) = Len(buf) + long /\ body \in Seq(Byte)
      <4> HIDE DEF long, body
      <4>1. Repeat("0", long) \in Seq(Byte) /\ Len(Repeat("0", long)) = long
        BY <1>4, <3>4, RepeatType
      <4>2. QED
        BY <3>3, <4>1, Joined
    <3> HIDE DEF body, z
    <3>6. buf # <<>> /\ width <= NtoaSize
      BY <2>2
    <3>7. CASE Len(body) = width /\ signed
      <4>1. long # 0
        <5>1. long = 0 => Len(buf) = width
          BY <1>2, <3>5, <3>7
        <5>2. QED
          BY <1>3, <3>6, <3>7, <5>1 DEF sign
      <4>2. all > 0 /\ long = all /\ z = long - 1
        <5>1. Len(sign) = 1
          BY <1>5, <3>7
        <5>2. all > 0 /\ long = all
          BY <4>1
        <5>3. gap = all - 1
          BY <3>1, <5>1
        <5> HIDE DEF all, gap, long
        <5>4. QED
          BY <3>1, <3>2, <5>2, <5>3
      <4>3. room = DropLast(buf \o Repeat("0", long), 1)
        BY <3>3, <3>7
      <4> HIDE DEF room, all
      <4>4. long \in Nat \ {0}
        BY <3>4, <4>1
      <4> HIDE DEF long
      <4>5. DropLast(buf \o Repeat("0", long), 1) = buf \o Repeat("0", z)
        BY <1>4, <4>2, <4>4, DropsPadding
      <4>6. z \in Nat
        BY <4>2, <4>4
      <4>7. Len(room) = Len(buf) + z
        <5>1. Repeat("0", z) \in Seq(Byte) /\ Len(Repeat("0", z)) = z
          BY <1>4, <4>6, RepeatType
        <5>2. QED
          BY <4>3, <4>5, <5>1, Joined
      <4>8. Len(room) < NtoaSize
        BY <1>2, <3>5, <3>6, <3>7, <4>2, <4>4, <4>7
      <4>9. QED
        BY <4>3, <4>5, <4>6, <4>8
    <3>8. CASE ~(Len(body) = width /\ signed)
      <4>1. room = buf \o Repeat("0", long)
        BY <3>3, <3>8
      <4>2. CASE signed
        <5>1. Len(buf) + long # width
          BY <3>5, <3>8, <4>2
        <5>2. ~(all > 0)
          BY <1>2, <3>1, <5>1
        <5>3. z = 0 /\ long = 0
          BY <1>5, <3>1, <3>2, <5>2
        <5>4. Len(room) = Len(buf)
          BY <1>2, <3>3, <3>5, <4>1, <5>3
        <5> HIDE DEF room, long
        <5>5. QED
          BY <1>5, <4>1, <5>3, <5>4
      <4>3. CASE ~signed
        <5>1. Len(sign) = 0
          BY <1>1, <4>3
        <5>2. z = long
          BY <1>2, <3>1, <3>2, <5>1
        <5> HIDE DEF room, long
        <5>3. QED
          BY <3>4, <4>1, <4>3, <5>2
      <4>4. QED
        BY <4>2, <4>3
    <3>9. QED
      BY <3>7, <3>8
  <2>3. QED
    BY <2>1, <2>2
<1>7. room \in Seq(Byte)
  <2> HIDE DEF room, z
  <2>1. QED
    BY <1>4, <1>6, RepeatType, Joined
<1>8. Signed(body, neg, flags, width)
        = IF Len(room) >= NtoaSize THEN room
          ELSE IF neg THEN Append(room, "-")
          ELSE IF "plus" \in flags THEN Append(room, "+")
          ELSE IF "space" \in flags THEN Append(room, " ") ELSE room
  BY DEF Signed, Signs, signed
<1> HIDE DEF room, z, body
<1>9. Signed(body, neg, flags, width) = room \o sign
  <2>1. /\ Append(room, "-") = room \o <<"-">> /\ Append(room, "+") = room \o <<"+">>
        /\ Append(room, " ") = room \o <<" ">> /\ room \o <<>> = room
    BY <1>7, Own, AppendIsConcat, ConcatEmptySeq
  <2>2. sign = IF neg THEN <<"-">> ELSE IF "plus" \in flags THEN <<"+">>
               ELSE IF "space" \in flags THEN <<" ">> ELSE <<>>
    BY DEF sign, CSign
  <2>3. signed <=> neg \/ "plus" \in flags \/ "space" \in flags
    BY DEF signed
  <2>4. Len(room) \in Nat
    BY <1>7, LenOf
  <2>5. CASE signed
    <3>1. ~(Len(room) >= NtoaSize)
      BY <1>2, <1>6, <2>4, <2>5
    <3>2. QED
      BY <1>8, <2>1, <2>2, <3>1
  <2>6. CASE ~signed
    BY <1>8, <2>1, <2>2, <2>3, <2>6
  <2>7. QED
    BY <2>5, <2>6
<1>10. QED
  BY <1>6, <1>9 DEF body, z, sign

\* No padding is no text.
LEMMA NoPadding ==
  ASSUME NEW byte \in Byte, NEW s \in Seq(Byte)
  PROVE  /\ s \o Repeat(byte, 0) = s /\ Repeat(byte, 0) \o s = s
         /\ Repeat(byte, 0) \in Seq(Byte)
<1>1. Repeat(byte, 0) = <<>>
  BY ReverseSame
<1>2. s \o <<>> = s /\ <<>> \o s = s /\ <<>> \in Seq(Byte)
  BY ConcatEmptySeq, Short
<1>3. QED
  BY <1>1, <1>2

\* A number and its padding are copied whole if there is room for them.
LEMMA OutIs ==
  ASSUME NEW buf \in Seq(Byte), NEW flags, NEW width \in Nat, NEW maxlen \in Nat,
         Len(buf) <= maxlen,
         "zero" \notin flags \/ "left" \in flags => width <= maxlen \/ width <= Len(buf)
  PROVE  LET pad == Repeat(" ", Max({0, width - Len(buf)})) IN
         /\ Out(buf, flags, width, maxlen)
              = IF "left" \in flags THEN Reverse(buf) \o pad
                ELSE IF "zero" \in flags THEN Reverse(buf) ELSE pad \o Reverse(buf)
<1> DEFINE gap == width - Len(buf)
           least == Atmost(width, maxlen) - Len(buf)
           pad == Repeat(" ", Max({0, gap}))
<1>1. Len(buf) \in Nat /\ gap \in Int /\ least \in Int
  BY LenOf DEF Atmost
<1>2. Upto(Reverse(buf), maxlen) = Reverse(buf)
  <2>1. Reverse(buf) \in Seq(Byte) /\ Len(Reverse(buf)) <= maxlen
    BY ReverseType
  <2>2. QED
    BY <2>1, UptoAll
<1>3. Out(buf, flags, width, maxlen)
        = IF "left" \in flags THEN Reverse(buf) \o Repeat(" ", Max({0, least}))
          ELSE IF "zero" \in flags THEN Reverse(buf)
          ELSE Repeat(" ", Max({0, least})) \o Reverse(buf)
  BY <1>2 DEF Out
<1>4. CASE "zero" \notin flags \/ "left" \in flags
  <2>1. IF gap > 0 THEN least = gap ELSE ~(least > 0)
    BY <1>1, <1>4 DEF Atmost
  <2>2. Max({0, least}) = Max({0, gap})
    <3> HIDE DEF least, gap
    <3>1. QED
      BY <1>1, <2>1, AtLeastZero
  <2> HIDE DEF least, gap
  <2>3. QED
    BY <1>3, <2>2 DEF gap
<1>5. CASE ~("zero" \notin flags \/ "left" \in flags)
  BY <1>3, <1>5
<1>6. QED
  BY <1>4, <1>5

\* Text in front of text in front of text.
LEMMA Associative ==
  ASSUME NEW s \in Seq(Byte), NEW t \in Seq(Byte), NEW u \in Seq(Byte)
  PROVE  (s \o t) \o u = s \o (t \o u)
BY ConcatAssociative

\* Zeros and a sign in front of a number, backwards.
LEMMA NumberBackwards ==
  ASSUME NEW buf \in Seq(Byte), NEW n \in Nat, NEW sign \in Seq(Byte), Reverse(sign) = sign
  PROVE  LET s == (buf \o Repeat("0", n)) \o sign IN
         /\ s \in Seq(Byte) /\ Len(s) = Len(buf) + n + Len(sign)
         /\ Reverse(s) = (sign \o Repeat("0", n)) \o Reverse(buf)
<1> DEFINE zeros == Repeat("0", n)
           t == buf \o zeros
           s == t \o sign
<1>1. zeros \in Seq(Byte) /\ Len(zeros) = n /\ Reverse(zeros) = zeros
  BY Own, RepeatType, ReverseSame
<1> HIDE DEF zeros
<1>2. t \in Seq(Byte) /\ Len(t) = Len(buf) + n /\ Reverse(t) = zeros \o Reverse(buf)
  BY <1>1, Joined, ReverseJoin
<1> HIDE DEF t
<1>3. s \in Seq(Byte) /\ Len(s) = Len(t) + Len(sign) /\ Reverse(s) = sign \o (zeros \o Reverse(buf))
  BY <1>2, Joined, ReverseJoin
<1>4. Reverse(buf) \in Seq(Byte)
  BY ReverseType
<1>5. sign \o (zeros \o Reverse(buf)) = (sign \o zeros) \o Reverse(buf)
  BY <1>1, <1>4, Associative
<1> HIDE DEF s
<1>6. QED
  BY <1>2, <1>3, <1>5 DEF s, t, zeros

\* A field of C is as long as what is in it, or as its width.
LEMMA CFieldLength ==
  ASSUME NEW prefix \in Seq(Byte), NEW digits \in Seq(Byte), NEW flags, NEW width \in Nat, NEW mayZero
  PROVE  LET n == Len(prefix) + Len(digits) IN
         Len(CField(prefix, digits, flags, width, mayZero)) = IF width > n THEN width ELSE n
<1> DEFINE gap == width - Len(prefix) - Len(digits)
           m == Max({0, gap})
           blanks == Repeat(" ", m)
           zeros == Repeat("0", m)
           n == Len(prefix) + Len(digits)
<1>1. gap \in Int /\ Len(prefix) \in Nat /\ Len(digits) \in Nat
  BY LenOf
<1>2. m = IF gap > 0 THEN gap ELSE 0
  <2> HIDE DEF gap
  <2>1. QED
    BY <1>1, AtLeastZero
<1>3. m \in Nat /\ n + m = IF width > n THEN width ELSE n
  <2> HIDE DEF m
  <2>1. CASE gap > 0
    BY <1>1, <1>2, <2>1
  <2>2. CASE ~(gap > 0)
    BY <1>1, <1>2, <2>2
  <2>3. QED
    BY <2>1, <2>2
<1>4. /\ blanks \in Seq(Byte) /\ Len(blanks) = m
      /\ zeros \in Seq(Byte) /\ Len(zeros) = m
  <2> HIDE DEF m
  <2>1. QED
    BY <1>3, Own, RepeatType
<1>5. CField(prefix, digits, flags, width, mayZero)
        \in {prefix \o digits \o blanks, prefix \o zeros \o digits, blanks \o prefix \o digits}
  BY DEF CField
<1> HIDE DEF blanks, zeros, m
<1>6. /\ prefix \o digits \in Seq(Byte) /\ Len(prefix \o digits) = n
      /\ prefix \o zeros \in Seq(Byte) /\ Len(prefix \o zeros) = Len(prefix) + m
      /\ blanks \o prefix \in Seq(Byte) /\ Len(blanks \o prefix) = m + Len(prefix)
  BY <1>4, Joined
<1>7. /\ Len(prefix \o digits \o blanks) = n + m
      /\ Len(prefix \o zeros \o digits) = Len(prefix) + m + Len(digits)
      /\ Len(blanks \o prefix \o digits) = m + Len(prefix) + Len(digits)
  BY <1>4, <1>6, Joined
<1>8. Len(CField(prefix, digits, flags, width, mayZero)) = n + m
  <2>1. Len(prefix) + m + Len(digits) = n + m /\ m + Len(prefix) + Len(digits) = n + m
    BY <1>1, <1>3
  <2> HIDE DEF n
  <2>2. QED
    BY <1>5, <1>7, <2>1
<1>9. QED
  BY <1>3, <1>8

\* A field whose width may be filled with zeros.
NumberField(sign, digits, flags, width) == CField(sign, digits, flags, width, TRUE)

\* Digits, their sign and their zeros fit their array, leave the sign its place,
\* and their field fits the array of the caller.
FieldFits(buf, neg, flags, width, maxlen) ==
  /\ Len(buf) + Len(CSign(neg, flags)) <= NtoaSize
  /\ "zero" \in flags /\ "left" \notin flags => width <= NtoaSize /\ buf # <<>>
  /\ CSign(neg, flags) # <<>> => ~(Len(buf) = width /\ buf # <<>>)
  /\ Len(NumberField(CSign(neg, flags), Reverse(buf), flags, width)) <= maxlen

\* A number with its sign and its zeros is the field of C, if that fits.
LEMMA SignedField ==
  ASSUME NEW buf \in Seq(Byte), NEW neg \in BOOLEAN, NEW flags, NEW width \in Nat, NEW maxlen \in Nat,
         FieldFits(buf, neg, flags, width, maxlen)
  PROVE  Out(Signed(Body(buf, flags, width), neg, flags, width), flags, width, maxlen)
           = NumberField(CSign(neg, flags), Reverse(buf), flags, width)
<1> SUFFICES
      ASSUME Len(buf) + Len(CSign(neg, flags)) <= NtoaSize,
             "zero" \in flags /\ "left" \notin flags => width <= NtoaSize /\ buf # <<>>,
             CSign(neg, flags) # <<>> => ~(Len(buf) = width /\ buf # <<>>),
             Len(CField(CSign(neg, flags), Reverse(buf), flags, width, TRUE)) <= maxlen
      PROVE  Out(Signed(Body(buf, flags, width), neg, flags, width), flags, width, maxlen)
               = CField(CSign(neg, flags), Reverse(buf), flags, width, TRUE)
  BY DEF FieldFits, NumberField
<1> DEFINE sign == CSign(neg, flags)
           rev == Reverse(buf)
           z == ZerosIn(buf, neg, flags, width)
           s == (buf \o Repeat("0", z)) \o sign
           zero == "zero" \in flags /\ "left" \notin flags
           gap == width - Len(sign) - Len(rev)
           yes == TRUE
           field == CField(sign, rev, flags, width, yes)
           out == Out(s, flags, width, maxlen)
           rest == width - Len(s)
<1>1. sign \in Seq(Byte) /\ Reverse(sign) = sign /\ Len(sign) \in Nat
  BY SignIs, LenOf
<1>2. rev \in Seq(Byte) /\ Len(rev) = Len(buf) /\ Len(buf) \in Nat
  BY ReverseType, LenOf
<1>3. z \in Nat /\ Signed(Body(buf, flags, width), neg, flags, width) = s
  BY SignedIs
<1>4. z = IF zero THEN Max({0, gap}) ELSE 0
  BY <1>2 DEF ZerosIn
<1>5. field = IF "left" \in flags THEN (sign \o rev) \o Repeat(" ", Max({0, gap}))
              ELSE IF zero THEN (sign \o Repeat("0", Max({0, gap}))) \o rev
              ELSE (Repeat(" ", Max({0, gap})) \o sign) \o rev
  BY DEF CField
<1>6. width <= maxlen /\ Len(sign) + Len(buf) <= maxlen
  <2>1. Len(field) <= maxlen
    OBVIOUS
  <2> HIDE DEF sign, rev, yes
  <2>2. Len(field) = IF width > Len(sign) + Len(rev) THEN width ELSE Len(sign) + Len(rev)
    BY <1>1, <1>2, CFieldLength
  <2> HIDE DEF field
  <2>3. QED
    BY <1>1, <1>2, <2>1, <2>2
<1> HIDE DEF sign, rev, z, field, yes
<1>7. s \in Seq(Byte) /\ Len(s) = Len(buf) + z + Len(sign)
      /\ Reverse(s) = (sign \o Repeat("0", z)) \o rev
  BY <1>1, <1>3, NumberBackwards DEF rev
<1>8. gap \in Int /\ Max({0, gap}) = (IF gap > 0 THEN gap ELSE 0) /\ Max({0, gap}) \in Nat
  <2>1. gap \in Int
    BY <1>1, <1>2
  <2> HIDE DEF gap
  <2>2. QED
    BY <2>1, AtLeastZero
<1> HIDE DEF s
<1>9. Len(s) <= maxlen /\ (~zero => rest = gap) /\ rest \in Int
  <2>1. CASE zero /\ gap > 0
    <3>1. z = gap
      BY <1>4, <1>8, <2>1
    <3>2. Len(s) = width
      BY <1>1, <1>2, <1>7, <3>1
    <3>3. QED
      BY <1>6, <2>1, <3>2
  <2>2. CASE ~(zero /\ gap > 0)
    <3>1. z = 0
      BY <1>4, <1>8, <2>2
    <3>2. Len(s) = Len(buf) + Len(sign)
      BY <1>1, <1>2, <1>7, <3>1
    <3>3. QED
      BY <1>1, <1>2, <1>6, <3>2
  <2>3. QED
    BY <2>1, <2>2
<1>10. out = IF "left" \in flags THEN Reverse(s) \o Repeat(" ", Max({0, rest}))
             ELSE IF "zero" \in flags THEN Reverse(s)
             ELSE Repeat(" ", Max({0, rest})) \o Reverse(s)
  <2>1. s \in Seq(Byte) /\ Len(s) <= maxlen
    BY <1>7, <1>9
  <2>2. width <= maxlen \/ width <= Len(s)
    BY <1>6
  <2> HIDE DEF zero, gap
  <2>3. QED
    BY <2>1, <2>2, OutIs, Zenon
<1> HIDE DEF out
<1>11. ASSUME zero PROVE out = field
  <2>1. out = Reverse(s)
    BY <1>10, <1>11
  <2>2. field = (sign \o Repeat("0", Max({0, gap}))) \o rev
    BY <1>5, <1>11
  <2>3. z = Max({0, gap})
    BY <1>4, <1>11
  <2> HIDE DEF gap, zero
  <2>4. QED
    BY <1>7, <2>1, <2>2, <2>3
<1>12. ASSUME ~zero PROVE out = field
  <2>1. z = 0 /\ Max({0, rest}) = Max({0, gap})
    BY <1>4, <1>9, <1>12
  <2>2. Reverse(s) = sign \o rev
    BY <1>1, <1>7, <2>1, NoPadding, Own
  <2>3. Repeat(" ", Max({0, gap})) \in Seq(Byte)
    <3> HIDE DEF gap
    <3>1. QED
      BY <1>8, Own, RepeatType
  <2> DEFINE pad == Repeat(" ", Max({0, gap}))
  <2>4. (pad \o sign) \o rev = pad \o (sign \o rev)
    <3>1. pad \in Seq(Byte)
      BY <2>3
    <3> HIDE DEF pad
    <3>2. QED
      BY <1>1, <1>2, <3>1, Associative
  <2>5. out = IF "left" \in flags THEN (sign \o rev) \o pad ELSE pad \o (sign \o rev)
    BY <1>10, <1>12, <2>1, <2>2
  <2>6. field = IF "left" \in flags THEN (sign \o rev) \o pad ELSE (pad \o sign) \o rev
    BY <1>5, <1>12
  <2> DEFINE left == "left" \in flags
  <2>7. IF left THEN out = (sign \o rev) \o pad ELSE out = pad \o (sign \o rev)
    BY <2>5
  <2>8. IF left THEN field = (sign \o rev) \o pad ELSE field = (pad \o sign) \o rev
    BY <2>6
  <2> HIDE DEF pad, left
  <2>9. out = field
    BY <2>4, <2>7, <2>8
  <2>10. QED
    BY <2>9
<1> HIDE DEF zero
<1>13. out = field
  BY <1>11, <1>12
<1>14. QED
  BY <1>3, <1>13 DEF out, field, yes, sign, rev, s

\* Zeros up to a width that the array for digits has.
LEMMA PaddedIs ==
  ASSUME NEW buf \in Seq(Byte), NEW n \in Nat, n <= NtoaSize
  PROVE  LET zeros == Repeat("0", Max({0, n - Len(buf)})) IN
         /\ Padded(buf, n, "0") \in Seq(Byte)
         /\ Padded(buf, n, "0") = buf \o zeros
         /\ Reverse(Padded(buf, n, "0")) = zeros \o Reverse(buf)
<1> DEFINE gap == n - Len(buf)
           m == Max({0, gap})
           zeros == Repeat("0", m)
<1>1. Atmost(n, NtoaSize) = n
  BY PrintfSizes DEF Atmost
<1>2. Padded(buf, n, "0") = buf \o zeros
  BY <1>1 DEF Padded
<1>3. m \in Nat
  <2>1. gap \in Int
    BY LenOf
  <2> HIDE DEF gap
  <2>2. QED
    BY <2>1, AtLeastZero
<1>4. zeros \in Seq(Byte) /\ Reverse(zeros) = zeros
  <2> HIDE DEF m
  <2>1. QED
    BY <1>3, Own, RepeatType, ReverseSame
<1> HIDE DEF zeros
<1>5. buf \o zeros \in Seq(Byte) /\ Reverse(buf \o zeros) = zeros \o Reverse(buf)
  BY <1>4, Joined, ReverseJoin
<1>6. QED
  BY <1>2, <1>5 DEF zeros

\* Nothing is padded to no width.
LEMMA PaddedToNothing ==
  ASSUME NEW buf \in Seq(Byte)
  PROVE  Padded(buf, 0, "0") = buf
<1> DEFINE gap == 0 - Len(buf)
           m == Max({0, gap})
<1>1. Padded(buf, 0, "0") = buf \o Repeat("0", m)
  <2>1. 0 \in Nat /\ 0 <= NtoaSize
    BY PrintfSizes
  <2>2. QED
    BY <2>1, PaddedIs
<1>2. m = 0
  <2>1. gap \in Int /\ ~(gap > 0)
    BY LenOf
  <2> HIDE DEF gap
  <2>2. QED
    BY <2>1, AtLeastZero
<1> HIDE DEF m
<1>3. QED
  BY <1>1, <1>2, NoPadding, Own

\* The digits of an integer, with zeros up to its precision: as _ntoa_long()
\* has them, and as C writes them.
Digits(value, base, digit, prec) ==
  IF prec # NoPrec /\ value = 0 THEN <<>> ELSE Reversed(value, base, digit)

Figures(value, base, digit, prec) ==
  Padded(Digits(value, base, digit, prec), IF prec = NoPrec THEN 0 ELSE prec, "0")

CDigits(value, base, digit, prec) ==
  LET all == Reverse(Reversed(value, base, digit)) IN
  IF prec = NoPrec THEN all
  ELSE IF value = 0 THEN Repeat("0", prec)
  ELSE Repeat("0", Max({0, prec - Len(all)})) \o all

\* They are the same backwards.
LEMMA FiguresAreDigits ==
  ASSUME NEW value \in Nat, NEW base \in Bases, NEW digit \in DigitSets, NEW prec \in Prec,
         Len(CDigits(value, base, digit, prec)) <= NtoaSize
  PROVE  /\ Figures(value, base, digit, prec) \in Seq(Byte)
         /\ Reverse(Figures(value, base, digit, prec)) = CDigits(value, base, digit, prec)
         /\ prec = NoPrec => /\ Figures(value, base, digit, prec) = Digits(value, base, digit, prec)
                             /\ Figures(value, base, digit, prec) # <<>>
         /\ Digits(value, base, digit, prec) \in Seq(Byte)
<1> DEFINE R == Reversed(value, base, digit)
           D == Digits(value, base, digit, prec)
           F == Figures(value, base, digit, prec)
           C == CDigits(value, base, digit, prec)
<1>1. R \in Seq(Byte) /\ R # <<>>
  BY ReversedType, OwnText
<1>2. Reverse(R) \in Seq(Byte) /\ Len(Reverse(R)) = Len(R) /\ Len(R) \in Nat
  BY <1>1, ReverseType, LenOf
<1>3. D = IF prec # NoPrec /\ value = 0 THEN <<>> ELSE R
  BY DEF Digits
<1>4. F = Padded(D, IF prec = NoPrec THEN 0 ELSE prec, "0")
  BY DEF Figures
<1>5. C = IF prec = NoPrec THEN Reverse(R)
          ELSE IF value = 0 THEN Repeat("0", prec)
          ELSE Repeat("0", Max({0, prec - Len(Reverse(R))})) \o Reverse(R)
  BY DEF CDigits
<1>6. Len(C) <= NtoaSize
  OBVIOUS
<1> HIDE DEF R, D, F, C
<1>7. D \in Seq(Byte)
  BY <1>1, <1>3, Short
<1>8. CASE prec = NoPrec
  <2>1. D = R /\ C = Reverse(R) /\ F = Padded(D, 0, "0")
    BY <1>3, <1>4, <1>5, <1>8
  <2>2. F = D
    BY <1>7, <2>1, PaddedToNothing
  <2>3. QED
    BY <1>1, <1>7, <1>8, <2>1, <2>2 DEF C, D, F
<1>9. CASE prec # NoPrec
  <2> DEFINE gap == prec - Len(D)
             m == Max({0, gap})
             zeros == Repeat("0", m)
  <2>1. prec \in Nat /\ F = Padded(D, prec, "0")
    BY <1>4, <1>9 DEF Prec
  <2>2. Len(D) \in Nat /\ gap \in Int
    BY <1>7, <2>1, LenOf
  <2>3. m = (IF gap > 0 THEN gap ELSE 0) /\ m \in Nat
    <3> HIDE DEF gap
    <3>1. m = (IF gap > 0 THEN gap ELSE 0)
      BY <2>2, AtLeastZero
    <3>2. QED
      BY <2>2, <3>1
  <2>4. zeros \in Seq(Byte) /\ Len(zeros) = m
    <3> HIDE DEF m
    <3>1. QED
      BY <2>3, Own, RepeatType
  <2>5. C = zeros \o Reverse(D)
    <3>1. CASE value = 0
      <4>1. D = <<>> /\ C = Repeat("0", prec)
        BY <1>3, <1>5, <1>9, <3>1
      <4>2. Len(D) = 0 /\ Reverse(D) = <<>>
        BY <4>1, Short, ReverseSame, Own
      <4>3. m = prec
        BY <2>1, <2>3, <4>2
      <4>4. zeros = Repeat("0", prec)
        BY <4>3
      <4> HIDE DEF zeros
      <4>5. zeros \o <<>> = zeros
        BY <2>4, ConcatEmptySeq
      <4>6. QED
        BY <4>1, <4>2, <4>4, <4>5
    <3>2. CASE value # 0
      BY <1>2, <1>3, <1>5, <1>9, <3>2
    <3>3. QED
      BY <3>1, <3>2
  <2>6. prec <= NtoaSize
    <3>1. Reverse(D) \in Seq(Byte) /\ Len(Reverse(D)) = Len(D)
      BY <1>7, ReverseType
    <3> HIDE DEF zeros, m
    <3> DEFINE back == Reverse(D)
    <3>5. back \in Seq(Byte) /\ Len(back) = Len(D) /\ C = zeros \o back
      BY <2>5, <3>1
    <3> HIDE DEF back
    <3>6. Len(zeros \o back) = Len(zeros) + Len(back)
      BY <2>4, <3>5, Joined
    <3>2. Len(C) = m + Len(D)
      BY <2>4, <3>5, <3>6
    <3>3. NtoaSize \in Nat
      BY PrintfSizes
    <3>4. QED
      BY <1>6, <2>1, <2>2, <2>3, <3>2, <3>3
  <2>7. F \in Seq(Byte) /\ Reverse(F) = zeros \o Reverse(D)
    BY <1>7, <2>1, <2>6, PaddedIs
  <2> HIDE DEF zeros
  <2>8. QED
    BY <1>7, <1>9, <2>5, <2>7 DEF C, D, F
<1>10. QED
  BY <1>8, <1>9

\* The field of C does not care where zeros may be if they are not asked for.
LEMMA ZeroOrNot ==
  ASSUME NEW prefix, NEW digits, NEW flags, NEW width, NEW one \in BOOLEAN, NEW other \in BOOLEAN,
         "zero" \notin flags \/ one = other
  PROVE  CField(prefix, digits, flags, width, one) = CField(prefix, digits, flags, width, other)
BY DEF CField

----------------------------------------------------------------------------
(* Each conversion.                                                        *)

\* _ntoa_long() writes zeros and digits, then _ntoa_format() the rest.
LEMMA ZerosAreBody ==
  ASSUME NEW value \in Nat, NEW base \in Bases, NEW digit \in DigitSets, NEW flags,
         NEW prec \in Prec, NEW width \in Nat,
         prec # NoPrec => flags \cap {"zero", "left"} = {},
         Len(CDigits(value, base, digit, prec)) <= NtoaSize
  PROVE  Zeros(Digits(value, base, digit, prec), flags, prec, width)
           = Body(Figures(value, base, digit, prec), flags, width)
<1> DEFINE D == Digits(value, base, digit, prec)
           F == Figures(value, base, digit, prec)
<1>1. prec = NoPrec => F = D
  BY FiguresAreDigits
<1>2. F = Padded(D, IF prec = NoPrec THEN 0 ELSE prec, "0")
  BY DEF Figures
<1>3. Zeros(D, flags, prec, width) =
        IF "left" \in flags THEN D
        ELSE IF "zero" \in flags THEN Padded(F, width, "0") ELSE F
  BY <1>2 DEF Zeros
<1>4. Body(F, flags, width) =
        IF "zero" \in flags /\ "left" \notin flags THEN Padded(F, width, "0") ELSE F
  BY DEF Body
<1> HIDE DEF D, F
<1>5. "left" \in flags => prec = NoPrec
  OBVIOUS
<1>6. Zeros(D, flags, prec, width) = Body(F, flags, width)
  BY <1>1, <1>3, <1>4, <1>5
<1>7. QED
  BY <1>6 DEF D, F

\* The digits of a directive.
DigitsOfCase(upper) == IF upper THEN Upper ELSE Lower

\* Digits of C are text.
LEMMA CDigitsType ==
  ASSUME NEW value \in Nat, NEW base \in Bases, NEW digit \in DigitSets, NEW prec \in Prec
  PROVE  CDigits(value, base, digit, prec) \in Seq(Byte)
<1> DEFINE all == Reverse(Reversed(value, base, digit))
           C == CDigits(value, base, digit, prec)
<1>1. all \in Seq(Byte)
  BY ReversedType, OwnText, ReverseType
<1>2. C = IF prec = NoPrec THEN all
          ELSE IF value = 0 THEN Repeat("0", prec)
          ELSE Repeat("0", Max({0, prec - Len(all)})) \o all
  BY DEF CDigits
<1> HIDE DEF all, C
<1>3. CASE prec = NoPrec
  BY <1>1, <1>2, <1>3 DEF C
<1>4. CASE prec # NoPrec
  <2>1. prec \in Nat
    BY <1>4 DEF Prec
  <2>2. Repeat("0", prec) \in Seq(Byte)
    BY <2>1, Own, RepeatType
  <2> DEFINE gap == prec - Len(all)
             zeros == Repeat("0", Max({0, gap}))
  <2>3. gap \in Int
    BY <1>1, <2>1, LenOf
  <2>4. zeros \in Seq(Byte)
    <3> HIDE DEF gap
    <3>1. QED
      BY <2>3, Own, GapFilled
  <2>5. zeros \o all \in Seq(Byte)
    <3> HIDE DEF zeros
    <3>1. QED
      BY <1>1, <2>4, Joined
  <2>6. QED
    BY <1>2, <1>4, <2>2, <2>5 DEF C
<1>5. QED
  BY <1>3, <1>4

\* The digits _ntoa_long() has fit their array: none of them is lost.
LEMMA DigitsAreWhole ==
  ASSUME NEW value \in Nat, NEW base \in Bases, NEW digit \in DigitSets, NEW prec \in Prec,
         Len(CDigits(value, base, digit, prec)) <= NtoaSize
  PROVE  (IF prec # NoPrec /\ value = 0 THEN <<>> ELSE Upto(Reversed(value, base, digit), NtoaSize))
           = Digits(value, base, digit, prec)
<1> DEFINE R == Reversed(value, base, digit)
           D == Digits(value, base, digit, prec)
           F == Figures(value, base, digit, prec)
           C == CDigits(value, base, digit, prec)
           n == IF prec = NoPrec THEN 0 ELSE prec
<1>1. D = IF prec # NoPrec /\ value = 0 THEN <<>> ELSE R
  BY DEF Digits
<1>2. F = Padded(D, n, "0")
  BY DEF Figures
<1>3. D \in Seq(Byte) /\ F \in Seq(Byte) /\ Reverse(F) = C
  BY FiguresAreDigits
<1>4. n \in Nat
  BY DEF Prec
<1>5. Len(C) <= NtoaSize
  OBVIOUS
<1> HIDE DEF R, D, F, C, n
<1>6. Len(F) <= NtoaSize
  BY <1>3, <1>5, ReverseType
<1>7. Len(D) <= Len(F)
  <2> DEFINE gap == Atmost(n, NtoaSize) - Len(D)
             m == Max({0, gap})
             more == Repeat("0", m)
  <2>1. gap \in Int
    BY <1>3, <1>4, LenOf, PrintfSizes DEF Atmost
  <2>2. m \in Nat
    <3> HIDE DEF gap
    <3>1. QED
      BY <2>1, AtLeastZero
  <2>3. F = D \o more
    BY <1>2 DEF Padded
  <2> HIDE DEF m
  <2>4. more \in Seq(Byte) /\ Len(more) = m
    BY <2>2, Own, RepeatType
  <2> HIDE DEF more
  <2>5. Len(D \o more) = Len(D) + Len(more) /\ Len(D) \in Nat
    BY <1>3, <2>4, Joined
  <2>6. QED
    BY <2>2, <2>3, <2>4, <2>5
<1>8. Len(D) <= NtoaSize
  BY <1>3, <1>6, <1>7, LenOf, PrintfSizes
<1>9. (IF prec # NoPrec /\ value = 0 THEN <<>> ELSE Upto(R, NtoaSize)) = D
  <2>1. CASE prec # NoPrec /\ value = 0
    BY <1>1, <2>1
  <2>2. CASE ~(prec # NoPrec /\ value = 0)
    <3>1. D = R
      BY <1>1, <2>2
    <3>2. Upto(D, NtoaSize) = D
      BY <1>3, <1>8, UptoAll, PrintfSizes
    <3>3. QED
      BY <2>2, <3>1, <3>2
  <2>3. QED
    BY <2>1, <2>2
<1>10. QED
  BY <1>9 DEF R, D

\* Without a prefix they are digits and zeros.
LEMMA NtoaDigitsAre ==
  ASSUME NEW value \in Nat, NEW base \in Bases, NEW upper \in BOOLEAN, NEW flags,
         NEW prec \in Prec, NEW width \in Nat,
         "hash" \notin flags,
         prec # NoPrec => flags \cap {"zero", "left"} = {},
         Len(CDigits(value, base, DigitsOfCase(upper), prec)) <= NtoaSize
  PROVE  NtoaDigits(value, base, upper, flags, prec, width)
           = Body(Figures(value, base, DigitsOfCase(upper), prec), flags, width)
<1> DEFINE digit == DigitsOfCase(upper)
           D == Digits(value, base, digit, prec)
           all == IF prec # NoPrec /\ value = 0 THEN <<>> ELSE Upto(Reversed(value, base, digit), NtoaSize)
<1>1. digit \in DigitSets
  BY DEF DigitsOfCase, DigitSets
<1>2. all = D
  BY <1>1, DigitsAreWhole
<1>3. NtoaDigits(value, base, upper, flags, prec, width) = Zeros(all, flags, prec, width)
  BY DEF NtoaDigits, Prefixed, DigitsOfCase
<1>4. Zeros(D, flags, prec, width) = Body(Figures(value, base, digit, prec), flags, width)
  BY <1>1, ZerosAreBody
<1> HIDE DEF all, D
<1>5. QED
  BY <1>2, <1>3, <1>4

\* An integer without a prefix fits its array and the caller's, and leaves the
\* sign its place.
IntegerFits(value, neg, base, upper, flags, prec, width, maxlen) ==
  LET sign == CSign(neg, flags)
      digits == CDigits(value, base, DigitsOfCase(upper), prec)
  IN /\ "hash" \notin flags
     /\ prec # NoPrec => flags \cap {"zero", "left"} = {}
     /\ "zero" \in flags /\ "left" \notin flags => width <= NtoaSize
     /\ Len(sign) + Len(digits) <= NtoaSize
     /\ sign # <<>> => Len(digits) # width
     /\ Len(CInteger(value, sign, base, DigitsOfCase(upper), flags, prec, width)) <= maxlen

\* An integer is what C writes.
LEMMA NtoaAsC ==
  ASSUME NEW value \in Nat, NEW neg \in BOOLEAN, NEW base \in Bases, NEW upper \in BOOLEAN,
         NEW flags, NEW prec \in Prec, NEW width \in Nat, NEW maxlen \in Nat \ {0},
         IntegerFits(value, neg, base, upper, flags, prec, width, maxlen)
  PROVE  Ntoa(value, neg, base, upper, flags, prec, width, maxlen)
           = {CInteger(value, CSign(neg, flags), base, DigitsOfCase(upper), flags, prec, width)}
<1> DEFINE digit == DigitsOfCase(upper)
           sign == CSign(neg, flags)
           F == Figures(value, base, digit, prec)
           C == CDigits(value, base, digit, prec)
           yes == TRUE
           may == (prec = NoPrec)
           field == CField(sign, C, flags, width, yes)
           body == Body(F, flags, width)
<1>0. /\ "hash" \notin flags
      /\ prec # NoPrec => flags \cap {"zero", "left"} = {}
      /\ "zero" \in flags /\ "left" \notin flags => width <= NtoaSize
  BY DEF IntegerFits
<1>1. digit \in DigitSets
  BY DEF DigitsOfCase, DigitSets
<1>2. CInteger(value, sign, base, digit, flags, prec, width) = field
  <2>1. CInteger(value, sign, base, digit, flags, prec, width) = CField(sign, C, flags, width, may)
    BY DEF CInteger, CDigits
  <2>2. "zero" \notin flags \/ may = yes
    BY <1>0
  <2>3. yes \in BOOLEAN /\ may \in BOOLEAN
    OBVIOUS
  <2> HIDE DEF sign, C, yes, may
  <2>4. CField(sign, C, flags, width, may) = CField(sign, C, flags, width, yes)
    BY <2>2, <2>3, ZeroOrNot
  <2>5. QED
    BY <2>1, <2>4
<1>3. Len(field) <= maxlen
  <2>1. Len(CInteger(value, sign, base, digit, flags, prec, width)) <= maxlen
    BY DEF IntegerFits
  <2>2. QED
    BY <1>2, <2>1
<1>4. Len(sign) + Len(C) <= NtoaSize /\ (sign # <<>> => Len(C) # width)
  BY DEF IntegerFits
<1>5. Ntoa(value, neg, base, upper, flags, prec, width, maxlen)
        = LET buf == NtoaDigits(value, base, upper, flags, prec, width)
          IN IF GivesUpNone(buf, neg, flags, width) THEN [1..maxlen -> Junk]
             ELSE {Out(Signed(buf, neg, flags, width), flags, width, maxlen)}
  BY DEF Ntoa
<1>6. sign \in Seq(Byte) /\ Len(sign) \in Nat
  BY SignIs, LenOf
<1> HIDE DEF digit, sign
<1>7. Len(C) <= NtoaSize
  <2>1. C \in Seq(Byte)
    BY <1>1, CDigitsType
  <2> HIDE DEF C
  <2>2. QED
    BY <1>4, <1>6, <2>1, LenOf, PrintfSizes
<1>8. /\ F \in Seq(Byte) /\ Reverse(F) = C /\ (prec = NoPrec => F # <<>>) /\ Len(F) = Len(C)
      /\ Len(F) \in Nat
  <2>1. F \in Seq(Byte) /\ Reverse(F) = C /\ (prec = NoPrec => F # <<>>)
    BY <1>1, <1>7, FiguresAreDigits
  <2> HIDE DEF F, C
  <2>2. QED
    BY <2>1, ReverseType, LenOf
<1>9. NtoaDigits(value, base, upper, flags, prec, width) = body
  BY <1>0, <1>7, NtoaDigitsAre DEF digit
<1>10. ~GivesUpNone(body, neg, flags, width)
  <2>0. Signs(neg, flags) => sign # <<>>
    BY DEF Signs, sign, CSign
  <2> SUFFICES ASSUME Len(body) = 0, width = 0, sign # <<>>
               PROVE  FALSE
    BY <2>0 DEF GivesUpNone
  <2>1. body = F
    <3>1. Padded(F, 0, "0") = F
      BY <1>8, PaddedToNothing
    <3> HIDE DEF F
    <3>2. QED
      BY <3>1 DEF Body
  <2>2. Len(C) = 0
    BY <1>8, <2>1
  <2>3. QED
    BY <1>4, <2>2
<1> HIDE DEF F, C, body, yes
<1>11. Out(Signed(body, neg, flags, width), flags, width, maxlen) = field
  <2>1. "zero" \in flags /\ "left" \notin flags => width <= NtoaSize /\ F # <<>>
    BY <1>0, <1>8
  <2>3. Len(F) + Len(sign) <= NtoaSize
    BY <1>4, <1>6, <1>8
  <2>4. sign # <<>> => ~(Len(F) = width /\ F # <<>>)
    BY <1>4, <1>8
  <2>5. Len(NumberField(sign, Reverse(F), flags, width)) <= maxlen
    BY <1>3, <1>8 DEF yes, NumberField
  <2>6. Out(Signed(Body(F, flags, width), neg, flags, width), flags, width, maxlen)
          = NumberField(sign, Reverse(F), flags, width)
    <3>1. F \in Seq(Byte)
      BY <1>8
    <3>2. FieldFits(F, neg, flags, width, maxlen)
      BY <2>1, <2>3, <2>4, <2>5 DEF FieldFits, sign
    <3>3. maxlen \in Nat
      OBVIOUS
    <3>4. QED
      BY <3>1, <3>2, <3>3, SignedField DEF sign
  <2>7. QED
    BY <1>8, <2>6 DEF yes, body, NumberField
<1>12. QED
  BY <1>2, <1>5, <1>9, <1>10, <1>11 DEF digit, sign

\* The digits of a float and its point, as _ftoa() has them and as C writes them.
PrecOf(given) == IF given = NoPrec THEN 6 ELSE given

FloatFigures(x, given) ==
  LET prec == PrecOf(given)
      r == Rounded(x.whole, x.eighths, prec)
  IN (IF prec = 0 THEN <<>> ELSE Append(Padded(Reversed(r.frac, 10, Lower), prec, "0"), "."))
       \o Reversed(r.whole, 10, Lower)

CFloatDigits(x, given) ==
  LET prec == PrecOf(given)
      n == (8 * x.whole + x.eighths) * Pow10(prec)
      q == n \div 8
      up == n % 8 > 4 \/ (n % 8 = 4 /\ q % 2 = 1)
      r == IF up THEN q + 1 ELSE q
      whole == Reverse(Reversed(r \div Pow10(prec), 10, Lower))
      frac == Reverse(Padded(Reversed(r % Pow10(prec), 10, Lower), prec, "0"))
  IN IF prec = 0 THEN whole ELSE whole \o <<".">> \o frac

\* They are the same backwards.
LEMMA FloatFiguresAreDigits ==
  ASSUME NEW x \in Float, NEW given \in Prec
  PROVE  /\ FloatFigures(x, given) \in Seq(Byte) /\ FloatFigures(x, given) # <<>>
         /\ Reverse(FloatFigures(x, given)) = CFloatDigits(x, given)
<1> DEFINE prec == PrecOf(given)
           P == Pow10(prec)
           n == (8 * x.whole + x.eighths) * P
           q == n \div 8
           up == n % 8 > 4 \/ (n % 8 = 4 /\ q % 2 = 1)
           r == IF up THEN q + 1 ELSE q
           R == Rounded(x.whole, x.eighths, prec)
           W == Reversed(R.whole, 10, Lower)
           F == Padded(Reversed(R.frac, 10, Lower), prec, "0")
           figs == IF prec = 0 THEN <<>> ELSE Append(F, ".")
           whole == Reverse(Reversed(r \div P, 10, Lower))
           frac == Reverse(Padded(Reversed(r % P, 10, Lower), prec, "0"))
           C == IF prec = 0 THEN whole ELSE whole \o <<".">> \o frac
           all == figs \o W
<1>1. prec \in Nat
  BY DEF PrecOf, Prec
<1>2. CFloatDigits(x, given) = C /\ FloatFigures(x, given) = all
  BY DEF CFloatDigits, FloatFigures
<1> HIDE DEF prec
<1>3. x.whole \in Nat /\ x.eighths \in 0..7
  BY DEF Float
<1>4. R.whole = r \div P /\ (prec # 0 => R.frac = r % P)
  BY <1>1, <1>3, RoundsAsC
<1>5. R.whole \in Nat /\ R.frac \in Nat
  BY <1>1, <1>3, RoundedType
<1>6. whole = Reverse(W) /\ (prec # 0 => frac = Reverse(F))
  BY <1>4
<1> HIDE DEF R, whole, frac
<1>7. 10 \in Bases /\ Lower \in DigitSets
  BY DEF Bases, DigitSets
<1>8. W \in Seq(Byte) /\ W # <<>>
  BY <1>5, <1>7, ReversedType, OwnText
<1>9. F \in Seq(Byte)
  <2>1. Reversed(R.frac, 10, Lower) \in Seq(Byte)
    BY <1>5, <1>7, ReversedType, OwnText
  <2>2. QED
    BY <1>1, <2>1, Own, PaddedType
<1> HIDE DEF W, F
<1>10. <<".">> \in Seq(Byte) /\ Reverse(<<".">>) = <<".">>
  BY Own, Short, ReverseSame
<1>11. all \in Seq(Byte) /\ all # <<>> /\ Reverse(all) = C
  <2>1. Len(W) \in Nat /\ Len(W) # 0
    BY <1>8, LenOf, EmptySeq
  <2>2. CASE prec = 0
    <3>1. all = W
      BY <1>8, <2>2, ConcatEmptySeq
    <3>2. QED
      BY <1>6, <1>8, <2>2, <3>1
  <2>3. CASE prec # 0
    <3> DEFINE point == <<".">>
               tail == F \o point
    <3>1. figs = tail
      BY <1>9, <2>3, Own, AppendIsConcat
    <3>2. point \in Seq(Byte) /\ Reverse(point) = point
      BY <1>10
    <3>3. C = (Reverse(W) \o point) \o Reverse(F)
      BY <1>6, <2>3
    <3> HIDE DEF point, figs
    <3>4. tail \in Seq(Byte) /\ Reverse(tail) = point \o Reverse(F) /\ Len(tail) \in Nat
      BY <1>9, <3>2, Joined, ReverseJoin, LenOf
    <3> HIDE DEF tail, C
    <3>5. all \in Seq(Byte) /\ Reverse(all) = Reverse(W) \o (point \o Reverse(F))
          /\ Len(all) = Len(tail) + Len(W)
      BY <1>8, <3>1, <3>4, Joined, ReverseJoin
    <3>6. Reverse(W) \in Seq(Byte) /\ Reverse(F) \in Seq(Byte)
      BY <1>8, <1>9, ReverseType
    <3>7. Reverse(all) = C
      BY <3>2, <3>3, <3>5, <3>6, Associative
    <3> HIDE DEF all
    <3>8. Len(all) # 0
      BY <2>1, <3>4, <3>5
    <3>9. all # <<>>
      BY <3>5, <3>8, EmptySeq
    <3>10. QED
      BY <3>5, <3>7, <3>9
  <2>4. QED
    BY <2>2, <2>3
<1>12. QED
  BY <1>2, <1>11

\* The float whose sign _ftoa() does not see.
NegativeZero(x) == x.negative /\ x.whole = 0 /\ x.eighths = 0

\* A float is what C writes.
LEMMA FtoaAsC ==
  ASSUME NEW x \in Float, NEW flags, NEW given \in 0..9 \cup {NoPrec}, NEW width \in Nat,
         NEW maxlen \in Nat,
         x.whole < Threshold, ~NegativeZero(x),
         "zero" \in flags /\ "left" \notin flags => width <= NtoaSize,
         Len(CSign(x.negative, flags)) + Len(CFloatDigits(x, given)) <= NtoaSize,
         CSign(x.negative, flags) # <<>> => Len(CFloatDigits(x, given)) # width,
         Len(CFloat(x, flags, given, width)) <= maxlen
  PROVE  Ftoa(x, flags, given, width, maxlen) = CFloat(x, flags, given, width)
<1> DEFINE neg == x.negative
           sign == CSign(neg, flags)
           F == FloatFigures(x, given)
           C == CFloatDigits(x, given)
           field == CField(sign, C, flags, width, TRUE)
           buf == Upto(F, NtoaSize)
           body == Body(buf, flags, width)
<1>1. given \in Prec /\ (given # NoPrec => Atmost(given, 9) = given)
  BY DEF Prec, Atmost
<1>2. neg \in BOOLEAN /\ x.whole \in Nat /\ x.eighths \in 0..7
  BY DEF Float
<1>3. CFloat(x, flags, given, width) = field
  BY DEF CFloat, CFloatDigits, PrecOf
<1>4. Ftoa(x, flags, given, width, maxlen) = Out(Signed(body, neg, flags, width), flags, width, maxlen)
  <2>1. ~(x.whole > Threshold \/ (x.whole = Threshold /\ x.eighths > 0))
    BY <1>2, PrintfSizes
  <2>2. (IF given = NoPrec THEN 6 ELSE Atmost(given, 9)) = PrecOf(given)
    BY <1>1 DEF PrecOf
  <2> DEFINE below == x.negative /\ (x.whole > 0 \/ x.eighths > 0)
  <2>3. Ftoa(x, flags, given, width, maxlen)
          = Out(Signed(body, below, flags, width), flags, width, maxlen)
    BY <2>1, <2>2 DEF Ftoa, FloatFigures, Body
  <2>4. below = neg
    BY <1>2 DEF NegativeZero
  <2> HIDE DEF below, neg, body
  <2>5. QED
    BY <2>3, <2>4
<1>5. F \in Seq(Byte) /\ F # <<>> /\ Reverse(F) = C
  BY <1>1, FloatFiguresAreDigits
<1>6. /\ Len(sign) + Len(C) <= NtoaSize
      /\ sign # <<>> => Len(C) # width
  OBVIOUS
<1>7. Len(field) <= maxlen
  BY <1>3
<1>8. sign \in Seq(Byte) /\ Len(sign) \in Nat
  BY <1>2, SignIs, LenOf
<1> HIDE DEF neg, F, C
<1>9. Len(F) = Len(C) /\ Len(F) \in Nat /\ Len(F) # 0
  BY <1>5, ReverseType, LenOf, EmptySeq
<1> HIDE DEF sign, field
<1>10. buf = F
  <2>1. NtoaSize \in Nat /\ Len(F) <= NtoaSize
    BY <1>6, <1>8, <1>9, PrintfSizes
  <2>2. QED
    BY <1>5, <2>1, UptoAll
<1>11. Out(Signed(Body(F, flags, width), neg, flags, width), flags, width, maxlen) = field
  <2>1. "zero" \in flags /\ "left" \notin flags => width <= NtoaSize /\ F # <<>>
    BY <1>5
  <2>2. Len(F) + Len(sign) <= NtoaSize
    BY <1>6, <1>8, <1>9
  <2>3. sign # <<>> => ~(Len(F) = width /\ F # <<>>)
    BY <1>6, <1>9
  <2>4. field = NumberField(sign, Reverse(F), flags, width)
    BY <1>5 DEF field, NumberField
  <2>5. Len(NumberField(sign, Reverse(F), flags, width)) <= maxlen
    BY <1>7, <2>4
  <2>6. Out(Signed(Body(F, flags, width), neg, flags, width), flags, width, maxlen)
          = NumberField(sign, Reverse(F), flags, width)
    <3>1. FieldFits(F, neg, flags, width, maxlen)
      BY <2>1, <2>2, <2>3, <2>5 DEF FieldFits, sign
    <3>2. QED
      BY <1>2, <1>5, <3>1, SignedField DEF sign
  <2>7. QED
    BY <2>4, <2>6
<1>12. QED
  BY <1>3, <1>4, <1>10, <1>11

\* A field without a width is what is in it.
LEMMA NoWidth ==
  ASSUME NEW digits \in Seq(Byte), NEW mayZero
  PROVE  CField(<<>>, digits, {}, 0, mayZero) = digits
<1> DEFINE gap == 0 - Len(<<>>) - Len(digits)
           m == Max({0, gap})
<1>1. CField(<<>>, digits, {}, 0, mayZero) = (Repeat(" ", m) \o <<>>) \o digits
  BY DEF CField
<1>2. Len(<<>>) = 0 /\ Len(digits) \in Nat
  BY LenOf
<1>3. gap \in Int /\ ~(gap > 0)
  BY <1>2
<1>4. m = 0
  <2> HIDE DEF gap
  <2>1. QED
    BY <1>3, AtLeastZero
<1> HIDE DEF m
<1>5. Repeat(" ", m) = <<>>
  BY <1>4, ReverseSame, Own
<1>6. <<>> \o <<>> = <<>> /\ <<>> \o digits = digits
  BY ConcatEmptySeq, Short
<1>7. QED
  BY <1>1, <1>5, <1>6

\* An integer of C is a field of its digits.
LEMMA CIntegerIs ==
  ASSUME NEW value, NEW prefix, NEW base, NEW digit, NEW flags, NEW prec, NEW width
  PROVE  CInteger(value, prefix, base, digit, flags, prec, width)
           = CField(prefix, CDigits(value, base, digit, prec), flags, width, prec = NoPrec)
BY DEF CInteger, CDigits

\* Without flags and width an integer has as many digits as C writes.
LEMMA NtoaPlain ==
  ASSUME NEW value \in Nat, NEW base \in Bases, NEW upper \in BOOLEAN, NEW prec \in Prec,
         Len(CDigits(value, base, DigitsOfCase(upper), prec)) <= NtoaSize
  PROVE  Len(NtoaDigits(value, base, upper, {}, prec, 0))
           = Len(CDigits(value, base, DigitsOfCase(upper), prec))
<1> DEFINE digit == DigitsOfCase(upper)
           C == CDigits(value, base, digit, prec)
           F == Figures(value, base, digit, prec)
           none == {}
<1>1. digit \in DigitSets
  BY DEF DigitsOfCase, DigitSets
<1>2. F \in Seq(Byte) /\ Reverse(F) = C
  BY <1>1, FiguresAreDigits
<1>3. "hash" \notin none /\ none \cap {"zero", "left"} = {} /\ 0 \in Nat
  OBVIOUS
<1>4. Body(F, none, 0) = F
  BY DEF Body
<1> HIDE DEF none
<1>5. NtoaDigits(value, base, upper, none, prec, 0) = Body(F, none, 0)
  BY <1>3, NtoaDigitsAre DEF digit
<1> HIDE DEF F, C
<1>6. Len(F) = Len(C)
  BY <1>2, ReverseType
<1>7. QED
  BY <1>4, <1>5, <1>6 DEF C, none

\* What a sign must leave room for.
PlainInteger(value, base, upper, prec) == NtoaDigits(value, base, upper, {}, prec, 0)

\* An integer is what C writes, unless it fills its width without its sign.
LEMMA IntegerAsC ==
  ASSUME NEW value \in Nat, NEW neg \in BOOLEAN, NEW base \in Bases, NEW upper \in BOOLEAN,
         NEW flags, NEW prec \in Prec, NEW width \in Nat, NEW maxlen \in Nat \ {0},
         "hash" \notin flags,
         prec # NoPrec => flags \cap {"zero", "left"} = {},
         "zero" \in flags /\ "left" \notin flags => width <= NtoaSize,
         Len(CInteger(value, CSign(neg, flags), base, DigitsOfCase(upper), flags, prec, 0)) <= NtoaSize,
         CSign(neg, flags) # <<>> => Len(PlainInteger(value, base, upper, prec)) # width,
         Len(CInteger(value, CSign(neg, flags), base, DigitsOfCase(upper), flags, prec, width)) <= maxlen
  PROVE  Ntoa(value, neg, base, upper, flags, prec, width, maxlen)
           = {CInteger(value, CSign(neg, flags), base, DigitsOfCase(upper), flags, prec, width)}
<1> DEFINE digit == DigitsOfCase(upper)
           C == CDigits(value, base, digit, prec)
           may == (prec = NoPrec)
           sign == CSign(neg, flags)
           N == PlainInteger(value, base, upper, prec)
<1>1. digit \in DigitSets
  BY DEF DigitsOfCase, DigitSets
<1>2. C \in Seq(Byte) /\ Len(C) \in Nat
  <2>1. C \in Seq(Byte)
    BY <1>1, CDigitsType
  <2> HIDE DEF C
  <2>2. QED
    BY <2>1, LenOf
<1>3. sign \in Seq(Byte) /\ Len(sign) \in Nat
  BY SignIs, LenOf
<1>4. CInteger(value, sign, base, digit, flags, prec, 0) = CField(sign, C, flags, 0, may)
  BY CIntegerIs
<1>5. Len(sign) + Len(C) <= NtoaSize
  <2>1. Len(CField(sign, C, flags, 0, may)) <= NtoaSize
    BY <1>4
  <2> HIDE DEF sign, C, may
  <2>2. 0 \in Nat
    OBVIOUS
  <2>3. Len(CField(sign, C, flags, 0, may))
          = IF 0 > Len(sign) + Len(C) THEN 0 ELSE Len(sign) + Len(C)
    BY <1>2, <1>3, <2>2, CFieldLength
  <2>4. QED
    BY <1>2, <1>3, <2>1, <2>3
<1>6. sign # <<>> => Len(N) # width
  OBVIOUS
<1>7. Len(N) = Len(C)
  <2>1. Len(C) <= NtoaSize
    <3> HIDE DEF C, sign
    <3>1. QED
      BY <1>2, <1>3, <1>5, PrintfSizes
  <2>2. QED
    BY <2>1, NtoaPlain DEF PlainInteger
<1>8. sign # <<>> => Len(C) # width
  <2> HIDE DEF C, N, sign
  <2>1. QED
    BY <1>6, <1>7
<1>9. IntegerFits(value, neg, base, upper, flags, prec, width, maxlen)
  BY <1>5, <1>8 DEF IntegerFits
<1>10. QED
  BY <1>9, NtoaAsC

\* Digits of a float without flags and width.
LEMMA FtoaPlain ==
  ASSUME NEW x \in Float, NEW given \in 0..9 \cup {NoPrec}, x.whole < Threshold,
         Len(CFloatDigits(x, given)) <= NtoaSize
  PROVE  Ftoa([x EXCEPT !.negative = FALSE], {}, given, 0, NtoaSize) = CFloatDigits(x, given)
<1> DEFINE y == [x EXCEPT !.negative = FALSE]
           C == CFloatDigits(x, given)
           none == {}
           sign == CSign(y.negative, none)
<1>1. /\ y \in Float /\ y.whole = x.whole /\ y.eighths = x.eighths /\ y.negative = FALSE
      /\ given \in Prec
  <2>1. given \in Prec
    BY DEF Prec
  <2>2. y \in Float /\ y.whole = x.whole /\ y.eighths = x.eighths /\ y.negative = FALSE
    BY DEF Float
  <2>3. QED
    BY <2>1, <2>2
<1>2. C \in Seq(Byte)
  <2>1. FloatFigures(x, given) \in Seq(Byte) /\ Reverse(FloatFigures(x, given)) = C
    BY <1>1, FloatFiguresAreDigits
  <2> HIDE DEF C
  <2>2. QED
    BY <2>1, ReverseType
<1>3. CFloatDigits(y, given) = C
  BY <1>1 DEF CFloatDigits
<1>4. sign = <<>>
  BY <1>1 DEF CSign
<1>5. CFloat(y, none, given, 0) = CField(sign, CFloatDigits(y, given), none, 0, TRUE)
  BY DEF CFloat, CFloatDigits, PrecOf
<1>6. Len(C) <= NtoaSize
  OBVIOUS
<1> HIDE DEF C, y
<1>7. CFloat(y, none, given, 0) = C
  <2> DEFINE yes == TRUE
  <2>1. CField(<<>>, C, {}, 0, yes) = C
    <3> HIDE DEF yes
    <3>1. QED
      BY <1>2, NoWidth
  <2>2. QED
    BY <1>3, <1>4, <1>5, <2>1
<1> HIDE DEF sign
<1>8. Len(sign) = 0
  BY <1>4
<1>9. Len(sign) + Len(CFloatDigits(y, given)) <= NtoaSize
  <2>1. Len(C) \in Nat
    BY <1>2, LenOf
  <2>2. QED
    BY <1>3, <1>6, <1>8, <2>1
<1>10. Len(CFloat(y, none, given, 0)) <= NtoaSize
  BY <1>6, <1>7
<1>11. Ftoa(y, none, given, 0, NtoaSize) = CFloat(y, none, given, 0)
  <2>1. /\ 0 \in Nat /\ NtoaSize \in Nat /\ y.whole < Threshold
        /\ "zero" \notin none /\ ~NegativeZero(y)
    BY <1>1, PrintfSizes DEF NegativeZero
  <2> HIDE DEF none
  <2>2. QED
    BY <1>1, <1>4, <1>9, <1>10, <2>1, FtoaAsC DEF sign
<1>12. QED
  BY <1>7, <1>11 DEF y, C

\* What a sign must leave room for.
PlainFloat(x, given) == Ftoa([x EXCEPT !.negative = FALSE], {}, given, 0, NtoaSize)

\* A float below the threshold fits its array and the caller's, and leaves the
\* sign its place.
FloatFits(x, flags, given, width, maxlen) ==
  /\ x.whole < Threshold /\ ~NegativeZero(x)
  /\ "zero" \in flags /\ "left" \notin flags => width <= NtoaSize
  /\ Len(CFloat(x, flags, given, 0)) <= NtoaSize
  /\ CSign(x.negative, flags) # <<>> => Len(PlainFloat(x, given)) # width
  /\ Len(CFloat(x, flags, given, width)) <= maxlen

\* A float is what C writes, unless it fills its width without its sign.
LEMMA FloatAsC ==
  ASSUME NEW x \in Float, NEW flags, NEW given \in 0..9 \cup {NoPrec}, NEW width \in Nat,
         NEW maxlen \in Nat,
         FloatFits(x, flags, given, width, maxlen)
  PROVE  Ftoa(x, flags, given, width, maxlen) = CFloat(x, flags, given, width)
<1> SUFFICES
      ASSUME x.whole < Threshold, ~NegativeZero(x),
             "zero" \in flags /\ "left" \notin flags => width <= NtoaSize,
             Len(CFloat(x, flags, given, 0)) <= NtoaSize,
             CSign(x.negative, flags) # <<>> => Len(PlainFloat(x, given)) # width,
             Len(CFloat(x, flags, given, width)) <= maxlen
      PROVE  Ftoa(x, flags, given, width, maxlen) = CFloat(x, flags, given, width)
  BY DEF FloatFits
<1> DEFINE C == CFloatDigits(x, given)
           yes == TRUE
           sign == CSign(x.negative, flags)
           N == PlainFloat(x, given)
<1>1. given \in Prec /\ x.negative \in BOOLEAN
  BY DEF Float, Prec
<1>2. C \in Seq(Byte) /\ Len(C) \in Nat
  <2>1. FloatFigures(x, given) \in Seq(Byte) /\ Reverse(FloatFigures(x, given)) = C
    BY <1>1, FloatFiguresAreDigits
  <2> HIDE DEF C
  <2>2. QED
    BY <2>1, ReverseType, LenOf
<1>3. sign \in Seq(Byte) /\ Len(sign) \in Nat
  <2> DEFINE neg == x.negative
  <2>1. neg \in BOOLEAN
    BY <1>1
  <2> HIDE DEF neg
  <2>2. CSign(neg, flags) \in Seq(Byte) /\ Len(CSign(neg, flags)) \in Nat
    BY <2>1, SignIs, LenOf
  <2>3. QED
    BY <2>2 DEF neg
<1>4. CFloat(x, flags, given, 0) = CField(sign, C, flags, 0, yes)
  BY DEF CFloat, CFloatDigits, PrecOf
<1>5. Len(sign) + Len(C) <= NtoaSize
  <2>1. Len(CField(sign, C, flags, 0, yes)) <= NtoaSize
    BY <1>4
  <2> HIDE DEF sign, C, yes
  <2>2. 0 \in Nat
    OBVIOUS
  <2>3. Len(CField(sign, C, flags, 0, yes))
          = IF 0 > Len(sign) + Len(C) THEN 0 ELSE Len(sign) + Len(C)
    BY <1>2, <1>3, <2>2, CFieldLength
  <2>4. QED
    BY <1>2, <1>3, <2>1, <2>3
<1>6. sign # <<>> => Len(N) # width
  OBVIOUS
<1>7. N = C
  <2>1. Len(C) <= NtoaSize
    <3> HIDE DEF C, sign
    <3>1. QED
      BY <1>2, <1>3, <1>5, PrintfSizes
  <2>2. QED
    BY <2>1, FtoaPlain DEF PlainFloat
<1>8. sign # <<>> => Len(C) # width
  <2> HIDE DEF C, N, sign
  <2>1. QED
    BY <1>6, <1>7
<1>9. QED
  BY <1>5, <1>8, FtoaAsC

\* A field that is no number.
PlainField(s, flags, width) == CField(<<>>, s, flags, width, FALSE)

\* It is the text and its padding.
IsPadded(B, s, flags, width) ==
  LET pad == Repeat(" ", Max({0, width - Len(s)}))
      field == PlainField(s, flags, width)
  IN /\ pad \in Seq(B) /\ Len(field) = Len(pad) + Len(s)
     /\ field = IF "left" \in flags THEN s \o pad ELSE pad \o s
     /\ field \in Seq(B)

LEMMA TextField ==
  ASSUME NEW B, OwnBytes \subseteq B, NEW s \in Seq(B), NEW flags, NEW width \in Nat
  PROVE  IsPadded(B, s, flags, width)
<1> DEFINE gap == width - Len(<<>>) - Len(s)
           less == width - Len(s)
           pad == Repeat(" ", Max({0, less}))
           field == PlainField(s, flags, width)
<1>1. Len(<<>>) = 0 /\ Len(s) \in Nat
  BY LenOf
<1>2. gap = less /\ less \in Int
  BY <1>1
<1>3. Repeat(" ", Max({0, gap})) = pad
  BY <1>2
<1>4. pad \in Seq(B)
  <2> HIDE DEF less
  <2>1. " " \in B
    BY OwnOnes
  <2>2. QED
    BY <1>2, <2>1, GapFilled
<1>5. field = IF "left" \in flags THEN (<<>> \o s) \o pad ELSE (pad \o <<>>) \o s
  BY <1>3 DEF PlainField, CField
<1> HIDE DEF pad, field
<1>6. <<>> \o s = s /\ pad \o <<>> = pad
  BY <1>4, ConcatEmptySeq
<1>7. /\ s \o pad \in Seq(B) /\ Len(s \o pad) = Len(s) + Len(pad)
      /\ pad \o s \in Seq(B) /\ Len(pad \o s) = Len(pad) + Len(s)
  BY <1>4, Joined
<1>8. Len(pad) \in Nat /\ Len(s) + Len(pad) = Len(pad) + Len(s)
  BY <1>1, <1>4, LenOf
<1>9. /\ field = IF "left" \in flags THEN s \o pad ELSE pad \o s
      /\ field \in Seq(B) /\ Len(field) = Len(pad) + Len(s)
  BY <1>5, <1>6, <1>7, <1>8
<1>10. QED
  BY <1>4, <1>9 DEF IsPadded, pad, field

\* As much of a text as the precision allows.
Taken(s, prec) == IF prec = NoPrec THEN s ELSE Upto(s, prec)

\* Text is what C writes.
LEMMA StrAsC ==
  ASSUME NEW s \in Seq(Byte), NEW flags, NEW prec \in Prec, NEW width \in Nat, NEW maxlen \in Nat,
         Len(PlainField(Taken(s, prec), flags, width)) <= maxlen
  PROVE  Str(s, flags, prec, width, maxlen)
           = PlainField(Taken(s, prec), flags, width)
<1> DEFINE taken == Taken(s, prec)
           field == PlainField(taken, flags, width)
           pad == Repeat(" ", Max({0, width - Len(taken)}))
<1>1. Upto(s, Len(s)) = s
  BY UptoAll, LenOf
<1>2. Upto(s, IF prec = NoPrec THEN Len(s) ELSE prec) = taken
  BY <1>1 DEF Taken
<1>3. taken \in Seq(Byte)
  <2>1. prec # NoPrec => prec \in Nat
    BY DEF Prec
  <2>2. QED
    BY <2>1, UptoType DEF Taken
<1>4. Str(s, flags, prec, width, maxlen)
        = Upto(IF "left" \in flags THEN taken \o pad ELSE pad \o taken, maxlen)
  BY <1>2 DEF Str
<1>5. Len(field) <= maxlen
  OBVIOUS
<1> HIDE DEF taken
<1>6. field \in Seq(Byte) /\ field = IF "left" \in flags THEN taken \o pad ELSE pad \o taken
  <2>1. IsPadded(Byte, taken, flags, width)
    BY <1>3, BytesOfText, TextField
  <2>2. QED
    BY <2>1 DEF IsPadded
<1> HIDE DEF field, pad
<1>7. Upto(field, maxlen) = field
  BY <1>5, <1>6, UptoAll
<1>8. QED
  BY <1>4, <1>6, <1>7 DEF field, taken

\* A character is what C writes.
LEMMA CharAsC ==
  ASSUME NEW byte \in ArrayByte, NEW flags, NEW width \in Nat, NEW maxlen \in Nat \ {0},
         Len(PlainField(<<byte>>, flags, width)) <= maxlen
  PROVE  Char(byte, flags, width, maxlen) = PlainField(<<byte>>, flags, width)
<1> DEFINE w == Max({0, width - 1})
           m == Max({0, maxlen - 1})
           pad == Repeat(" ", w)
           s == <<byte>>
           field == PlainField(s, flags, width)
<1>1. /\ s \in Seq(ArrayByte) /\ Len(s) = 1 /\ OwnBytes \subseteq ArrayByte
  BY BytesOfText DEF ArrayByte
<1>2. /\ pad \in Seq(ArrayByte) /\ Len(field) = Len(pad) + 1
      /\ field = IF "left" \in flags THEN s \o pad ELSE pad \o s
  <2> DEFINE gap == Repeat(" ", Max({0, width - Len(s)}))
  <2>1. pad = gap
    BY <1>1
  <2> HIDE DEF s, pad
  <2>2. /\ gap \in Seq(ArrayByte) /\ Len(field) = Len(gap) + Len(s)
        /\ field = IF "left" \in flags THEN s \o gap ELSE gap \o s
    <3>1. IsPadded(ArrayByte, s, flags, width)
      BY <1>1, TextField
    <3>2. QED
      BY <3>1 DEF IsPadded
  <2> HIDE DEF gap, field
  <2>3. QED
    BY <1>1, <2>1, <2>2
<1>3. maxlen - 1 \in Int /\ (maxlen - 1 > 0 => m = maxlen - 1) /\ (~(maxlen - 1 > 0) => m = 0)
  BY AtLeastZero
<1>4. m = maxlen - 1
  BY <1>3
<1>5. Len(field) <= maxlen
  OBVIOUS
<1> HIDE DEF field, pad, m
<1>6. Len(pad) <= m /\ Len(pad) <= maxlen /\ m \in Nat
  <2>1. Len(pad) \in Nat
    BY <1>2, LenOf
  <2>2. QED
    BY <1>2, <1>4, <1>5, <2>1
<1>7. Upto(pad, m) = pad /\ Upto(pad, maxlen) = pad
  BY <1>2, <1>6, UptoAll
<1>8. Append(pad, byte) = pad \o s
  BY <1>2, AppendIsConcat
<1>9. Char(byte, flags, width, maxlen)
        = IF "left" \in flags THEN s \o Upto(pad, m) ELSE Append(Upto(pad, maxlen), byte)
  BY DEF Char, pad, m
<1> HIDE DEF s
<1>10. Char(byte, flags, width, maxlen) = field
  BY <1>2, <1>7, <1>8, <1>9
<1>11. QED
  BY <1>10 DEF s, field

----------------------------------------------------------------------------
(* Every directive.                                                        *)

\* A directive without its width.
LEMMA BareDirective ==
  ASSUME NEW d, IsDirective(d)
  PROVE  LET bare == Directive(d.spec, d.flags, 0, d.prec, d.arg) IN
         /\ bare.spec = d.spec /\ bare.width = 0 /\ bare.prec = d.prec /\ bare.arg = d.arg
         /\ FlagsOf(bare) = FlagsOf(d)
<1> DEFINE bare == Directive(d.spec, d.flags, 0, d.prec, d.arg)
<1>1. bare = [spec |-> d.spec, flags |-> d.flags, width |-> 0, prec |-> d.prec, arg |-> d.arg]
  BY DEF Directive
<1> HIDE DEF bare
<1>2. bare.spec = d.spec /\ bare.width = 0 /\ bare.prec = d.prec /\ bare.arg = d.arg
      /\ bare.flags = d.flags
  BY <1>1
<1>3. FlagsOf(bare) = FlagsOf(d)
  BY <1>2 DEF FlagsOf
<1>4. QED
  BY <1>2, <1>3 DEF bare

\* What fits, and is no exception, is what C writes.
LEMMA WrittenAsC ==
  ASSUME NEW d, IsDirective(d), ~Differs(d), NumberFits(d), NEW maxlen \in Nat \ {0},
         Len(CWritten(d)) <= maxlen
  PROVE  Written(d, maxlen) = {CWritten(d)}
<1> DEFINE flags == FlagsOf(d)
           bare == Directive(d.spec, d.flags, 0, d.prec, d.arg)
           no == FALSE
           yes == TRUE
           Numbers == {"d", "u", "x", "X", "o", "b", "f"}
           Integers == {"d", "u", "x", "X", "o", "b"}
<1>1. /\ d.width \in Nat /\ 10 \in Bases /\ 16 \in Bases /\ 8 \in Bases /\ 2 \in Bases
      /\ no \in BOOLEAN /\ yes \in BOOLEAN
      /\ d.spec \in {"d", "u", "x", "X", "o", "b", "f", "s", "c", "%"}
  BY DEF IsDirective, Differs, Bases, Unsigned
<1>2. /\ bare.spec = d.spec /\ bare.width = 0 /\ bare.prec = d.prec /\ bare.arg = d.arg
      /\ FlagsOf(bare) = flags
  BY BareDirective
<1>3. d.spec \in Numbers =>
        /\ "zero" \in flags /\ "left" \notin flags => d.width <= NtoaSize
        /\ Len(CWritten(bare)) <= NtoaSize
  <2>1. flags \subseteq d.flags /\ ("left" \in d.flags => "left" \in flags)
    BY DEF FlagsOf, IsDirective
  <2>2. QED
    BY <2>1 DEF NumberFits, Unsigned
<1>4. d.spec \in Integers =>
        "hash" \notin flags /\ (d.prec # NoPrec => flags \cap {"zero", "left"} = {})
  BY DEF Differs, Unsigned, FlagsOf
<1>5. DigitsOfCase(no) = Lower /\ DigitsOfCase(yes) = Upper
  BY DEF DigitsOfCase
<1>6. Len(CWritten(d)) <= maxlen
  OBVIOUS
<1>7. d.spec \in Numbers =>
        /\ d.prec \in Prec /\ Precision(d.prec) = d.prec
        /\ (IF d.prec # NoPrec /\ d.prec < 0 THEN NoPrec ELSE d.prec) = d.prec
  <2>1. d.prec = NoPrec \/ d.prec \in Int
    BY DEF IsDirective
  <2>2. d.spec \in Integers => d.prec = NoPrec \/ ~(d.prec < 0)
    BY DEF Differs, Unsigned
  <2>3. d.spec = "f" => d.prec = NoPrec \/ d.prec \in Nat
    BY DEF Differs
  <2>4. d.spec \in Numbers => d.prec = NoPrec \/ d.prec \in Nat
    BY <2>1, <2>2, <2>3
  <2>5. QED
    BY <2>4, PrecisionType
<1> HIDE DEF bare
<1>8. CASE d.spec = "d"
  <2> DEFINE n == IF d.arg < 0 THEN -d.arg ELSE d.arg
             neg == d.arg < 0
             number == PlainInteger(n, 10, no, d.prec)
  <2>1. d.arg \in Int /\ d.prec \in Prec
    BY <1>7, <1>8 DEF IsDirective
  <2>2. n \in Nat /\ neg \in BOOLEAN
    BY <2>1
  <2>3. Max({d.arg, -d.arg}) = n
    BY <2>1, GreaterIs
  <2>4. CSign(neg, flags) # <<>> => Len(number) # d.width
    <3>1. CSign(neg, flags) # <<>> => flags \cap {"plus", "space"} # {} \/ d.arg < 0
      BY DEF CSign
    <3>2. ~(flags \cap {"plus", "space"} # {} \/ d.arg < 0) \/ ~FillsWidth(d, Len(number))
      BY <1>8, <2>3 DEF Differs, PlainInteger
    <3>3. QED
      BY <3>1, <3>2 DEF FillsWidth
  <2>5. /\ CWritten(d) = CInteger(n, CSign(neg, flags), 10, Lower, flags, d.prec, d.width)
        /\ Written(d, maxlen) = Ntoa(n, neg, 10, no, flags, d.prec, d.width, maxlen)
    BY <1>7, <1>8 DEF CWritten, Written
  <2>6. CWritten(bare) = CInteger(n, CSign(neg, flags), 10, Lower, flags, d.prec, 0)
    BY <1>2, <1>7, <1>8 DEF CWritten
  <2> HIDE DEF n, neg, flags, no, yes
  <2>7. /\ Len(CInteger(n, CSign(neg, flags), 10, DigitsOfCase(no), flags, d.prec, 0)) <= NtoaSize
        /\ Len(CInteger(n, CSign(neg, flags), 10, DigitsOfCase(no), flags, d.prec, d.width)) <= maxlen
    BY <1>3, <1>5, <1>6, <1>8, <2>5, <2>6
  <2> HIDE DEF number
  <2>8. Ntoa(n, neg, 10, no, flags, d.prec, d.width, maxlen)
          = {CInteger(n, CSign(neg, flags), 10, DigitsOfCase(no), flags, d.prec, d.width)}
    BY <1>1, <1>3, <1>4, <1>8, <2>1, <2>2, <2>4, <2>7, IntegerAsC DEF number
  <2>9. QED
    BY <1>5, <2>5, <2>8
<1>9. ASSUME NEW upper \in BOOLEAN, NEW base \in Bases, d.arg \in Nat,
             d.spec \in {"u", "x", "X", "o", "b"},
             CSign(no, flags) = <<>>,
             CWritten(d) = CInteger(d.arg, <<>>, base, DigitsOfCase(upper), flags, d.prec, d.width),
             CWritten(bare) = CInteger(d.arg, <<>>, base, DigitsOfCase(upper), flags, d.prec, 0),
             Written(d, maxlen) = Ntoa(d.arg, no, base, upper, flags, d.prec, d.width, maxlen)
      PROVE  Written(d, maxlen) = {CWritten(d)}
  <2> DEFINE sign == CSign(no, flags)
  <2>0. d.spec \in Numbers /\ d.spec \in Integers
    BY <1>9
  <2> HIDE DEF flags, no, yes, sign, Numbers, Integers
  <2>1. sign = <<>>
    BY <1>9 DEF sign
  <2>2. /\ CWritten(d) = CInteger(d.arg, sign, base, DigitsOfCase(upper), flags, d.prec, d.width)
        /\ CWritten(bare) = CInteger(d.arg, sign, base, DigitsOfCase(upper), flags, d.prec, 0)
    BY <1>9, <2>1
  <2>3. /\ Len(CInteger(d.arg, sign, base, DigitsOfCase(upper), flags, d.prec, 0)) <= NtoaSize
        /\ Len(CInteger(d.arg, sign, base, DigitsOfCase(upper), flags, d.prec, d.width)) <= maxlen
    BY <1>3, <1>6, <2>0, <2>2
  <2>4. Ntoa(d.arg, no, base, upper, flags, d.prec, d.width, maxlen)
          = {CInteger(d.arg, sign, base, DigitsOfCase(upper), flags, d.prec, d.width)}
    <3>1. /\ "hash" \notin flags /\ (d.prec # NoPrec => flags \cap {"zero", "left"} = {})
          /\ "zero" \in flags /\ "left" \notin flags => d.width <= NtoaSize
          /\ d.prec \in Prec
      BY <1>3, <1>4, <1>7, <2>0
    <3>2. QED
      BY <1>1, <1>9, <2>1, <2>3, <3>1, IntegerAsC DEF sign
  <2>5. QED
    BY <1>9, <2>2, <2>4
<1>10. ASSUME d.spec \in {"u", "x", "X", "o", "b"}
       PROVE  /\ d.arg \in Nat /\ CSign(no, flags) = <<>>
              /\ (IF "hash" \in flags /\ d.arg # 0 THEN <<"0", "x">> ELSE <<>>) = <<>>
              /\ (IF "hash" \in flags /\ d.arg # 0 THEN <<"0", "X">> ELSE <<>>) = <<>>
              /\ Precision(d.prec) = d.prec
              /\ (IF d.prec # NoPrec /\ d.prec < 0 THEN NoPrec ELSE d.prec) = d.prec
  <2>1. d.arg \in Nat
    BY <1>10 DEF IsDirective, Unsigned
  <2>2. CSign(no, flags) = <<>>
    BY <1>10 DEF CSign, FlagsOf
  <2>3. "hash" \notin flags
    BY <1>4, <1>10
  <2>4. QED
    BY <1>7, <1>10, <2>1, <2>2, <2>3
<1>11. CASE d.spec = "u"
  <2>1. /\ CWritten(d) = CInteger(d.arg, <<>>, 10, Lower, flags, d.prec, d.width)
        /\ CWritten(bare) = CInteger(d.arg, <<>>, 10, Lower, flags, d.prec, 0)
    BY <1>2, <1>10, <1>11 DEF CWritten
  <2>2. Written(d, maxlen) = Ntoa(d.arg, no, 10, no, flags, d.prec, d.width, maxlen)
    BY <1>10, <1>11 DEF Written
  <2> HIDE DEF no, yes, flags
  <2>3. QED
    BY <1>1, <1>5, <1>9, <1>10, <1>11, <2>1, <2>2
<1>12. CASE d.spec = "x"
  <2>1. /\ CWritten(d) = CInteger(d.arg, <<>>, 16, Lower, flags, d.prec, d.width)
        /\ CWritten(bare) = CInteger(d.arg, <<>>, 16, Lower, flags, d.prec, 0)
    BY <1>2, <1>10, <1>12 DEF CWritten
  <2>2. Written(d, maxlen) = Ntoa(d.arg, no, 16, no, flags, d.prec, d.width, maxlen)
    BY <1>10, <1>12 DEF Written
  <2> HIDE DEF no, yes, flags
  <2>3. QED
    BY <1>1, <1>5, <1>9, <1>10, <1>12, <2>1, <2>2
<1>13. CASE d.spec = "X"
  <2>1. /\ CWritten(d) = CInteger(d.arg, <<>>, 16, Upper, flags, d.prec, d.width)
        /\ CWritten(bare) = CInteger(d.arg, <<>>, 16, Upper, flags, d.prec, 0)
    BY <1>2, <1>10, <1>13 DEF CWritten
  <2>2. Written(d, maxlen) = Ntoa(d.arg, no, 16, yes, flags, d.prec, d.width, maxlen)
    BY <1>10, <1>13 DEF Written
  <2> HIDE DEF no, yes, flags
  <2>3. QED
    BY <1>1, <1>5, <1>9, <1>10, <1>13, <2>1, <2>2
<1>14. CASE d.spec = "o"
  <2>1. /\ CWritten(d) = CInteger(d.arg, <<>>, 8, Lower, flags, d.prec, d.width)
        /\ CWritten(bare) = CInteger(d.arg, <<>>, 8, Lower, flags, d.prec, 0)
    BY <1>2, <1>10, <1>14 DEF CWritten
  <2>2. Written(d, maxlen) = Ntoa(d.arg, no, 8, no, flags, d.prec, d.width, maxlen)
    BY <1>10, <1>14 DEF Written
  <2> HIDE DEF no, yes, flags
  <2>3. QED
    BY <1>1, <1>5, <1>9, <1>10, <1>14, <2>1, <2>2
<1>15. CASE d.spec = "b"
  <2>1. /\ CWritten(d) = CInteger(d.arg, <<>>, 2, Lower, flags, d.prec, d.width)
        /\ CWritten(bare) = CInteger(d.arg, <<>>, 2, Lower, flags, d.prec, 0)
    BY <1>2, <1>10, <1>15 DEF CWritten
  <2>2. Written(d, maxlen) = Ntoa(d.arg, no, 2, no, flags, d.prec, d.width, maxlen)
    BY <1>10, <1>15 DEF Written
  <2> HIDE DEF no, yes, flags
  <2>3. QED
    BY <1>1, <1>5, <1>9, <1>10, <1>15, <2>1, <2>2
<1>16. CASE d.spec = "f"
  <2> DEFINE neg == d.arg.negative
             number == PlainFloat(d.arg, d.prec)
  <2>1. d.arg \in Float
    BY <1>16 DEF IsDirective, Float
  <2>2. d.arg.whole < Threshold /\ d.prec \in 0..9 \cup {NoPrec} /\ ~NegativeZero(d.arg)
    <3>1. ~(d.arg.whole >= Threshold) /\ d.prec \in 0..9 \cup {NoPrec} /\ ~NegativeZero(d.arg)
      BY <1>16 DEF Differs, NegativeZero
    <3>2. d.arg.whole \in Nat
      BY <2>1 DEF Float
    <3>3. QED
      BY <3>1, <3>2, PrintfSizes
  <2>3. CSign(neg, flags) # <<>> => Len(number) # d.width
    <3>1. CSign(neg, flags) # <<>> => flags \cap {"plus", "space"} # {} \/ neg
      BY DEF CSign
    <3>2. ~(flags \cap {"plus", "space"} # {} \/ neg) \/ ~FillsWidth(d, Len(number))
      BY <1>16 DEF Differs, PlainFloat
    <3>3. QED
      BY <3>1, <3>2 DEF FillsWidth
  <2>4. /\ CWritten(d) = CFloat(d.arg, flags, d.prec, d.width)
        /\ CWritten(bare) = CFloat(d.arg, flags, d.prec, 0)
        /\ Written(d, maxlen) = {Ftoa(d.arg, flags, d.prec, d.width, maxlen)}
    BY <1>2, <1>7, <1>16 DEF CWritten, Written
  <2>5. /\ Len(CFloat(d.arg, flags, d.prec, 0)) <= NtoaSize
        /\ Len(CFloat(d.arg, flags, d.prec, d.width)) <= maxlen
        /\ "zero" \in flags /\ "left" \notin flags => d.width <= NtoaSize
    BY <1>3, <1>6, <1>16, <2>4
  <2> HIDE DEF number, flags
  <2>6. Ftoa(d.arg, flags, d.prec, d.width, maxlen) = CFloat(d.arg, flags, d.prec, d.width)
    <3>1. FloatFits(d.arg, flags, d.prec, d.width, maxlen)
      BY <2>2, <2>3, <2>5 DEF FloatFits, neg, number
    <3>2. d.width \in Nat
      BY <1>1
    <3>3. QED
      BY <2>1, <2>2, <3>1, <3>2, FloatAsC
  <2>7. QED
    BY <2>4, <2>6
<1>17. CASE d.spec = "s"
  <2> DEFINE prec == IF d.prec # NoPrec /\ d.prec < 0 THEN NoPrec ELSE d.prec
             field == PlainField(Taken(d.arg, prec), flags, d.width)
  <2>1. d.arg \in Seq(Byte) /\ Len(d.arg) <= IntLimit /\ Len(d.arg) \in Nat
    BY <1>17, LenOf DEF IsDirective
  <2>2. CWritten(d) = field /\ Written(d, maxlen) = {Str(d.arg, flags, Precision(d.prec), d.width, maxlen)}
    BY <1>17 DEF CWritten, Written, Taken, PlainField
  <2>3. Len(field) <= maxlen
    BY <1>6, <2>2
  <2>4. (d.prec = NoPrec \/ (d.prec \in Int /\ -IntLimit <= d.prec)) /\ IntLimit \in Nat /\ NoPrec \notin Int
    BY PrintfSizes DEF IsDirective
  <2>5. prec \in Prec
    BY <2>4 DEF Prec
  <2>6. Str(d.arg, flags, Precision(d.prec), d.width, maxlen) = Str(d.arg, flags, prec, d.width, maxlen)
    <3>1. CASE d.prec # NoPrec /\ d.prec < 0
      <4> DEFINE all == Precision(d.prec)
      <4>1. all = d.prec + 2 * IntLimit
        BY <3>1 DEF Precision
      <4>2. all \in Nat /\ IntLimit <= all /\ all # NoPrec
        BY <2>4, <3>1, <4>1
      <4> HIDE DEF all
      <4>3. Upto(d.arg, all) = d.arg /\ Upto(d.arg, Len(d.arg)) = d.arg
        <5>1. Len(d.arg) <= all
          BY <2>1, <2>4, <4>2
        <5>2. QED
          BY <2>1, <4>2, <5>1, UptoAll
      <4>4. prec = NoPrec
        BY <3>1
      <4> HIDE DEF flags, prec
      <4>5. Str(d.arg, flags, all, d.width, maxlen) = Str(d.arg, flags, prec, d.width, maxlen)
        BY <4>2, <4>3, <4>4 DEF Str
      <4>6. QED
        BY <4>5 DEF all
    <3>2. CASE ~(d.prec # NoPrec /\ d.prec < 0)
      <4>1. prec = d.prec
        BY <3>2
      <4>2. Precision(d.prec) = d.prec
        BY <3>2 DEF Precision
      <4>3. QED
        BY <4>1, <4>2
    <3>3. QED
      BY <3>1, <3>2
  <2> HIDE DEF flags, prec
  <2>7. Str(d.arg, flags, prec, d.width, maxlen) = field
    BY <1>1, <2>1, <2>3, <2>5, StrAsC
  <2>8. QED
    BY <2>2, <2>6, <2>7
<1>18. CASE d.spec = "c"
  <2> DEFINE field == PlainField(<<d.arg>>, flags, d.width)
  <2>1. d.arg \in ArrayByte
    BY <1>18 DEF IsDirective, ArrayByte
  <2>2. CWritten(d) = field /\ Written(d, maxlen) = {Char(d.arg, flags, d.width, maxlen)}
    BY <1>18 DEF CWritten, Written, PlainField
  <2>3. Len(field) <= maxlen
    BY <1>6, <2>2
  <2> HIDE DEF flags
  <2>4. Char(d.arg, flags, d.width, maxlen) = field
    BY <1>1, <2>1, <2>3, CharAsC
  <2>5. QED
    BY <2>2, <2>4
<1>19. CASE d.spec = "%"
  BY <1>19 DEF CWritten, Written
<1>20. QED
  BY <1>1, <1>8, <1>11, <1>12, <1>13, <1>14, <1>15, <1>16, <1>17, <1>18, <1>19

----------------------------------------------------------------------------
\* What is written so far is what C writes.
LEMMA PutDirectiveAsC ==
  ASSUME Within, FormatsAsC, NEW d, IsDirective(d), NumberFits(d), PutDirective(d)
  PROVE  FormatsAsC'
<1> DEFINE room == Size - Len(text)
           c == CWritten(d)
<1>1. /\ text \in Seq(ArrayByte) /\ expected \in Seq(ArrayByte) /\ Len(text) < Size /\ Size \in Nat
      /\ Len(text) \in Nat /\ Len(expected) \in Nat
  BY LenOf, TextSizes DEF Within, WriteTypeOK, PutDirective, Room, ArrayByte
<1>2. room \in Nat \ {0} /\ room = Size - Len(text)
  BY <1>1
<1>3. /\ \E bytes \in Written(d, room) : text' = text \o bytes
      /\ expected' = expected \o c
      /\ exempt' = (exempt \/ Differs(d))
  BY DEF PutDirective
<1>4. c \in Seq(ArrayByte)
  BY CWrittenType
<1> HIDE DEF c, room
<1>5. Len(c) \in Nat /\ Len(expected') = Len(expected) + Len(c)
  BY <1>1, <1>3, <1>4, Joined, LenOf
<1>6. SUFFICES ASSUME ~exempt', Len(expected') < Size
               PROVE  text' = expected'
  BY DEF FormatsAsC
<1>7. ~exempt /\ ~Differs(d)
  BY <1>3, <1>6
<1>8. text = expected
  <2>1. Len(expected) < Size
    BY <1>1, <1>5, <1>6
  <2>2. QED
    BY <1>7, <2>1 DEF FormatsAsC
<1>9. Len(c) <= room
  BY <1>1, <1>2, <1>5, <1>6, <1>8
<1>10. Written(d, room) = {c}
  BY <1>2, <1>7, <1>9, WrittenAsC DEF c
<1>11. QED
  BY <1>3, <1>8, <1>10

\* So is what the other steps leave of it.
LEMMA AsCStays ==
  ASSUME NumbersFit, Within, FormatsAsC, [WriteNext]_outVars
  PROVE  FormatsAsC'
<1>0. /\ expected \in Seq(ArrayByte) /\ Len(expected) \in Nat /\ Size \in Nat
  BY LenOf, TextSizes DEF Within, WriteTypeOK, ArrayByte
<1>1. ASSUME NEW byte \in Bytes, PutByte(byte) PROVE FormatsAsC'
  <2>1. /\ text' = Append(text, byte) /\ expected' = Append(expected, byte) /\ exempt' = exempt
        /\ byte \in ArrayByte
    BY <1>1, FormatStrings DEF PutByte, ArrayByte
  <2>2. Len(expected') = Len(expected) + 1
    BY <1>0, <2>1, Appended
  <2>3. Len(expected') < Size => Len(expected) < Size
    BY <1>0, <2>2
  <2>4. QED
    BY <2>1, <2>3 DEF FormatsAsC
<1>2. ASSUME NEW kind \in DOMAIN Directives, NEW d \in Directives[kind], PutDirective(d)
      PROVE  FormatsAsC'
  <2>1. IsDirective(d) /\ NumberFits(d)
    BY FormatStrings DEF NumbersFit
  <2>2. QED
    BY <1>2, <2>1, PutDirectiveAsC
<1>3. CASE MissingArgument
  BY <1>3 DEF MissingArgument, FormatsAsC
<1>4. ASSUME UNCHANGED <<text, historyVars>> PROVE FormatsAsC'
  BY <1>4 DEF historyVars, FormatsAsC
<1>5. CASE Formatted
  <2>1. /\ IF Len(text) = Size THEN TRUE ELSE text' = text
        /\ expected' = expected /\ exempt' = exempt
    BY <1>5 DEF Formatted, historyVars
  <2>2. QED
    BY <1>0, <2>1 DEF FormatsAsC
<1>6. CASE \/ PrintToServer
           \/ \E dest \in Dest, cstrike \in BOOLEAN : SendMsg(dest, cstrike)
           \/ \E size \in Sizes : CopyString(size) \/ \E n \in {0, -12} : NumToString(n, size)
           \/ \E length \in MenuLengths : SendMenu(length)
           \/ SendPart
  BY <1>4, <1>6
  DEF PrintToServer, SendMsg, CopyString, NumToString, SendMenu, SendPart, Ended, formatVars
<1>7. CASE UNCHANGED outVars
  BY <1>4, <1>7 DEF outVars, historyVars
<1>8. QED
  BY <1>1, <1>2, <1>3, <1>5, <1>6, <1>7 DEF WriteNext, Done

\* What formatString() writes is what C writes, for any numbers, floats, texts,
\* flags, widths and precisions but those in which it is known to differ, as
\* long as the arrays for digits hold the numbers.
THEOREM FormatsLikeC ==
  ASSUME NumbersFit
  PROVE  WriteSpec => []FormatsAsC
<1>1. WriteInit => Within
  BY WriteBegins
<1>2. WriteInit => FormatsAsC
  BY DEF WriteInit, FormatsAsC
<1>3. Within /\ [WriteNext]_outVars => Within'
  BY WriteStays
<1>4. Within /\ FormatsAsC /\ [WriteNext]_outVars => FormatsAsC'
  BY AsCStays
<1>5. QED
  BY <1>1, <1>2, <1>3, <1>4, PTL DEF WriteSpec
=============================================================================
