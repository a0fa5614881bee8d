----------------------------- MODULE MenuPages -----------------------------
(***************************************************************************)
(* One item-style menu (src/MenuSystem.cpp): the calls that build it, and  *)
(* Menu::display(), which asks the items' callbacks for their status and   *)
(* lays one page out, as a player browses with the Next and Back keys.     *)
(*                                                                         *)
(* An item is its position in m_items; the callbacks' answers are fixed    *)
(* per item, texts are left out.  The steps of display() are those of its  *)
(* loops, so that a loop that does not end shows as a display that does    *)
(* not.                                                                    *)
(***************************************************************************)
EXTENDS Integers, FiniteSets, SequencesExt

CONSTANTS
  Rows,          \* 7: the rows display() fills before the navigation items
  Keys,          \* 10: the size of m_slots and of m_staticItems
  PerPage,       \* values passed to setItemsPerPage()
  Status,        \* what the callbacks of items answer
  StaticStatus,  \* what the callbacks of static items answer
  MenuId,        \* the id of the menu in gMenuHandlers
  MaxItems,      \* bound on the number of items
  MaxPage        \* bound on the pages browsed

ASSUME RowsAndKeys   == Rows \in Nat \ {0} /\ Keys \in Nat /\ Rows + 3 <= Keys
ASSUME PerPageIsNat  == PerPage \subseteq Nat
ASSUME StatusIs      == Status \cup StaticStatus \subseteq {"Enabled", "Disabled", "Hide"}
ASSUME BoundsAreNat  == MaxItems \in Nat /\ MaxPage \in Nat
ASSUME IdsHave16Bits == MenuId \in Nat /\ MenuId < 32768 /\ MaxItems + Keys <= 65536

VARIABLES
  items,         \* m_items: the status each callback answers
  statics,       \* m_staticItems, "none" where there is no item
  perPage,       \* m_itemsPerPage
  page,          \* m_menuPage of the player, -1 before the first display
  step,          \* where display() is: "idle", "fill" or "rest"
  slot, next,    \* its variables slot and i
  hidden,        \* and hidden
  slots,         \* m_slots: what each key stands for, NoContent if never set
  offered,       \* m_keys as a set
  shown          \* history: for each page displayed, what it drew in its slots

pagesVars == <<items, statics, perPage, page, step, slot, next, hidden, slots, offered, shown>>
menu == <<items, statics, perPage>>

Slot == 0..Keys-1

\* What a slot holds: an item, a static item or one of the navigation items.
Content == {"item", "static"} \X (0..MaxItems + Keys) \cup {"Next", "Back", "Exit"} \X {0}
NoContent == <<"none", 0>>

PagesInit ==
  /\ items = <<>> /\ statics = [s \in Slot |-> "none"] /\ perPage = Rows
  /\ page = -1 /\ step = "idle"
  /\ slot = 0 /\ next = 0 /\ hidden = 0
  /\ slots = [s \in Slot |-> NoContent]
  /\ offered = {} /\ shown = [p \in {} |-> {}]

----------------------------------------------------------------------------
(* Building the menu, before it is displayed.                              *)

Building == page = -1

Idle == UNCHANGED <<page, step, slot, next, hidden, slots, offered, shown>>

AppendItem(status) ==
  /\ Building /\ Len(items) < MaxItems
  /\ items' = Append(items, status)
  /\ UNCHANGED <<statics, perPage>> /\ Idle

\* The early return of insertItem(), setStaticItem() and removeItem().
CanInsert(position) == position < Len(items)

InsertItem(position, status) ==
  /\ Building /\ Len(items) < MaxItems
  /\ CanInsert(position)
  /\ items' = InsertAt(items, position + 1, status)
  /\ UNCHANGED <<statics, perPage>> /\ Idle

RemoveItem(position) ==
  /\ Building
  /\ position < Len(items)
  /\ items' = RemoveAt(items, position + 1)
  /\ UNCHANGED <<statics, perPage>> /\ Idle

RemoveAllItems ==
  /\ Building
  /\ items' = <<>>
  /\ UNCHANGED <<statics, perPage>> /\ Idle

SetStaticItem(position, status) ==
  /\ Building
  /\ position < perPage
  /\ statics' = [statics EXCEPT ![position] = status]
  /\ UNCHANGED <<items, perPage>> /\ Idle

SetItemsPerPage(value) ==
  /\ Building
  /\ perPage' = IF value < Keys THEN value ELSE Keys
  /\ UNCHANGED <<items, statics>> /\ Idle

----------------------------------------------------------------------------
(* Displaying a page.                                                      *)

Item(i) == items[i + 1]

HiddenBefore(n) == Cardinality({i \in 0..n-1 : Item(i) = "Hide"})

StaticsPerPage == Cardinality({s \in 0..perPage-1 : statics[s] # "none"})

StartOneBefore(p) ==               \* mutant: off by one
  IF p = 0 THEN 0 ELSE p * perPage - 1

\* The index of the first item of page p: as if every page before took perPage
\* items off the list, more for those hidden and fewer for the static ones.
Start(p) ==
  IF p = 0 THEN 0
  ELSE p * perPage + HiddenBefore(p * perPage) - p * StaticsPerPage

\* display() up to its first loop: it asks the callbacks of the items the pages
\* before take, which must exist.
DisplayPage(p) ==
  /\ step = "idle"
  /\ p = 0 \/ p * perPage <= Len(items)
  /\ page' = p /\ step' = "fill"
  /\ slot' = 0 /\ next' = Start(p)
  /\ hidden' = IF p = 0 THEN 0 ELSE HiddenBefore(p * perPage)
  /\ offered' = {}
  /\ shown' = [q \in DOMAIN shown \cup {p} |-> IF q = p THEN <<>> ELSE shown[q]]
  /\ UNCHANGED <<menu, slots>>

\* What is drawn with more drawn over it.
Over(drawn, more) ==
  [s \in DOMAIN drawn \cup DOMAIN more |-> IF s \in DOMAIN more THEN more[s] ELSE drawn[s]]

PutDisabled(content, status) ==    \* mutant: the status is not looked at
  /\ slots' = [slots EXCEPT ![slot] = content]
  /\ offered' = offered \cup {slot}
  /\ shown' = [shown EXCEPT ![page] = Over(shown[page], [s \in {slot} |-> content])]
  /\ slot' = slot + 1

\* The slot gets its content, and its key is offered if that is enabled.
Put(content, status) ==
  /\ slots' = [slots EXCEPT ![slot] = content]
  /\ offered' = IF status = "Enabled" THEN offered \cup {slot} ELSE offered
  /\ shown' = [shown EXCEPT ![page] = Over(shown[page], [s \in {slot} |-> content])]
  /\ slot' = slot + 1

\* The first loop: it ends at the last slot of a page or after the last item.
Filling == step = "fill" /\ slot < perPage /\ next < Len(items)

\* A static item takes its slot ...
FillStatic ==
  /\ Filling /\ statics[slot] \notin {"none", "Hide"}
  /\ Put(<<"static", slot>>, statics[slot])
  /\ UNCHANGED <<menu, page, step, next, hidden>>

\* ... but one that hides changes nothing, and the loop comes back to it.
FillHiddenStatic ==
  /\ Filling /\ statics[slot] = "Hide"
  /\ UNCHANGED pagesVars

FillItem ==
  /\ Filling /\ statics[slot] = "none" /\ Item(next) # "Hide"
  /\ Put(<<"item", next>>, Item(next))
  /\ next' = next + 1
  /\ UNCHANGED <<menu, page, step, hidden>>

SkipHidden ==
  /\ Filling /\ statics[slot] = "none" /\ Item(next) = "Hide"
  /\ next' = next + 1
  /\ UNCHANGED <<menu, page, step, slot, hidden, slots, offered, shown>>

FillEnds ==
  /\ step = "fill" /\ ~Filling
  /\ step' = "rest"
  /\ UNCHANGED <<menu, page, slot, next, hidden, slots, offered, shown>>

\* The second loop: the static items of the rows that are left.
RestStatic ==
  /\ step = "rest" /\ slot < Rows /\ statics[slot] \notin {"none", "Hide"}
  /\ Put(<<"static", slot>>, statics[slot])
  /\ UNCHANGED <<menu, page, step, next, hidden>>

RestEmptyStays ==                  \* mutant: the slot is not advanced
  /\ step = "rest" /\ slot < Rows /\ statics[slot] \in {"none", "Hide"}
  /\ UNCHANGED pagesVars

RestEmpty ==
  /\ step = "rest" /\ slot < Rows /\ statics[slot] \in {"none", "Hide"}
  /\ slot' = slot + 1
  /\ UNCHANGED <<menu, page, step, next, hidden, slots, offered, shown>>

\* Is there a next page?
HasNext == Len(items) - hidden > next

\* The navigation items take the three slots that follow; one that does not
\* apply leaves its slot, and what m_slots held there, alone.
NavigationKeys ==
  {slot + 2} \cup (IF HasNext THEN {slot} ELSE {}) \cup (IF page > 0 THEN {slot + 1} ELSE {})

Navigation ==
  [s \in NavigationKeys |->
     IF s = slot THEN <<"Next", 0>> ELSE IF s = slot + 1 THEN <<"Back", 0>> ELSE <<"Exit", 0>>]

Navigate ==
  /\ step = "rest" /\ slot >= Rows
  /\ slot + 2 \in Slot
  /\ slots' = Over(slots, Navigation)
  /\ offered' = offered \cup NavigationKeys
  /\ shown' = [shown EXCEPT ![page] = Over(shown[page], Navigation)]
  /\ step' = "idle"
  /\ UNCHANGED <<menu, page, slot, next, hidden>>

DisplayStep ==
  \/ FillStatic \/ FillHiddenStatic \/ FillItem \/ SkipHidden \/ FillEnds
  \/ RestStatic \/ RestEmpty
  \/ Navigate

----------------------------------------------------------------------------
(* Plugins know an item by an id: menu and index packed into one cell, or,  *)
(* if it is a navigation item, a negative number.                          *)

NavigationType == [Back |-> -1, Next |-> -2, Exit |-> -3]

\* getItemIndex(): static items are counted after the others.
ItemIndex(content) ==
  IF content[1] = "static" THEN Len(items) + content[2] ELSE content[2]

\* getItem(), nullptr if there is none.
ItemAt(index) ==
  IF index < Len(items) THEN <<"item", index>>
  ELSE IF index - Len(items) \in Slot /\ statics[index - Len(items)] # "none"
       THEN <<"static", index - Len(items)>>
       ELSE NoContent

Half == 65536                      \* 2^16

\* menuPackItem(), whose two halves have 16 bits each.
PackedItem(index) == MenuId * Half + index

\* The id a menu handler gets of the item that was selected.
ItemId(content) ==
  IF content[1] \in DOMAIN NavigationType THEN NavigationType[content[1]]
  ELSE PackedItem(ItemIndex(content))

\* The item the MenuItem natives work on when given that id: they refuse
\* navigation items.
ItemOf(id) ==
  IF id >= 0 /\ id \div Half = MenuId THEN ItemAt(id % Half) ELSE NoContent

----------------------------------------------------------------------------
(* Browsing (MenuMngr::ClientCommand): the player's key, if it is offered,  *)
(* is looked up with keyToItem().                                          *)

PageDisplayed == page >= 0 /\ step = "idle"

Press(kind) == \E key \in offered : slots[key][1] = kind

PressNext == PageDisplayed /\ page < MaxPage /\ Press("Next") /\ DisplayPage(page + 1)

PressBack == PageDisplayed /\ Press("Back") /\ DisplayPage(page - 1)

\* The natives of gMenuNatives that change an item-style menu.
MenuItemsGet == Len(items)

MenuAddItem == \E status \in Status : AppendItem(status)

MenuAddStaticItem ==
  \E position \in Slot, status \in StaticStatus : SetStaticItem(position, status)

MenuInsertItem ==
  \E position \in 0..MenuItemsGet, status \in Status : InsertItem(position, status)

MenuRemoveItem == \E position \in 0..MenuItemsGet : RemoveItem(position)

MenuItemsPerPageSet == \E value \in PerPage : SetItemsPerPage(value)

Build ==
  \/ MenuAddItem \/ MenuAddStaticItem \/ MenuInsertItem
  \/ MenuRemoveItem \/ RemoveAllItems
  \/ MenuItemsPerPageSet

\* Plugins display a menu from any page that is there.
PagesNext ==
  \/ Build
  \/ \E p \in 0..MaxPage : DisplayPage(p)
  \/ DisplayStep \/ PressNext \/ PressBack

PagesSpec == PagesInit /\ [][PagesNext]_pagesVars

\* display() runs until it returns.
PagesFairSpec == PagesSpec /\ WF_pagesVars(DisplayStep)

----------------------------------------------------------------------------
(* Properties.                                                             *)

PagesTypeOK ==
  /\ items \in Seq(Status) /\ Len(items) <= MaxItems
  /\ statics \in [Slot -> StaticStatus \cup {"none"}]
  /\ perPage \in 0..Keys
  /\ page \in -1..MaxPage /\ step \in {"idle", "fill", "rest"}
  /\ slot \in Nat /\ next \in Nat /\ hidden \in 0..MaxItems
  /\ slots \in [Slot -> Content \cup {NoContent}]
  /\ offered \subseteq Slot
  /\ DOMAIN shown \subseteq 0..MaxPage
  /\ \A p \in DOMAIN shown : DOMAIN shown[p] \subseteq Slot /\ Range(shown[p]) \subseteq Content

ItemsOn(p) == {i \in 0..Len(items)-1 : <<"item", i>> \in Range(shown[p])}

Visible == {i \in 0..Len(items)-1 : Item(i) # "Hide"}

NoItemHides == Visible = 0..Len(items)-1

NoStatics == \A s \in Slot : statics[s] = "none"

\* A player who browses a menu none of whose items hides sees no item on two
\* pages, static items or not ...
PagesDisjoint ==
  NoItemHides =>
    \A p, q \in DOMAIN shown : p # q => ItemsOn(p) \cap ItemsOn(q) = {}

\* ... and has seen every item when there is no next page.
NothingLost ==
  NoItemHides /\ PageDisplayed /\ ~Press("Next") /\ DOMAIN shown = 0..page
    => Visible = UNION {ItemsOn(p) : p \in 0..page}

\* The same of menus with items that hide: callbacks may answer so.
NoVisibleLost ==
  PageDisplayed /\ ~Press("Next") /\ DOMAIN shown = 0..page
    => Visible = UNION {ItemsOn(p) : p \in 0..page}

\* A page is only offered if the items display() counts on the way to it exist.
NextStaysInside ==
  PageDisplayed /\ Press("Next") => (page + 1) * perPage <= Len(items)

\* That holds for menus without static items.
PlainNextStaysInside == NoStatics => NextStaysInside

\* A static item is drawn on each page of the menu in the same position.
StaticsOnEachPage ==
  PageDisplayed =>
    \A s \in Slot :
      statics[s] \notin {"none", "Hide"} => s \in DOMAIN shown[page] /\ shown[page][s] = <<"static", s>>

\* Browsing a menu shows what it holds: each item on one page, none lost, no
\* page offered that is not there, and the static items on every page.
ItemsShownOnce ==
  /\ PagesTypeOK
  /\ PagesDisjoint /\ NothingLost
  /\ PlainNextStaysInside /\ StaticsOnEachPage

\* There are slots for the navigation items.
KeysFit == step = "rest" /\ slot >= Rows => slot + 2 \in Slot

\* A key that is offered stands for what this page drew there, not for what
\* m_slots held before, never for a disabled item, and the id the handler gets
\* of it leads the MenuItem natives back to it.
KeysAreDrawn ==
  /\ KeysFit
  /\ PageDisplayed =>
       \A key \in offered :
         /\ key \in DOMAIN shown[page] /\ slots[key] = shown[page][key]
         /\ \A i \in 0..Len(items)-1 : slots[key] = <<"item", i>> => Item(i) = "Enabled"
         /\ slots[key][1] \in {"item", "static"} => ItemOf(ItemId(slots[key])) = slots[key]

\* An item can be inserted at every position from 0 to Menu.Items.
InsertsAtEveryPosition ==
  \A position \in 0..MenuItemsGet : CanInsert(position)

\* display() returns, whatever the callbacks answer.
DisplayEnds == step # "idle" ~> step = "idle"

\* It does if no static item answers that it hides.
PlainDisplayEnds ==
  step # "idle" /\ (\A s \in Slot : statics[s] # "Hide") ~> step = "idle"

----------------------------------------------------------------------------
(* What the proofs rest on.                                                *)

\* The slots before n that no static item takes.
FreeSlots(n) == Cardinality({s \in 0..n-1 : statics[s] = "none"})

\* The first item of a page if none hides, and the one after its last.
First(p) == p * (perPage - StaticsPerPage)

\* The rows of a page are drawn from the top.  While the menu is built there is
\* no page.
DrawnInOrder ==
  /\ perPage <= Rows
  /\ \A s \in Slot : s >= Rows => statics[s] = "none"
  /\ page = -1 => step = "idle" /\ DOMAIN shown = {}
  /\ page >= 0 => page \in DOMAIN shown
  /\ step = "fill" => slot <= perPage
  /\ step = "rest" => slot <= Rows
  /\ PageDisplayed => slot = Rows
  /\ step # "idle" => DOMAIN shown[page] \subseteq 0..slot-1
  /\ page >= 0 =>
       \A s \in 0..Rows-1 :
         s < slot /\ statics[s] \notin {"none", "Hide"} =>
           s \in DOMAIN shown[page] /\ shown[page][s] = <<"static", s>>

\* What a page drew: items and static items there are, and, when it is done,
\* navigation items that apply.
DrawnAt(p, s) ==
  LET content == shown[p][s]
  IN  \/ \E i \in 0..Len(items)-1 : content = <<"item", i>>
      \/ s < Rows /\ statics[s] # "none" /\ content = <<"static", s>>
      \/ content \in {<<"Next", 0>>, <<"Back", 0>>, <<"Exit", 0>>}

KeysMatch ==
  /\ \A p \in DOMAIN shown : \A s \in DOMAIN shown[p] : DrawnAt(p, s)
  /\ page >= 0 =>
       /\ offered \subseteq DOMAIN shown[page]
       /\ \A s \in DOMAIN shown[page] :
            /\ slots[s] = shown[page][s]
            /\ slots[s] = <<"Next", 0>> => step = "idle" /\ HasNext
            /\ slots[s] = <<"Back", 0>> => page > 0
       /\ \A s \in offered : \A i \in 0..Len(items)-1 : slots[s] = <<"item", i>> => Item(i) = "Enabled"
       /\ step = "idle" /\ HasNext => slot \in offered /\ slots[slot] = <<"Next", 0>>

\* How far the items of the page are drawn.
FilledTo ==
  page >= 0 =>
    /\ page * perPage <= Len(items)
    /\ hidden = HiddenBefore(page * perPage)
    /\ step = "fill" => next >= Start(page) + FreeSlots(slot)
    /\ step # "fill" => next >= Len(items) \/ next >= Start(page) + FreeSlots(perPage)
    /\ NoItemHides =>
         /\ step = "fill" => next = First(page) + FreeSlots(slot)
         /\ step # "fill" => next <= First(page + 1) /\ (next >= Len(items) \/ next = First(page + 1))

\* The pages divide the items among them.
PagesDivide ==
  NoItemHides =>
    \A p \in DOMAIN shown :
      ItemsOn(p) = {i \in 0..Len(items)-1 :
                      First(p) <= i /\ i < (IF p = page /\ step = "fill" THEN next ELSE First(p + 1))}

PagesIInv == PagesTypeOK /\ DrawnInOrder /\ KeysMatch /\ FilledTo /\ PagesDivide
============================================================================
