# A TLA+ model of SPMod

SPMod is a Metamod plugin for the Half-Life dedicated server. It gives
extensions, and the scripts ("plugins") that a scripting extension runs,
services over the engine: events, timers, menus, players, messages, commands,
cvars and hooks. The one scripting extension in the repository is the
SourcePawn adapter in `src/subprojects/sourcepawn`.

## The system

Everything runs on the engine's one thread. There are no locks and no messages
between threads; what makes the code hard is **re-entrancy**. Each manager
calls back into plugin code in the middle of a walk over its own containers or
between reading a field and using it, and plugin code may call every native of
every manager before it returns. Each object is owned by a `unique_ptr` in a
manager's container, while plugins hold integer handles and other objects hold
raw pointers to it.

| Component | State | Operations | Interacts with |
|---|---|---|---|
| Handle tables (`TypeHandler.hpp`) | id -> pointer, queue of freed ids | create, get, getKey, free, clear | every native of the adapter |
| Forwards (`ForwardSystem.cpp`, listener in `ExtMain.cpp`, `ForwardsNatives.cpp`) | multimap name -> Forward, parameters, `m_exec` | create, delete, push, exec, clear | engine handlers execute them; listeners run plugin functions |
| Timers (`TimerSystem.cpp`, `TimerNatives.cpp`) | vector of Timer, `m_nextExecution` | create, exec, walk, remove, clear | `StartFramePost` walks; callbacks are plugin functions |
| Menus (`MenuSystem.cpp`, `MenuNatives.cpp`) | items, static items, slots, keys; registered menus | build, display, choose, close, destroy | players hold the menu they look at; handlers are plugin functions |
| Players (`PlayerSystem.cpp`, `RehldsApi.cpp`, `PlayerNatives.cpp`) | connected / in game, name, address, ID, menu, players to authorize, player count | connect, authorize, enter, rename, drop, text | execute forwards, close menus |
| Messages (`MessageSystem.cpp`, `engine_api.cpp`) | hooks and blocks per message, the message in flight | register, block, begin, write, end | hooks are plugin functions; may send again |
| Cvars (`CvarSystem.cpp`, `CvarsNatives.cpp`) | cached value, callbacks | register, find, read, set, DirectSet hook | engine cvar and its ReHLDS hook; plugin functions hear of changes |
| Commands (`CmdSystem.cpp`, `CmdNatives.cpp`) | client and server commands | register, match, run, clear | `ClientCommand` runs a forward, the menus, then functions |
| Virtual table hooks (`VTableHookManager.cpp`) | patched tables, functions before and after, stacks of parameters and returns | register, call chain, set parameters, clear | class tables of the game |
| Life cycle (`dllapi.cpp`, `SPGlobal.cpp`, `meta_api.cpp`) | extensions, interfaces | activate, deactivate, detach | fills and empties every registry |
| Plugins, natives, extensions (`PluginSystem.cpp`, `NativeProxy.cpp`, `NativeCallback.cpp`, `ExtensionSystem.cpp`) | loaded plugins and ids, exported natives, natives under way and their parameters | load, register, bind, call, unload | the life cycle |
| Text (`PrintfImpl.cpp`, `UtilsSystem.cpp`, `StringNatives.cpp`) | none that lasts | format, trim, copy, send in parts | natives and `Player::sendMsg()` |

What makes each correct:

* *handles*: one id never stands for two objects, and none is lost;
* *forwards*: an event runs at most once per plugin, with the arguments its
  caller pushed and the result its exec type promises, and the object lives
  while it runs;
* *timers*: the walk serves each due timer once although callbacks change the
  registry; a timer that stops is removed, and only it;
* *menus*: every item is reachable by browsing and shown once; a key means
  what is on the screen; no player holds a destroyed menu;
* *players*: what natives tell follows the connection at every point at which
  plugin code runs, and nothing stays for the next client of a slot;
* *messages*: state of one message never leaks into the next;
* *cvars*: plugins read what the engine has, and all of them hear of a change;
* *commands*: a line is heard by those it is for, in order, and by nobody else;
* *virtual table hooks*: a call keeps its own parameters, however calls nest,
  and tables lead to a handler only while its hook exists;
* *extensions, plugins, natives*: no pointer outlives its library, a native
  finds the arguments of its own call, names and ids are unambiguous;
* *text*: it stays in its buffer, is what C would have written, and is sent
  whole.

Nothing is persisted and nothing is sent over an unreliable channel, so there
are no crashes to recover from and no lost messages; the map change, which
empties every registry at once, takes that place.

## Modules

`HandleTable` -- the abstract specification of a handle table: a partial map in
which only a free id is bound and only the given id is unbound.

`TypeHandler` -- `TypeHandler<T>`: `handlers` is `m_handlers`, where a freed id
keeps a null entry, `freeIds` is `m_freeIds`. One action each for `create`,
`free` and `clear`; `get` and `getKey` are operators. `ImplementsHandleTable`
is the refinement of `HandleTable` whose map is the non-null entries.

`ForwardMngr` (instances in `MCForwardMngr`) -- `forwards` maps the addresses
in `m_forwards` to the fields of the Forward, with a parameter list of length
at most one; `calls` is the stack of `execFunc()` activations, each with the
listener it is at, the plugins still to call and the answers so far. Natives
and engine handlers act at any point at which plugin code runs. The order of
the multimap is unspecified and modelled as any order in which equal names are
adjacent: `deleteForward()` erases any forward its walk may reach.
A plugin may register a global or a single forward under any name, a default
one included; `own` marks those it has a handle to. `getForward()` finds any
forward of a name, so an engine handler (`EngineExec`) may come upon one that a
plugin has filled: `want` is what a caller means to pass, `had` what was in
place when the execution began.
`PluginReturns` stands for a plugin function that returns, fails or does not
exist.

`TimerMngr` -- `timers` is the vector `m_timers` with its `capacity`, `fields`
the Timer objects, `cooldown` the distance to `m_nextExecution`, `calls` the
stack of executions (the walk with its iterator, the Trigger native, the
constructor native that executes at once). It extends `TypeHandler`, whose
`handlers` and `freeIds` are the table `gTimerHandlers` there. Time is relative
and counts frames. A move of the vector makes the iterator invalid.
`InCallback` says how far callbacks go with the registry: "Room" creates timers
while the vector has room for them, "Create" always; "Later" removes timers the
walk has yet to come to, "Erase" any.

`MenuPages` -- one item menu: the calls that build it, and `display()` as the
steps of its two loops and of the navigation items, while a player browses.
The answers of item callbacks are fixed per item. The natives that add, insert
and remove items are here, with the ids they work by: the menu in the upper and
the position in the lower 16 bits (`PackedItem`, `ItemOf`).

`MenuMngr` (instances in `MCMenuMngr`) -- menus and the players who look at
them: `menus` with the pages whose items are in `m_slots` (`rows` and `drawn`),
`players` with `m_menu`, `m_menuPage` and `m_inGame`, `screen` what each client
shows, `calls` the suspended `ClientCommand()`, `closeMenu()`, `destroyMenu()`
and `display()`. `destroyMenu()` is a loop of its own steps, because exit
handlers run inside it. `display()` is three: `Displayed` gives the player the
menu and the page, `DisplayRows` fills the first slots and `DisplaySends` the
others, `m_keys` and the screen; in between the callbacks of items run
(`MenuSystem.cpp:101,138,165`), which are plugin code. Several players may look
at one menu. `marks` is history: whether somebody else was shown the player's
menu since ("shared"), and whether what was done to him began or ended while a
`display()` showed him one ("crossed").

`PlayerMngr` -- `players` is `m_players`, `playersNum` and `toAuth` are
`m_playersNum` and `m_playersToAuth` (an entry whose Player a change of map has
destroyed is not `live`), `wait` the distance to `m_nextAuthCheck`; `client` and
`authid` are the engine's idea of each slot. Each handler is split where a
forward or an exit handler runs plugin code: `event` says which one is running,
and the action that ends it is the rest of the handler. `Told` and `Identity`
are the natives.

`CmdMngr` -- `clientCommands` and `serverCommands` are the two lists, `line` the
command on its way through the forward, the menus and the loop over the list,
one function at a time. A regular expression is the set of names it is found in.

`ClientEvents` (instance in `MCClientEvents`) -- composes the two: the handlers
of `dllapi.cpp` for clients, one at a time; a change of map replaces the players
and clears the commands in one step.

`CvarMngr` -- `cache` is `m_value` of the cached variables, `engine` the
engine's value, `hooks` the functions in `gCvarPluginsCallbacks` (with as many
entries in `m_callbacks`), `calls` the stack of `setValue()` activations.
`SetValue` is the part before the first callback, `SetValueEnds` the part after
the last, which goes through `Cvar_DirectSetHook` to the engine.

`VTableHookMngr` -- `hooked` and `entries` are `m_hooks` and the game's tables,
`stacks` the `m_params`, `m_return` and `m_originalReturn` of each hook, `calls`
the handlers under way. The steps of a call are the functions before it, the
original, and those after it.

`Extensions` -- `phase` is how far `ServerActivatePost()` or
`ServerDeactivatePost()` has come, `handles` is `m_extHandles`, `interfaces` who
registered an adapter or module, `held` what the managers keep of code and
objects in libraries. An extension in `Hasty` may register an interface and
listen to forwards in `SPMod_Query()` or `SPMod_Init()` and then be refused: it
is closed, and what it registered stays (`Reject`, `StartFails`). `AtEnd` are the
managers that some `SPMod_End()` fills, which is called when they have been
cleared (`EndExts`, between `Clear` and `Close`).

`PluginMngr` (instance in `MCPluginMngr`) -- extends `Extensions`: `ids` and
`list` are `m_plugins` and `m_exportedPlugins`, `bound` what each plugin's table
of natives leads to, `proxied` and `pluginNatives` the two tables of natives,
`stack` the plugin code under way, `current` and `given` the stacks by which
SPMod knows the native under way and its parameters.

`PrintfImpl` -- what `formatString()` writes for one directive, by the steps of
the code (digits backwards into an array, zeros, prefix, sign, copy), and next
to it what ISO C says it writes. `Written` is a set of texts: where the length
wraps around, any bytes that lie in front of the array for digits (`Junk`) may
be copied. Floats are multiples of 1/8, for which the arithmetic of doubles is
exact; NaN and infinity are left out.

`TextOut` (instance in `MCTextOut`) -- a format string item by item into the
native's array, and the ways it is sent: to the server's console, to a player
(`sendMsg()` with the trimming of characters), into a plugin's array. `text` is
the array up to `idx`, `reach` the last byte written so far, the terminators
included, `expected` what C would have written by now. What is sent ends at the
first NUL. It extends
`MenuText`, whose variables it changes by its steps only.

`MenuText` -- the loop of `Utils::ShowMenu()`, which sends the text of a menu in
parts: `view` is the text by its length, `currentPos`, `menuLength` and the
length of `buffer`, `part` the last message sent: the view it is for (`from`,
`upto`) and how much `WRITE_STRING()` takes, which is all that follows
(`written`). Lengths wrap around at `Wrap`, 2^32 in the code.

`MessageRelay` -- what the sender of a message may rely on: messages are nested,
each is written, rewritten by its own handlers, and delivered once or dropped.

`MessageMngr` (instances in `MCMessageMngr`) -- `blocks`, `hooks`, `message`,
`inHook`, `inBlock` and `msgType` are `m_blocks`, `m_hooks`, `m_message`,
`m_inhook`, `m_inblock` and `m_msgType`; `buffer` and `wire` are the engine's
(what it is being given, and what it sent last); `calls` is the stack of
messages begun and not ended, each with what its sender wrote, whether it is
being written or in `execHandlers()`, and the hook the loop is at. `Begin...`
are the cases of `MessageBegin()` and of the native that bypasses it,
`WriteParam` the write functions, `EndBlocked`, `EndPlain`, `EndHooked`,
`ExecMessage` and `MessageEnds` the parts of `MessageEnd()` between which plugin
code runs. `ImplementsRelay` maps the stack to that of `MessageRelay`.

Each module's comment at a definition says what of the code it stands for.
Operators marked "mutant" are deliberate errors a property must detect; they
are not part of any specification.

Undefined behaviour is not continued: an action that would follow a pointer to
a destroyed object is disabled from there on, and a property says whether
such a state can be reached.

## Runs

| Run | Shows | Bounds |
|---|---|---|
| `TypeHandler` | freed ids are queued once and only while free, no id is lost, refinement of `HandleTable` | 3 objects, 4 ids: a queue of several ids next to live ones |
| `ForwardMngr` | unique registrations, the executed forward lives, arguments hold; answers are folded as the exec type says and a single forward runs only in its plugin | 3 forwards under a default and an own name, each of the server or of a plugin, 2 plugins, 2 values, the two exec types that fold, an answer that stops, a higher one and a failed call (`AnswersAreFolded` is proved for all types and answers), nesting 2 -- an outer execution, an inner one and a third forward to create or delete |
| `ForwardNested` (violation) | see below | 2 forwards, re-entrant execution |
| `TimerMngr` | the iterator stays on its timer, the walk leaves no due timer behind and serves it on time, timers keep their handles, due timers are served | 2 timers, intervals 1 and 2, a walk every 2 frames, nesting 2, 3 handles; callbacks create timers while the vector has room and remove those the walk has yet to come to |
| `MenuPages` | each item on one page and none lost, Next leads to a page that exists, static items keep their place; keys fit, mean what is drawn and carry an id that leads back to the item; `display()` ends | 3 rows and 6 keys in place of 7 and 10 (the code uses only their order and difference), up to 4 items, all item and static statuses |
| `MenuMngr` | no player holds a destroyed menu, the chosen item is the one shown, screen and server agree, no key leads to a page that is not there, Next and Back lead to the neighbouring pages | 2 players, 2 menus -- one that is destroyed after a selection and one that stays, with items or a text --, 2 pages, nesting 2. Handlers, exit handlers and the callbacks in `display()` count; the loops of `destroyMenu()` come on top. An exit handler run by a destruction inside a handler is thus included, with the text menus it displays and closes; one run by a destruction that no handler made displays, closes and destroys item menus, too. The proofs are for any depth |
| `MessageMngr` | a handler sees its own message, nothing is left for the next message, a one-message block is spent by one message, refinement of `MessageRelay` | 2 types, 2 hooks, 2 values, one parameter, one message inside a handler of another: each flag and field is shared by two messages at most at a time, and the two may be of the same or of different types |
| `ClientEvents` | natives tell the engine's state in the middle of every event, nothing of a client is left for the next one in the slot, the count is exact until it drifts, lines are heard in order by those they are for | 2 slots, each with a history of its own; one client waiting for authorization, checks every other frame, a count modulo 3; 3 lines (chat, command, menu), 2 commands, of which one is an expression found in two names |
| `CvarMngr` | the cache agrees with the engine, old values are the engine's, all functions hear of a change before it takes effect | 2 variables, 2 values, 2 functions, nesting 2: a change inside a change of the same or of the other variable |
| `VTableHookMngr` | tables lead to hooks, parameters are those of the innermost call, the original runs with what its own functions made of them | Spawn (nothing returned) and TakeDamage (an integer), 2 classes, one function before and one after each, nesting 2, stacks of 2 |
| `PluginMngr` | nothing outlives its library but what refused extensions and `SPMod_End()` leave, natives find the arguments of their own call, names and ids are unambiguous | 2 extensions, of which one may register and then be refused or fail, and whose end fills a manager; 2 plugins, a built-in native, one that both import and one that may be missing; 4 calls deep -- a native that calls itself below another -- and 3 managers at a time |
| `TextOut` | nothing is written past the buffer, text is C's, ends in whole characters; the messages of a menu reach its end and come to one | an array of 6 bytes, two items, all flags, widths and precisions below, at and above the lengths, negative and none given included; menus of every length from 0 to `MaxMenu` = 15 with parts of 4, so that there are up to four and the last is of any length, and some above it |

Deadlock is checked in every run.

**What the passing runs leave out, on purpose.** Each assumes that plugins
avoid one named thing, given by a constant, that the code does not survive:
`Reentrant = FALSE` (no forward executed while it is executed; the natives do
not prevent it), `InCallback = {"Room", "Later"}` (timer callbacks create no
timer for which the vector has to move, and remove none the walk has passed or
is at), `MapLength` not above `Period` (see the table below),
`NoItemHides`, `NoStatics` and "no static item hides" as premises of parts of
`ItemsShownOnce` and of `PlainDisplayEnds`, and `Habits = {}`: nothing is
displayed to a player who is not in the game, a menu that is being destroyed is
displayed to nobody, and no plugin destroys a menu that a suspended call works
on -- the handler its own menu, a callback the menu it is displayed in.
In `MessageMngr`, handlers send messages that are blocked or go past the hooks
(`Sends`; the manager has one `m_message` and one `m_inhook` for all), and
neither hook nor unhook the type they run for (`Shuffles`); messages have an
origin (`Origins`), as `Message::init()` reads it without a test. The call type
`Not_Hookable` is left out of `Senders`: it behaves as "Game" does.
`PendingAtChange = FALSE`: no map change while players wait for authorization.
`SafeFunctions = TRUE`: functions of server commands are not told a player.
The functions of commands register no commands, those of cvars hook no
function on the variable that is changing, and those of virtual table hooks
register no hooks: each would move the container that is being walked.
`ElsewhereCalls = FALSE` (plugins of a second adapter do not call natives of
SourcePawn plugins) and `ExecChangesMap = FALSE` (`ServerExec` runs no queued
change of map). Formats and texts are whole characters themselves
(`WholeTexts`).

**What the properties exempt.** Where the code is known to fail in a case that
the runs contain, the property says so itself and holds of everything else:

* `ArgumentsHold`: all plugins see the arguments that were in place when the
  execution began. That these are the caller's is not said of a forward a plugin
  owns, which an engine handler may find filled.
* `SelectedIsShown`, `ScreenAgrees`: not of a player whose menu somebody else was
  shown meanwhile ("shared": the slots are those of the other's page, and his key
  may be one they do not take), nor of one who was shown a menu, or whose menu was
  closed, while a `display()` for him waited for the callback of an item ("crossed":
  the outer `display()` goes on and draws a menu he no longer holds).
* `PagesTurn`, `TurnsStay`: not of a handler that displays a menu to its own
  player ("moved"), since the page is read after it (`MenuSystem.cpp:464`); and
  a player whom this takes past the pages is not followed, as `display()` reads
  items beyond the last.
* `NothingOutlivesItsLibrary`: interfaces in `Hasty` and managers in `AtEnd` (see
  `Extensions` above).
* `StaysInBuffer`: where padding from the left takes all the room of a `%c`, its
  character and its terminator go one byte further each (`crowded`).
* `FormatsAsC`: directives in `Differs`, and texts that fill the array, whose last
  byte is the terminator's.
* `WholeCharacters`: text that a plugin cuts itself (`%.1s`, `%c`), and bytes from
  in front of the array for digits, which are no characters (`cut`).
* `PartsReachTheEnd`: of a text above `MaxMenu` (512 in the code) it says that
  the loop never ends; `MenuIsSent` is about the others.

### Disagreements

Shown by a run:

* `ForwardNested`: `deleteForward` promises not to delete an executed forward,
  but the end of a nested execution clears `m_exec` of the outer one.

Stated in the modules and false under the constants named here; no run is spent
on them (a conjunct of a checked property is named by itself):

| Property | Module | Fails with |
|---|---|---|
| `DefaultForwardsStay` | ForwardMngr | two default names and an own one: deleting a forward while it is executed erases the next erasable one (`ForwardSystem.cpp:453`) |
| `SingleRunsInItsPlugin` | ForwardMngr | `Listeners <- TwoAdapters`: the other adapter runs the forward in all its plugins |
| `IgnoreIgnoresAnswers` | ForwardMngr | `Types <- AllTypes`, `Answers <- AllAnswers`: `ExecType::Ignore` is 0 and the test of that bit never holds |
| `RefusesDuplicatesOnly` | ForwardMngr | a third name: the duplicate walk does not stop at the end of the name |
| `Punctual` | TimerMngr | `MapLength` above `Period`: `m_nextExecution` survives a map change |
| `IteratorHolds` | TimerMngr | `"Create"` in `InCallback`: the vector moves under the walk; or `"Erase"`: the timers behind the erased one do |
| `HandlesAreLive` | TimerMngr | always: the walk erases a timer that stops and keeps its handle (`TimerSystem.cpp:94`) |
| `NoNullTimer` | TimerMngr | `BadInterval = TRUE`: `createTimer` answers nullptr, the native expects an exception |
| `NoVisibleLost` | MenuPages | `"Hide"` in `Status`: hidden items are counted for the wrong page |
| `NextStaysInside` | MenuPages | static items and several pages: items past the end are read |
| `DisplayEnds` | MenuPages | always: a static item that hides keeps the first loop of `display()` from ending (`MenuSystem.cpp:140`) |
| `KeysFit` | MenuPages | `PerPage` above `Rows`: no slots are left for the navigation items |
| `InsertsAtEveryPosition` | MenuPages | always: position `Menu.Items` is refused |
| `NoDanglingMenu` | MenuMngr | `"Lobby"`, `"Redisplay"` or `"DestroyUsed"` in `Habits` |
| `SelectedMenuLives` | MenuMngr | `Habits = {"DestroyUsed"}`: the item is read after its menu is destroyed |
| `ItemIsTheSelected` | MenuMngr | always, by two players who look at one menu: the handler should get the selected item (`menus.inc:77`), but the menu has one `m_slots` for all (`MenuSystem.cpp:458`) |
| `HandlersSeeTheirMessage` | MessageMngr | `Sends` with `"Plain"`: a message without hooks clears `m_inhook` (`MessageSystem.cpp:309`) |
| `ImplementsRelay` | MessageMngr | `Sends` with `"Hooked"`: the inner message gets the outer one's parameters |
| `NothingUndefined` | MessageMngr | `"Null"` in `Origins` (messages to all or to one player, also those that the MessageBegin native sends), or `Shuffles = TRUE` |
| `CallTypeIsObeyed` | MessageMngr | always: `Hookable` is 1 and read as `ignoreHooks` (`messages.inc:212`) |
| `line.stage # "crashed"` | CmdMngr | `SafeFunctions = FALSE`: the lambda of `CommandCtor` follows a null player (`CmdNatives.cpp:47`) |
| `OnlyTheLoadedAreAsked` | Extensions | always (in `PluginMngr`): an extension whose `SPMod_Init()` answers false should not be loaded (`IInterface.hpp:202`), but the interface it has registered stays and is asked for its plugins, in a library that is closed (`SPGlobal.cpp:114`) |
| `NothingOutlivesItsLibrary` | PluginMngr | `ExecChangesMap = TRUE`: the map ends below a native |
| `NativesSeeTheirCall` | PluginMngr | `ElsewhereCalls = TRUE`: `InvokeSPModNative()` keeps no parameters |
| `FormatsAsC` | TextOut | a number of more than `NtoaSize` characters, against `NumbersFit` (`%040d`): its zeros end at the array for its digits |

Met while modelling and part of the models, each at the definition named:

* `PlayerMngr!Taken`: the authorization check takes players whose ID is still
  pending and leaves those who got one (`PlayerSystem.cpp:344`); nobody who
  waits is announced as authorized.
* `PlayerMngr!ChangeMap`, `drifted`: players who stay over a change of map are
  counted again, others never uncounted; with `PendingAtChange = TRUE` the
  frames stop, as the next check follows destroyed players.
* `PlayerMngr!DropClient`: outside Half-Life itself `basePlayer()` is null and
  the hook goes on with it (`RehldsApi.cpp:34`).
* `CvarMngr!NextCallback`: with k functions hooked, each hears of a change k
  times (`CvarsNatives.cpp` adds a callback per function that runs all).
  `ViewsLost`: the old value is a view of a string that a nested change assigns.
* `VTableHookMngr!RegisterHook`: functions for a second class are added to the
  hook of the first and never run for the second. `PostEnds`, `lost`: a superceded
  TakeDamage without a return keeps its stacks. `HasReturn`: a return that was set
  counts only if a function after the original answers Override.
* `PluginMngr!Bound`: binding stops at the first native nobody has; the rest of
  that plugin's table stays unbound. `NativeGet`: in a function that is no native
  but runs inside one, it reads that native's parameters.
* `ForwardMngr!EngineExec`: `getForward(name)` answers any forward of the name
  (`ForwardSystem.cpp:439`), and a plugin may register one of its own under a
  default name and fill it; the engine handlers do not test their pushes.
* `MenuMngr!DisplayRows`, `DisplaySends`: a `display()` that an item callback
  interrupts goes on whatever was done meanwhile ("crossed"). `AfterHandler`: the
  page is read after the handler (`MenuSystem.cpp:464`).
* `PrintfImpl`: prefixes, precisions together with other flags or below zero, and
  signs in front of a number that fills its width differ from C, so does -0.0,
  floats above the threshold write nothing, and their precision ends at 9
  (`Differs`). `GivesUpNone`: for `%+.0d` of 0 the length wraps around, no sign is
  written and the array is filled with bytes from in front of the array for digits
  (line 99). `Char`: the padding of `%c` looks for room and the character does not.
  `Written`: a `%` at the end of the format copies its NUL and reads on behind it.
* `TextOut!Formatted`: the terminator takes the last byte of a full array, and
  `formatString()` answers the length with it: `PrintToServer` puts its line feed
  behind the NUL (line 558). `NumToString` answers the whole length.
* `MenuText!ShowPart`: `WRITE_STRING` gets the start of a view and writes all that
  follows it, in every part (`UtilsSystem.cpp:73`); a text above `maxMenuLength`
  ends with a view that is longer than what was left, which wraps around, and the
  loop goes on for ever. `TextOut!SendMsg`: likewise `sendTextMsg()` cuts a view at
  `maxLength`, "max 188 bytes" (`UtilsSystem.cpp:158`), and sends all of the text.
* `Extensions!Reject`, `StartFails`: interfaces and listeners of refused extensions
  stay; `EndExts`: what `SPMod_End()` registers comes after the clearing.
* `MenuPages!ItemOf`: ids of items go stale when items are inserted or removed,
  and `getItem()` is followed without a test (`MenuNatives.cpp:720`).

## Fairness

`TimerMngr!FairSpec`: the engine runs frames again and again (strong fairness
of `StartFrame`, since natives may run between frames), a walk goes on (weak),
and each plugin function returns (strong, per nesting depth, since a function
may first execute others). `MenuPages!PagesFairSpec`: `display()` runs until it
returns (weak). `TextOut!WriteSpec` and `MenuText!TextSpec`: the loop of
`ShowMenu()` goes on while its condition holds (weak). Nothing else is assumed.

## Proofs

Each `_proofs` module extends the modules it is about. What TLC checks on a small
instance is proved there for every value of the constants; the assumptions are
the named `ASSUME`s on the constants, which TLC evaluates in the runs, and those
stated in a theorem, which are the ones the code needs (above). The inductive
invariants (`IInv` and its parts) stand in the modules themselves, so that TLC
could check them before they were proved.

| Module | Proved | Assuming |
|---|---|---|
| `TimerMngr_proofs`: table | `TableTypeOK`, `FreeIdsAreFree`, refinement of `HandleTable` | |
| | `IdsAccountedFor` | `~CreatesNull` |
| timers | `TypeOK`; natives change the table by steps of it only | |
| | `TimersHaveHandles`; the walk passes no timer that is due | `"Erase"` not in `InCallback` |
| | `IteratorHolds` | neither `"Create"` nor `"Erase"` in `InCallback` |
| | `ServedInTime` | `"Erase"` not in `InCallback`, `MapLength <= Period` |
| `ForwardMngr_proofs` | `TypeOK`, `UniqueForwards` | |
| | `ExecutedForwardLives`, `ArgumentsHold` | `~Reentrant` |
| | `AnswersMeetType` | `EveryAdapterHasAll` |
| `MessageMngr_proofs` | `TypeOK` | |
| | `HandlersSeeTheirMessage`, `NothingLeftOver`, `OnceBlocksOne`, refinement of `MessageRelay` | `PassingBy` |
| `CvarMngr_proofs` | `CacheAgrees`, `OldIsOld`, `NobodyMissesAChange` | |
| `VTableHookMngr_proofs` | `EntriesLeadToHooks`, `ParamsAreMine`, `OriginalRunsAsAsked` | |
| `ClientEvents_proofs` | `NativesTellTheTruth`, `NothingInherited`, `CountIsExact`, `LinesAreHeard` | |
| `PluginMngr_proofs` | `NativesSeeTheirCall`, `NamesAndIdsAreUnambiguous`, `NothingOutlivesItsLibrary` | `~ElsewhereCalls`, `~ExecChangesMap` |
| `MenuMngr_proofs`: players | `NoDanglingMenu`, `SelectedIsShown`, `ScreenAgrees`, `TurnsStay`, `PagesTurn` | `Habits = {}` |
| pages | `ItemsShownOnce`, `KeysAreDrawn` | `PerPage \subseteq 0..Rows` |
| text | `PartsReachTheEnd` | |
| formatting | `StaysInBuffer` | |
| | `WholeCharacters` | `WholeTexts` |
| | `FormatsAsC` | `NumbersFit` |

`TimerMngr_proofs`, the table. What is proved holds for any objects; the timers'
natives are one user of it. The inductive invariant is
`TableTypeOK /\ FreeIdsAreFree`: ids
are 0..size-1, so that the size is a new id, and the queue holds distinct ids
with null entries, so that `create` never takes over a live id. Without null
objects, an entry becomes null only where its id is queued, and none is lost.

`TimerMngr_proofs`, the timers. Every step of a native or a walk leaves the table
as it is or makes one step of it, so that what is proved of the table holds here.
None of the properties is inductive: between two steps of the walk a callback
may have run any natives. `WalkStays` says that the walk, which is always the
oldest call, is at the timer it was at, at the place it was at, even if the
vector has moved; `ServedBehind` that the timers before that place were served
in this walk or are not due. `WaitsFit` bounds, between two walks, how long a
timer has waited together with the time to the next walk: by its interval and one
period. A change of map leaves that time as it is, and this is where
`MapLength <= Period` is needed. `TriggersHold` says that the
handle by which a timer is triggered stays its handle until its callback returns,
so that `TriggerReturns` frees the handle of the timer it erases and of no other.
The iterator stays valid (`IteratorHolds`) as long as callbacks create timers in
the room the vector has and erase none up to the walk's place: a timer behind it
goes without moving those before.

`ForwardMngr_proofs`. That an executed forward lives and keeps its arguments
needs more than itself: a forward on the call stack is registered, has `m_exec`
set and is full, so that neither `deleteForward` nor a push touches it
(`RunningIsMarked`); it is there only once, so that the end of one activation
does not clear the mark of another (`RunsOnce`); and forwards to which no plugin
has a handle are empty when no one executes them, so that the unchecked pushes
of the engine handlers succeed (`EngineForwardsAreEmpty`). A forward with a handle
may be full when an engine handler finds it; its arguments are then those the
plugin pushed, and they still hold until the execution ends. `RunsOnce` is what `~Reentrant` buys, and
the run `ForwardNested` shows it is needed. How answers are folded does not
depend on it: the address of an executed forward is not given to another, so
its type and plugin stay what they were. It rests on `AnswersIInv`: a loop that
was stopped has nobody left to call, a listener never has a plugin to call that
a single forward is not for (`LoopsAreBounded`), and single forwards have no
exec type (`SinglesHaveNoType`). `EveryAdapterHasAll` says that all plugins are
of one adapter: the listener of another one would call all its plugins for a
single forward that is not theirs.

`MessageMngr_proofs`. For handlers that send blocked and direct messages only
(`PassingBy`), any number deep, `IInv` says that each message but the innermost
waits in a hook, which only a hooked message does (`StackIsSound`); that only
the outermost can be hooked, and that `m_inblock` and `m_msgType` are those of
the innermost (`NestedPassBy`); that the manager holds the outermost message and
no other (`ManagerHoldsFirst`) and the engine what was written of the innermost
(`EngineHoldsLast`). Together they determine where each parameter goes
(`DestinationOfWay`), which is what the steps of the refinement rest on.

`CvarMngr_proofs`. The properties are inductive with three facts about what is
under way: a variable with a handle is cached (`FoundAreCached`), so is one that
is being changed (`ChangesAreCached`), and nothing changes between two maps
(`QuietWhenAway`), when the hook is away. The step that needs care is the end of
a change: it assigns the string of which the changes of the same variable below
it pass on a view, and those are the ones whose old value is given up.

`VTableHookMngr_proofs`. A hook keeps one stack for all its calls, and calls of
different hooks interleave. `OwnPlace` gives each call its place: the number of
calls of that function up to it, shifted by what superceded calls have left
(`lost`). `StacksAreCounted` says that nothing else is there, `OwnParams` that a
call finds its own at its place, and `SpoiledBelow` that what was left behind
lies above the places of all calls around it, so that these are the ones that
find something else.

`ClientEvents_proofs`. The invariant has a half for players and one for
commands; only the change of map touches both. For players it adds that an
event is about a client its handler can find (`EventsFitClients`), that the
engine knows no ID for a free slot, and that there is room for the one who
connects. The authorization check is a recursive function over the queue; that
it leaves a queue, and no longer one, is proved by the least position at which
it would not, as the library has no other induction that can be cited. For commands,
`WaysOfLines` says who has heard of a line before each command of the loop.

`PluginMngr_proofs`. Three stacks have to agree: the plugin code under way, the
natives SPMod takes to be running, and for each native the parameters given to
it. `StacksAgree` says where a call finds itself in the other two: at the number
of native calls (`Under`), or of calls of the same native, up to it. That names
are unambiguous rests on `TablesAgree` -- what a plugin's table leads to is what
is registered -- and that code under way is that of loaded plugins
(`CallsAreOfPlugins`). `NothingOutlivesItsLibrary` rests on `LibrariesAreOpen` -- an interface
belongs to an open library that registered it when it was queried or has
started, or to one in `Hasty` -- and on `NothingWhenOff`: from the clearing on,
managers hold only what `SPMod_End()` puts there, and no plugin runs.

`MenuMngr_proofs`. The properties are proved with what holds at every point at
which plugin code runs. Who holds a menu is in the game or is being closed by
the oldest call (`MenusAreHeld`). What a `display()` that waits shows to a player
is what he holds, and it is his only one, unless it was crossed (`DisplaysHold`);
so the slots of a menu nobody else was shown are of his page as far as they are
drawn, which are the first ones while `display()` waits and all of them afterwards
(`SlotsHold`). A screen that shows something else is about to be drawn or cleared
(`ScreensAgree`). A key is looked up while nothing else waits, and the page of
the player stays what he saw unless he is shown another (`SelectsHold`), which
gives `TurnsStay` and the action property `PagesTurn`. `destroyMenu()` has closed
its menu for the players it is past, but for one whom the call just above is
closing, and nothing below works on that menu (`DestroysHold`), so no suspended
call works on a freed one (`CallsAreLive`). As a step of the code is several
changes in a row -- to turn a page is to leave the handler and to begin a
`display()` -- the invariant is stated as a predicate of five values, and each
change is shown to keep it by itself.

`MenuMngr_proofs`, the pages. A page without hidden items has as many free slots
as it has rows without a static item (`FreeSlots`), so that page p begins at item
`First(p)`. `DrawnInOrder` and `FilledTo` say which items the page being drawn
holds when `display()` is at a slot: those from its first on, one for each free
slot up to there, which is proved by counting the free slots below it.
`PagesDivide` says that each page drawn before holds its share and that the shares
divide the items, `KeysMatch` that a key offered so far is that of an enabled
item drawn, or of a navigation item whose page exists. It is inductive only with
its part that Back is drawn above the first page alone.
A page of more items than rows leaves no slots to the navigation items, hence
`PerPage \subseteq 0..Rows`.

`MenuMngr_proofs`, the text. While the loop of `ShowMenu()` runs, what is left and
what the views have covered make up the text or its first `MaxMenu` bytes
(`LoopIsInside`), so that the subtraction in `Left`, of unsigned numbers, does not
wrap around -- until a text above the limit comes to its last view, which goes to
the end of the text. More is taken off then than was left, the views that follow
are empty, and what is left stays above zero (`LoopIsLost`).

`MenuMngr_proofs`, the formatting. `Reversed` and `Pow10` are recursive functions
on the numbers, and nothing is known of a recursive definition before there is a
function that satisfies it. `RecursionWorks` says that there is one, for any
values, for a step that leads to a smaller number; as the library has no
induction that can be cited, it is proved by the least number for which no
approximation exists. With that, each conversion is text, or bytes from in front of
the array for digits, and no longer than the room it is given, but for a `%c` that
is crowded out; the terminator then comes at the end or in the last byte.
`WholeCharacters` is not inductive. What is, is that only an array that is full
ends in the middle of a character (`CutAtTheEnd`), and that no byte before that
continues anything but its own character (`Begun`): the last character that
begins is then the only one that can lack bytes, and it is the one
`trimMultiByteChar()` looks at.
`FormatsAsC` is inductive once each directive is what C writes if that fits
(`WrittenAsC`). The code writes digits, zeros and sign backwards into one array
and pads while it copies; C is stated as a field around a prefix and digits. They
are shown to be the same by the lemmas on text backwards (`ReverseJoin`), on how
many zeros are left when a sign takes the place of one (`SignedIs`), and on the
rounding, which the code does on the fraction alone and C on the whole float
(`RoundsAsC`): below a power of ten above 1, which is even, the last digit of the
fraction decides a half as that of the whole would.

Only model-checked: liveness (`DueIsServed`, `PlainDisplayEnds`, `MenuIsSent`),
which is out of the prover's reach. Of `MenuIsSent` the part that is safety is
proved: while more is announced the views have not covered the text
(`PartsReachTheEnd`), so the rest shrinks. Every invariant and every other property that a passing run
checks is stated by a theorem. What the recursive functions compute, digit for
digit, is not proved: the same digits are on both sides of `FormatsAsC`, and TLC
compares numbers with their digits only in the small instance.

## Not modelled

The parameter list of forwards (types, copy back, string flags; it is counted as
one parameter, and a forward that a plugin registers under a default name is taken
to have the list of the default one), a handle that is kept when somebody else
removes its forward, that a single forward of a default name may hide the global
one from `getForward()`, item texts and titles, item removal while a menu is
displayed, menu timeouts (`menus.inc:103`), the `params` of the native that the
lambda of `TimerCtor` captures as a pointer and reads when the timer runs, long
after the call (`TimerNatives.cpp:41`; what it passes to the callback is data here),
the handle tables of menus, forwards and message hooks, the receiver and origin of messages and
the types of their parameters, `SetMsgArg` outside handlers, and that beginning a
ShowMenu message closes the player's menu, whose exit handler may send messages
while `ignoreHooks`, a global, already holds the choice of the first. Of floats,
NaN and infinity. Of players,
the getters of indices and edicts; of commands, flags and information strings; of
virtual table hooks, the parameters other than the float and the game's classes
themselves. Attaching to Metamod, reading the configuration, logging, the
wrappers of the engine's tables and the natives for floats hold no state of their
own. What a dangling pointer reads is not modelled, only that it is reached.

## Plan

1. Done: handle tables, forwards, timers, menus, players, messages, commands,
   cvars, virtual table hooks, extensions, plugins and natives, text.
2. Done: proofs about handle tables, timers, forwards, messages, cvars, virtual
   table hooks, clients and their commands, plugins and natives, menus, their
   pages and their text, and formatting.
3. Left to TLC: liveness.
