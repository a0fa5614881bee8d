------------------------------ MODULE PluginMngr ------------------------------
(***************************************************************************)
(* Plugins and the natives they offer each other                           *)
(* (subprojects/sourcepawn/PluginSystem.cpp, NativeCallback.cpp, the       *)
(* Native* functions of CoreNatives.cpp, src/NativeProxy.cpp), on top of   *)
(* the life of the extension that runs them.                               *)
(*                                                                         *)
(* `stack' is the plugin code under way: functions that a forward (or a    *)
(* timer, a command, ...) runs, and functions of natives, each with what   *)
(* its caller passed.  SPMod does not see that stack: it knows the natives *)
(* under way from `current', and their parameters from `given', one stack  *)
(* for each native.                                                        *)
(***************************************************************************)
EXTENDS Extensions

CONSTANTS
  Adapter,        \* the extension that runs plugins
  File,           \* the files in the directory of plugins
  Native,         \* names of natives
  BuiltIn,        \* m_natives: those of the adapter itself
  Imports,        \* the table of natives of each plugin, in its order
  Args,           \* arguments of calls
  None,           \* no native, no plugin
  Error,          \* the error a native reports
  Undefined,      \* whatever memory holds
  Core,           \* a built-in native
  Elsewhere,      \* a plugin of another adapter
  MaxDepth,       \* bound on the length of stack
  ElsewhereCalls, \* do plugins of other adapters call natives of these?
  ExecChangesMap  \* does ServerExec() run a queued change of the map?

ASSUME AdapterIsAnExtension == Adapter \in RegistersAtQuery \ (MayFail \cup Hasty)
ASSUME PluginsAndNatives ==
  /\ IsFiniteSet(File) /\ BuiltIn \subseteq Native
  /\ Imports \in [File -> Seq(Native)] /\ \A args \in Args : Len(args) \in Nat
  /\ {None, Core, Elsewhere} \cap (File \cup Native) = {} /\ None \notin {Core, Elsewhere}
  /\ MaxDepth \in Nat /\ ElsewhereCalls \in BOOLEAN /\ ExecChangesMap \in BOOLEAN

VARIABLES
  unread,         \* files loadPlugins() has still to try
  ids,            \* m_plugins: the id of each loaded plugin
  list,           \* m_exportedPlugins
  bound,          \* what each entry of a plugin's table of natives leads to
  proxied,        \* m_proxiedNatives: whose native has the name
  pluginNatives,  \* m_pluginNatives: whose function the adapter runs for it
  stack,          \* plugin code under way
  current,        \* currentPluginNative
  given           \* m_ctx and m_params of each native

pluginVars == <<unread, ids, list, bound, proxied, pluginNatives>>
callVars == <<stack, current, given>>
vars == <<extVars, pluginVars, callVars>>

Loaded == DOMAIN ids

Init ==
  /\ ExtInit
  /\ unread = {} /\ ids = <<>> /\ list = <<>> /\ bound = <<>>
  /\ proxied = [n \in Native |-> None] /\ pluginNatives = [n \in Native |-> None]
  /\ stack = <<>> /\ current = <<>> /\ given = [n \in Native |-> <<>>]

----------------------------------------------------------------------------
(* Loading.                                                                *)

\* loadPlugins() of the adapter, if it is there; the directory may be
\* unreadable.
LoadPlugins ==
  /\ StartDone
  /\ \E files \in {File, {}} : unread' = IF Adapter \in interfaces THEN files ELSE {}
  /\ UNCHANGED <<ids, list, bound, proxied, pluginNatives, callVars>>

\* _loadPlugin() omits a file with another extension, one that is loaded, and
\* one whose Plugin cannot be constructed.
OmitPlugin(f) ==
  /\ phase = "load" /\ f \in unread
  /\ unread' = unread \ {f}
  /\ UNCHANGED <<extVars, ids, list, bound, proxied, pluginNatives, callVars>>

NextIdOfTries ==                     \* mutant: files that fail count as well
  Cardinality(File \ unread)

NextId == Cardinality(Loaded)

\* The constructor binds the built-in natives.
BoundAtLoad(f) ==
  [i \in DOMAIN Imports[f] |-> IF Imports[f][i] \in BuiltIn THEN Core ELSE None]

LoadPlugin(f) ==
  /\ phase = "load" /\ f \in unread \ Loaded
  /\ unread' = unread \ {f}
  /\ ids' = [g \in Loaded \cup {f} |-> IF g = f THEN NextId ELSE ids[g]]
  /\ list' = Append(list, f)
  /\ bound' = [g \in Loaded \cup {f} |-> IF g = f THEN BoundAtLoad(f) ELSE bound[g]]
  /\ UNCHANGED <<extVars, proxied, pluginNatives, callVars>>

\* The forward for natives follows, in which plugins register theirs.
AskForNatives ==
  /\ phase = "load" /\ unread = {}
  /\ phase' = "natives"
  /\ UNCHANGED <<found, handles, started, interfaces, held, pluginVars, callVars>>

----------------------------------------------------------------------------
(* Natives of plugins.                                                     *)

Top == stack[Len(stack)]

\* try_emplace(): the first that registers a name keeps it.
Registered(n, who) == [proxied EXCEPT ![n] = IF @ = None THEN who ELSE @]

\* NativeRegister(): the adapter's own table takes the callback if the proxy
\* did, and reports an error otherwise.
NativeRegister(n) ==
  /\ stack # <<>> /\ Top.plugin \in File
  /\ proxied' = Registered(n, Top.plugin)
  /\ pluginNatives' =
       IF proxied'[n] # proxied[n] THEN [pluginNatives EXCEPT ![n] = Top.plugin]
       ELSE pluginNatives
  /\ held' = held \cup {"natives"} /\ Cardinality(held') <= MaxHeld
  /\ UNCHANGED <<phase, found, handles, started, interfaces,
                 unread, ids, list, bound, callVars>>

\* Another adapter registers a native of its plugins.
RegisterElsewhere(n) ==
  /\ phase = "natives" /\ interfaces \ {Adapter} # {}
  /\ proxied' = Registered(n, Elsewhere)
  /\ held' = held \cup {"natives"} /\ Cardinality(held') <= MaxHeld
  /\ UNCHANGED <<phase, found, handles, started, interfaces,
                 unread, ids, list, bound, pluginNatives, callVars>>

\* addNative() for each proxied native; emplace() leaves the adapter's own.
Adopted ==
  [n \in Native |-> IF pluginNatives[n] = None THEN proxied[n] ELSE pluginNatives[n]]

\* The loop over the table of a plugin stops at the first name nobody has.
Bound(f, natives) ==
  LET missing == {i \in DOMAIN Imports[f] :
                    bound[f][i] = None /\ natives[Imports[f][i]] = None}
  IN [i \in DOMAIN Imports[f] |->
        IF bound[f][i] = None /\ \A m \in missing : i < m
        THEN natives[Imports[f][i]] ELSE bound[f][i]]

\* bindPluginsNatives(), once every plugin has been asked; then the forwards
\* that tell plugins to start.
BindPluginsNatives ==
  /\ phase = "natives" /\ stack = <<>>
  /\ pluginNatives' = IF Adapter \in interfaces THEN Adopted ELSE pluginNatives
  /\ bound' = [f \in Loaded |-> Bound(f, pluginNatives')]
  /\ phase' = "start"
  /\ UNCHANGED <<found, handles, started, interfaces, held,
                 unread, ids, list, proxied, callVars>>

\* The forwards are done: the map runs, with the hooks of ReHLDS installed.
Play ==
  /\ phase = "start" /\ stack = <<>>
  /\ phase' = "play"
  /\ UNCHANGED <<found, handles, started, interfaces, held, pluginVars, callVars>>

----------------------------------------------------------------------------
(* Calls.                                                                  *)

Frame(plugin, native, caller, args) ==
  [plugin |-> plugin, native |-> native, caller |-> caller, args |-> args]

\* A forward, a timer, a command... runs a function: called by the server, or
\* by a built-in native that the code on top has called.
RunFunction(f) ==
  /\ RunsCode /\ f \in Loaded /\ Len(stack) < MaxDepth
  /\ stack' = Append(stack, Frame(f, None, None, <<>>))
  /\ UNCHANGED <<extVars, pluginVars, current, given>>

CanCall(who, n) ==
  IF who \in File
  THEN \E i \in DOMAIN Imports[who] :
         Imports[who][i] = n /\ bound[who][i] \notin {None, Core}
  ELSE ElsewhereCalls /\ pluginNatives[n] \in File

\* NativeCallback::Invoke().  For a call from another adapter it is
\* InvokeSPModNative(), which keeps no parameters.  What plugins register is
\* assumed to be a function that can run.
Invoke(n, args) ==
  /\ stack # <<>> /\ Len(stack) < MaxDepth
  /\ CanCall(Top.plugin, n)
  /\ stack' = Append(stack, Frame(pluginNatives[n], n, Top.plugin, args))
  /\ current' = Append(current, n)
  /\ given' = IF Top.plugin = Elsewhere THEN given
              ELSE [given EXCEPT ![n] = Append(@, [ctx |-> Top.plugin, params |-> args])]
  /\ UNCHANGED <<extVars, pluginVars>>

PoppedOneOnly(kept, n) ==            \* mutant: the parameters are left
  kept

Popped(kept, n) == [kept EXCEPT ![n] = Front(@)]

\* The function on top ends, also when it ends in an error.
Return ==
  /\ stack # <<>>
  /\ stack' = Front(stack)
  /\ IF Top.native = None THEN UNCHANGED <<current, given>>
     ELSE /\ current' = Front(current)
          /\ given' = IF Top.caller = Elsewhere THEN given ELSE Popped(given, Top.native)
  /\ UNCHANGED <<extVars, pluginVars>>

\* NativeGet*(): the parameter of the native that started last, 0 being their
\* number, or an error; whatever memory holds if it was given none.
NativeGet(i) ==
  IF current = <<>> THEN Error
  ELSE IF given[Last(current)] = <<>> THEN Undefined
  ELSE LET params == Last(given[Last(current)]).params
       IN IF i > Len(params) THEN Error
          ELSE IF i = 0 THEN Len(params) ELSE params[i]

\* NativeSet*(): whose memory it writes to.
NativeSet ==
  IF given[Last(current)] = <<>> THEN Undefined ELSE Last(given[Last(current)]).ctx

\* The plugin_id that Invoke() passes to the function.
PluginId(frame) == IF frame.caller = Elsewhere THEN -1 ELSE ids[frame.caller]

UsesManager ==
  /\ \E m \in Manager : stack # <<>> /\ Uses(m)
  /\ UNCHANGED <<pluginVars, callVars>>

----------------------------------------------------------------------------
(* Unloading.                                                              *)

\* ServerExec() runs the commands that are queued at once; one of them may
\* change the map under the plugin that called it.
MapMayEnd == stack = <<>> \/ ExecChangesMap

MapEnds ==
  /\ End /\ MapMayEnd
  /\ UNCHANGED <<pluginVars, callVars>>

\* unloadPlugins() and clearNatives(); Meta_Detach() leaves the plugins to the
\* adapter, in which nothing runs any more.
MapCleared ==
  /\ Clear /\ MapMayEnd
  /\ ids' = <<>> /\ list' = <<>> /\ bound' = <<>>
  /\ proxied' = [n \in Native |-> None] /\ pluginNatives' = [n \in Native |-> None]
  /\ UNCHANGED <<unread, callVars>>

UnloadExts == (EndExts \/ Close) /\ UNCHANGED <<pluginVars, callVars>>

LoadExts ==
  /\ \/ Activate \/ QueryDone \/ Start \/ StartFails
     \/ \E e \in Ext : Reject(e) \/ Query(e)
  /\ UNCHANGED <<pluginVars, callVars>>

Next ==
  \/ LoadExts
  \/ LoadPlugins \/ AskForNatives \/ BindPluginsNatives \/ Play
  \/ \E f \in File : OmitPlugin(f) \/ LoadPlugin(f) \/ RunFunction(f)
  \/ \E n \in Native : NativeRegister(n) \/ RegisterElsewhere(n)
  \/ \E n \in Native, args \in Args : Invoke(n, args)
  \/ Return \/ UsesManager
  \/ MapEnds \/ MapCleared \/ UnloadExts

Spec == Init /\ [][Next]_vars

----------------------------------------------------------------------------
(* Properties.                                                             *)

\* Functions under way, and what a native keeps of its call.
Call ==
  [plugin : File \cup {Elsewhere}, native : Native \cup {None},
   caller : File \cup {None, Elsewhere}, args : Args \cup {<<>>}]

Given == [ctx : File, params : Args]

\* The types of the variables.
TypeOK ==
  /\ phase \in Phase /\ found \subseteq Ext /\ handles \in Seq(Ext)
  /\ started \in 0..Len(handles) /\ interfaces \subseteq Ext /\ held \subseteq Manager
  /\ unread \subseteq File /\ Loaded \subseteq File /\ list \in Seq(File)
  /\ ids \in [Loaded -> Nat] /\ DOMAIN bound = Loaded
  /\ \A f \in Loaded : bound[f] \in [DOMAIN Imports[f] -> File \cup {None, Core, Elsewhere}]
  /\ proxied \in [Native -> File \cup {None, Elsewhere}]
  /\ pluginNatives \in [Native -> File \cup {None, Elsewhere}]
  /\ stack \in Seq(Call) /\ current \in Seq(Native) /\ given \in [Native -> Seq(Given)]

\* Pointers into libraries do not outlive them, but for two kinds that the code
\* lets: an interface of a library that is not open is one which an extension
\* registered before it was refused, and not even that is left at the end of
\* the map; and what a manager holds then is what some SPMod_End() put there,
\* until the next map ends.  No plugin is in the middle of a call when the
\* libraries close (unloadExts(), and the clearing before it in
\* ServerDeactivatePost() and Meta_Detach()).
NothingOutlivesItsLibrary ==
  /\ interfaces \subseteq ToSet(handles) \cup Hasty
  /\ phase \in {"ended", "off"} =>
       held \subseteq AtEnd /\ stack = <<>> /\ \A n \in Native : proxied[n] = None
  /\ phase = "off" => interfaces = {}

\* What the function of a native gets and sets are the arguments of the call
\* that started it, whatever natives it and others have called since, the same
\* native among them; outside of any native there is nothing to get
\* (currentPluginNative, m_params and m_ctx).
NativesSeeTheirCall ==
  /\ (\A k \in DOMAIN stack : stack[k].native = None) => NativeGet(0) = Error
  /\ stack # <<>> /\ Top.native # None /\ Top.plugin \in File =>
       /\ NativeGet(0) = Len(Top.args)
       /\ \A i \in 1..Len(Top.args) : NativeGet(i) = Top.args[i]
       /\ NativeGet(Len(Top.args) + 1) = Error
       /\ NativeSet = Top.caller

\* A name means the same native to all plugins, and the built-in one where
\* there is one: two entries for it that are bound lead to the same function,
\* the one of the first that registered the name.
NamesAreUnambiguous ==
  \A f \in Loaded : \A i \in DOMAIN Imports[f] :
    LET n == Imports[f][i] IN
    bound[f][i] \in {None, IF n \in BuiltIn THEN Core ELSE proxied[n]}

\* The id a native is told is that of its caller and of no other plugin, and
\* the list of plugins has them in the order of their ids: getPlugin() of an id
\* and the list agree.
IdsFindPlugins ==
  /\ \A f \in Loaded : ids[f] < Len(list) /\ list[ids[f] + 1] = f
  /\ Len(list) = Cardinality(Loaded)
  /\ \A k \in DOMAIN stack :
       stack[k].caller \in File =>
         \E f \in Loaded : ids[f] = PluginId(stack[k]) /\ f = stack[k].caller

\* Names and ids stand for one native and one plugin each, whatever is loaded,
\* fails to load and is registered in whatever order.
NamesAndIdsAreUnambiguous == TypeOK /\ NamesAreUnambiguous /\ IdsFindPlugins

----------------------------------------------------------------------------
(* What the proofs rest on.                                                *)

\* A library is open once and not read again, and an interface is that of an
\* open library which, while libraries start, registered it when it was queried
\* or has started, unless it is of one that registers too early.
LibrariesAreOpen ==
  /\ \A j, k \in DOMAIN handles : handles[j] = handles[k] => j = k
  /\ \A k \in DOMAIN handles : handles[k] \notin found
  /\ \A e \in interfaces \ Hasty :
       \E k \in DOMAIN handles :
         /\ handles[k] = e
         /\ phase \in {"query", "init"} => e \in RegistersAtQuery \/ k <= started

\* Once the managers are cleared there is nothing, but for what SPMod_End()
\* registers, and no library between two maps.
NothingWhenOff ==
  /\ phase = "off" => handles = <<>> /\ interfaces = {}
  /\ phase \in {"cleared", "ended", "off"} =>
       held \subseteq AtEnd /\ Loaded = {} /\ list = <<>> /\ \A n \in Native : proxied[n] = None
  /\ stack # <<>> => RunsCode

\* What an entry of a table leads to, and whose natives there are.
TablesAgree ==
  /\ \A n \in Native : pluginNatives[n] \in {None, proxied[n]}
  /\ \A n \in Native : proxied[n] \in Loaded \cup {None, Elsewhere}
  /\ \A f \in Loaded : \A i \in DOMAIN Imports[f] :
       LET n == Imports[f][i] IN
       bound[f][i] \in IF n \in BuiltIn THEN {Core} ELSE {None, pluginNatives[n]}

\* The code under way is that of loaded plugins.
CallsAreOfPlugins ==
  \A k \in DOMAIN stack :
    /\ stack[k].plugin \in Loaded \cup {Elsewhere}
    /\ IF stack[k].native = None THEN stack[k].caller = None ELSE stack[k].caller \in Loaded

\* How many of the k oldest functions on a stack are those of natives in ns.
Under(frames, ns, k) == Cardinality({j \in 1..k : frames[j].native \in ns})

\* The three stacks of the natives are the code under way, each in its own way.
StacksAgree ==
  /\ Len(current) = Under(stack, Native, Len(stack))
  /\ \A k \in DOMAIN stack :
       stack[k].native # None => current[Under(stack, Native, k)] = stack[k].native
  /\ \A n \in Native :
       /\ Len(given[n]) = Under(stack, {n}, Len(stack))
       /\ \A k \in DOMAIN stack :
            stack[k].native = n =>
              given[n][Under(stack, {n}, k)] = [ctx |-> stack[k].caller, params |-> stack[k].args]

IInv ==
  /\ NamesAndIdsAreUnambiguous
  /\ LibrariesAreOpen /\ NothingWhenOff /\ TablesAgree /\ CallsAreOfPlugins /\ StacksAgree
=============================================================================
