------------------------------ MODULE Extensions ------------------------------
(***************************************************************************)
(* The life of the extensions (src/SPGlobal.cpp, src/ExtensionSystem.cpp)  *)
(* between the activation and the deactivation of a map (src/dllapi.cpp)   *)
(* and the unloading of SPMod (src/meta_api.cpp).                          *)
(*                                                                         *)
(* An extension is a library.  SPMod keeps pointers into libraries in two  *)
(* places: the interfaces that extensions register, and `held', everything *)
(* the managers keep for them (forward listeners, timers, commands, ...).  *)
(* Both should be empty when the libraries are closed.  What an extension  *)
(* registers before it is refused, and what SPMod_End() registers once the *)
(* managers are cleared, is not taken back: Hasty and AtEnd say who does.  *)
(***************************************************************************)
EXTENDS Naturals, Sequences, FiniteSets, SequencesExt

CONSTANTS
  Ext,               \* the files in the directory of extensions
  RegistersAtQuery,  \* those that register an interface in SPMod_Query()
  MayFail,           \* those whose SPMod_Init() may be missing or answer false
  Hasty,             \* those that register things and may be refused after it
  AtEnd,             \* managers that some SPMod_End() puts something in
  MaxHeld            \* bound on the managers that hold something

\* What the managers can hold.
Manager ==
  {"forwards", "timers", "commands", "cvars", "menus", "messages",
   "natives", "players", "vtable", "engine"}

ASSUME ExtensionsAreKnown ==
  /\ IsFiniteSet(Ext) /\ RegistersAtQuery \subseteq Ext /\ MayFail \subseteq Ext
  /\ RegistersAtQuery \cap MayFail \subseteq Hasty /\ Hasty \subseteq Ext
  /\ AtEnd \subseteq Manager \ {"natives"} /\ MaxHeld \in Nat

VARIABLES
  phase,         \* how far ServerActivatePost() or ServerDeactivatePost() is
  found,         \* files loadExts() has still to query
  handles,       \* m_extHandles: the open libraries
  started,       \* how many of them SPMod_Init() has started
  interfaces,    \* m_adaptersInterfaces and m_modulesInterfaces: whose they are
  held           \* managers that hold code or objects of extensions or plugins

extVars == <<phase, found, handles, started, interfaces, held>>

\* "off" is between two maps, and before Meta_Attach() and after Meta_Detach().
Phase ==
  {"off", "query", "init", "load", "natives", "start", "play", "end", "cleared", "ended"}

ExtInit ==
  /\ phase = "off" /\ found = {} /\ handles = <<>> /\ started = 0
  /\ interfaces = {} /\ held = {}

----------------------------------------------------------------------------
(* Loading.                                                                *)

\* ServerActivatePost() up to loadExts(); the directory may be unreadable.
Activate ==
  /\ phase = "off"
  /\ held' = held \ {"engine"}
  /\ \E files \in {Ext, {}} : found' = files
  /\ phase' = "query"
  /\ UNCHANGED <<handles, started, interfaces>>

\* The code of an extension registers its interface, listens to forwards, or
\* both, without knowing yet whether it will be loaded.
RegistersEarly(e) ==
  /\ \E who \in SUBSET ({e} \cap Hasty) : interfaces' = interfaces \cup who
  /\ \E where \in {{}} \cup {{"forwards"} : who \in {e} \cap Hasty} : held' = held \cup where

\* Extension::Extension() fails, or there is no SPMod_Query(), or it answers
\* DontLoad: the library is closed again, and what it registered stays.
Reject(e) ==
  /\ phase = "query" /\ e \in found
  /\ found' = found \ {e}
  /\ RegistersEarly(e)
  /\ UNCHANGED <<phase, handles, started>>

Query(e) ==
  /\ phase = "query" /\ e \in found
  /\ found' = found \ {e}
  /\ handles' = Append(handles, e)
  /\ interfaces' = interfaces \cup ({e} \cap RegistersAtQuery)
  /\ UNCHANGED <<phase, started, held>>

QueryDone ==
  /\ phase = "query" /\ found = {}
  /\ phase' = "init"
  /\ UNCHANGED <<found, handles, started, interfaces, held>>

\* SPMod_Init() of the next extension: it registers its interface, if it did
\* not already, and what it wants to hear of in the managers.
Start ==
  /\ phase = "init" /\ started < Len(handles)
  /\ started' = started + 1
  /\ interfaces' = interfaces \cup {handles[started + 1]}
  /\ held' = held \cup {"forwards", "vtable"}
  /\ UNCHANGED <<phase, found, handles>>

\* erase() leaves the iterator at the extension that follows.
AfterErase == started

\* SPMod_Init() is missing or answers false: the library is closed.  What it
\* registered there or in SPMod_Query() stays.
StartFails ==
  /\ phase = "init" /\ started < Len(handles)
  /\ handles[started + 1] \in MayFail
  /\ handles' = RemoveAt(handles, started + 1)
  /\ started' = AfterErase
  /\ RegistersEarly(handles[started + 1])
  /\ UNCHANGED <<phase, found>>

StartDone ==
  /\ phase = "init" /\ started = Len(handles)
  /\ phase' = "load"
  /\ UNCHANGED <<found, handles, started, interfaces, held>>

----------------------------------------------------------------------------
(* Code of an extension or a plugin uses a manager.                        *)

\* The forwards of the life cycle and, in "play", all the others.
RunsCode == phase \in {"natives", "start", "play", "end"}

Uses(manager) ==
  /\ RunsCode
  /\ held' = held \cup {manager}
  /\ Cardinality(held') <= MaxHeld
  /\ UNCHANGED <<phase, found, handles, started, interfaces>>

----------------------------------------------------------------------------
(* Unloading.                                                              *)

ClearedButHooks(managers) ==          \* mutant: the hooks of classes stay
  managers \cap {"vtable"}

\* What is left in the managers once both functions have cleared them one by
\* one: ServerDeactivatePost() leaves cvars and drops their callbacks,
\* Meta_Detach() drops the cvars too.
Cleared(managers) ==
  managers \ {"forwards", "timers", "commands", "cvars", "menus", "messages",
              "natives", "players", "vtable", "engine"}

\* FWD_PLUGIN_END: plugins run once more before anything is cleared.
End ==
  /\ phase = "play"
  /\ phase' = "end"
  /\ UNCHANGED <<found, handles, started, interfaces, held>>

\* The rest of ServerDeactivatePost() or of Meta_Detach(): first the managers
\* are cleared.
Clear ==
  /\ phase = "end"
  /\ phase' = "cleared"
  /\ held' = Cleared(held)
  /\ UNCHANGED <<found, handles, started, interfaces>>

\* unloadExts() calls SPMod_End() of every extension, which may use managers
\* and register interfaces as any other code of extensions.
EndExts ==
  /\ phase = "cleared"
  /\ phase' = "ended"
  /\ \E where \in SUBSET AtEnd : held' = held \cup where
  /\ \E who \in SUBSET ToSet(handles) : interfaces' = interfaces \cup who
  /\ UNCHANGED <<found, handles, started>>

\* Then it clears both tables of interfaces and closes the libraries.
Close ==
  /\ phase = "ended"
  /\ phase' = "off"
  /\ interfaces' = {} /\ handles' = <<>> /\ started' = 0
  /\ UNCHANGED <<found, held>>

----------------------------------------------------------------------------
(* What the documentation says of an extension that is refused.            *)

\* Whoever is asked for its plugins is loaded: the documentation of SPMod_Init()
\* says that an extension that answers false is not
\* (include/public/IInterface.hpp:202), and ServerActivatePost() asks the
\* adapters that are registered.
OnlyTheLoadedAreAsked == phase \in {"load", "natives", "start"} => interfaces \subseteq ToSet(handles)
=============================================================================
