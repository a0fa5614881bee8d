----------------------------- MODULE MCPluginMngr -----------------------------
(***************************************************************************)
(* A small instance of PluginMngr for TLC: two plugins.  The first imports *)
(* a native that nobody may register before one that somebody may; both    *)
(* import the native n1, and the second may register n1 and call itself.   *)
(***************************************************************************)
EXTENDS PluginMngr

CONSTANTS a, b, n1, n2, PrintToServer, x

Tables == a :> <<PrintToServer, n2, n1>> @@ b :> <<n1, PrintToServer>>

Calls == {<<>>, <<x>>}
=============================================================================
