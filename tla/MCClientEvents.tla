--------------------------- MODULE MCClientEvents ---------------------------
(* ClientEvents with three lines, of which one selects from a menu, and a   *)
(* regular expression that is found in a chat line and in another command.  *)
EXTENDS ClientEvents

TypedLines ==
  {[word |-> "say", arg |-> "rank"], [word |-> "buy", arg |-> "1"], [word |-> "menuselect", arg |-> "1"]}

CommandNames == {<<"buy">>}

Expressions == {{<<"say", "rank">>, <<"buy">>}}
=============================================================================
