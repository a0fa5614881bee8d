------------------------------ MODULE CmdMngr ------------------------------
(***************************************************************************)
(* Console commands (src/CmdSystem.cpp), the handler of the engine that    *)
(* runs the commands of clients (ClientCommand of src/dllapi.cpp) and the  *)
(* natives of CmdNatives.cpp.                                              *)
(*                                                                         *)
(* A typed line is its first word and its first argument.  A command is    *)
(* either one name or a regular expression, which is the set of the names  *)
(* it is found in.  `line' is the command on its way through the handler:  *)
(* that of a client goes through the forward FWD_PLAYER_COMMAND first and  *)
(* then through the loop over m_clientCommands, that of the server through *)
(* the loop over m_serverCommands, one function at a time.                 *)
(***************************************************************************)
EXTENDS Naturals, Sequences, FiniteSets, SequencesExt

CONSTANTS
  Client,        \* who may type
  Typed,         \* what is typed: records [word, arg]
  Names,         \* names commands are registered for
  Regex,         \* regular expressions: sets of the names they are found in
  MaxCommands,   \* bound on both lists together
  SafeFunctions  \* do the functions of server commands do without a player?

ASSUME CommandBounds == MaxCommands \in Nat /\ SafeFunctions \in BOOLEAN

VARIABLES
  clientCommands,  \* m_clientCommands, in the order of registration
  serverCommands,  \* m_serverCommands
  line             \* the command in progress

cmdVars == <<clientCommands, serverCommands, line>>
listVars == <<clientCommands, serverCommands>>

ReturnValue == {"Ignored", "Handled", "Override", "Stop"}

\* What Execute() leaves in retValue when the function fails: anything.
Answer == ReturnValue \cup {"garbage"}

NoLine == [stage |-> "none"]

\* The name a line is compared by: chat lines of clients are told apart by
\* what is said.
CmdName(l) ==
  IF l.by # 0 /\ l.typed.word \in {"say", "say_team"}
  THEN <<l.typed.word, l.typed.arg>> ELSE <<l.typed.word>>

Pattern == [regex: {FALSE}, names: {{name} : name \in Names}] \cup [regex: {TRUE}, names: Regex]

Matched(c, l) == CmdName(l) \in c.names

CmdInit == clientCommands = <<>> /\ serverCommands = <<>> /\ line = NoLine

----------------------------------------------------------------------------
(* Registration: the constructor Command.Command.                          *)

\* The loop over the list holds iterators and references into it while plugin
\* code runs; the functions of commands are assumed to register none.
MayRegister == line.stage \in {"none", "forward", "menu"}

MayGrow == Len(clientCommands) + Len(serverCommands) < MaxCommands

RegisterClient(c) ==
  /\ MayRegister /\ MayGrow
  /\ clientCommands' = Append(clientCommands, c)
  /\ UNCHANGED <<serverCommands, line>>

\* A regular expression is an error; the engine is told the name, too.
RegisterServer(c) ==
  /\ MayRegister /\ MayGrow /\ ~c.regex
  /\ serverCommands' = Append(serverCommands, c)
  /\ UNCHANGED <<clientCommands, line>>

ClearCommands ==
  /\ clientCommands' = <<>> /\ serverCommands' = <<>>
  /\ UNCHANGED line

----------------------------------------------------------------------------
(* ClientCommand() and PluginSrvCommand().                                 *)

\* The commands whose functions the line is for.
List(l) == IF l.by = 0 THEN serverCommands ELSE clientCommands

\* The next command of the list that matches, 0 if there is none.
NextMatch(k) ==
  LET later == {n \in DOMAIN List(line) : n > k /\ Matched(List(line)[n], line)}
  IN  IF later = {} THEN 0 ELSE CHOOSE n \in later : \A other \in later : n <= other

NewLine(i, t, stage) ==
  [stage |-> stage, by |-> i, typed |-> t, at |-> 0, result |-> "IGNORED", heard |-> <<>>]

ClientTypes(i, t) ==
  /\ line = NoLine
  /\ line' = NewLine(i, t, "forward")
  /\ UNCHANGED listVars

\* The engine has a command with this name: it was registered in this map or
\* in an earlier one, where no function may be left.
ServerTypes(t) ==
  /\ line = NoLine
  /\ line' = NewLine(0, t, "server")
  /\ UNCHANGED listVars

Ended(result) == [line EXCEPT !.stage = "done", !.result = result]

At(k, result) ==
  IF k = 0 THEN Ended(result) ELSE [line EXCEPT !.stage = "loop", !.at = k, !.result = result]

\* FWD_PLAYER_COMMAND has run; only Stop keeps the command from going on.
ForwardAnswers(r) ==
  /\ line.stage = "forward"
  /\ line' = IF r = "Stop" THEN Ended("SUPERCEDE") ELSE
             IF line.typed.word = "menuselect" THEN [line EXCEPT !.stage = "menu"]
             ELSE At(NextMatch(0), "IGNORED")
  /\ UNCHANGED listVars

\* MenuMngr::ClientCommand(), which takes the key or does not.
MenuAnswers(result) ==
  /\ line.stage = "menu"
  /\ line' = Ended(result)
  /\ UNCHANGED listVars

NewMetaResult(r) == IF r \in {"Stop", "Handled"} THEN "SUPERCEDE" ELSE line.result

AfterRunsOn(r) ==                      \* mutant: Stop does not break
  NextMatch(line.at)

After(r) == IF r = "Stop" /\ line.by # 0 THEN 0 ELSE NextMatch(line.at)

\* PluginSrvCommand() compares the names and takes no answers.
ServerStarts ==
  /\ line.stage = "server"
  /\ line' = At(NextMatch(0), "IGNORED")
  /\ UNCHANGED listVars

\* A function returns, or was not runnable and the lambda answered Ignored.
CallbackReturns(r) ==
  /\ line.stage = "loop"
  /\ line.by = 0 => SafeFunctions
  /\ line' = [At(After(r), IF line.by = 0 THEN "IGNORED" ELSE NewMetaResult(r)) EXCEPT
                !.heard = Append(@, [cmd |-> line.at, answer |-> r])]
  /\ UNCHANGED listVars

\* The function of a server command gets no player.  The lambda of CommandCtor
\* follows the null pointer to tell the plugin an index.
FunctionCrashes ==
  /\ line.stage = "loop" /\ line.by = 0 /\ ~SafeFunctions
  /\ line' = [line EXCEPT !.stage = "crashed"]
  /\ UNCHANGED listVars

HandlerReturns ==
  /\ line.stage = "done"
  /\ line' = NoLine
  /\ UNCHANGED listVars

CmdHandlerStep ==
  \/ \E r \in ReturnValue : ForwardAnswers(r)
  \/ \E r \in Answer : CallbackReturns(r)
  \/ \E m \in {"IGNORED", "SUPERCEDE"} : MenuAnswers(m)
  \/ ServerStarts \/ FunctionCrashes \/ HandlerReturns

----------------------------------------------------------------------------
(* Properties.                                                             *)

\* A function that has heard of the line, and a line on its way.
Heard == [cmd: Nat, answer: Answer]

Line == [stage: {"forward", "menu", "server", "loop", "done", "crashed"}, by: Client \cup {0}, typed: Typed,
         at: Nat, result: {"IGNORED", "SUPERCEDE"}, heard: Seq(Heard)]

\* Types and bounds of the variables.
CmdTypeOK ==
  /\ clientCommands \in Seq(Pattern) /\ serverCommands \in Seq(Pattern)
  /\ Len(clientCommands) <= MaxCommands /\ Len(serverCommands) <= MaxCommands
  /\ line \in Line \cup {NoLine}
  /\ line.stage = "loop" => line.at \in DOMAIN List(line)

\* The forward or the menu took the line before any function could hear of it.
NotForFunctions ==
  /\ line.by # 0 /\ line.heard = <<>>
  /\ line.result = "SUPERCEDE" \/ line.typed.word = "menuselect"

Matching == {n \in DOMAIN List(line) : CmdName(line) \in List(line)[n].names}

\* The functions that hear of a line are those of the matching commands, in
\* the order of registration, none skipped and none twice, up to the first
\* that answers Stop to a client; the server's own line reaches all of them
\* (CommandMngr::ClientCommandMeta, CommandMngr::PluginSrvCommand).
HeardInOrder ==
  line.stage = "done" =>
    LET order == [k \in DOMAIN line.heard |-> line.heard[k].cmd]
        stops == {k \in DOMAIN line.heard : line.heard[k].answer = "Stop"}
    IN  /\ \A k \in DOMAIN order :
             /\ order[k] \in Matching
             /\ \A j \in DOMAIN order : j < k => order[j] < order[k]
             /\ \A n \in Matching : n < order[k] => \E j \in DOMAIN order : order[j] = n
        /\ line.by # 0 => stops \subseteq {Len(line.heard)}
        /\ \/ stops # {} /\ line.by # 0
           \/ \A n \in Matching : \E k \in DOMAIN order : order[k] = n
           \/ NotForFunctions

\* The game is kept from a line when some function wanted it, whatever others
\* answered later, and only then (CommandMngr::ClientCommandMeta); the line of
\* a player who chooses from a menu reaches no function.
KeptFromGame ==
  line.stage = "done" /\ line.by # 0 =>
    /\ line.heard # <<>> =>
         (line.result = "SUPERCEDE" <=>
            \E n \in DOMAIN line.heard : line.heard[n].answer \in {"Stop", "Handled"})
    /\ line.typed.word = "menuselect" => line.heard = <<>>

\* A line is heard by those it is for and by nobody else: the functions of the
\* matching commands in their order, and the game unless one of them wants it.
LinesAreHeard == CmdTypeOK /\ HeardInOrder /\ KeptFromGame

----------------------------------------------------------------------------
(* What the proofs rest on.                                                *)

\* The functions of the matching commands up to command `end' have heard of the
\* line and nobody else, in their order.
HeardUpTo(end) ==
  /\ \A k \in DOMAIN line.heard :
       /\ line.heard[k].cmd \in Matching /\ line.heard[k].cmd <= end
       /\ \A j \in DOMAIN line.heard : j < k => line.heard[j].cmd < line.heard[k].cmd
  /\ \A n \in Matching : n <= end => \E k \in DOMAIN line.heard : line.heard[k].cmd = n

NobodyHeard == line.heard = <<>> /\ line.result = "IGNORED"

\* A line before the loop, and between two functions.
WaysOfLines ==
  /\ line.stage \in {"forward", "menu", "server"} => NobodyHeard
  /\ line.stage = "server" <=> line # NoLine /\ line.by = 0 /\ line.stage \notin {"loop", "done", "crashed"}
  /\ line.stage = "menu" => line.typed.word = "menuselect"
  /\ line.stage = "loop" =>
       /\ line.at \in Matching /\ HeardUpTo(line.at - 1)
       /\ line.by # 0 =>
            /\ line.typed.word # "menuselect"
            /\ \A k \in DOMAIN line.heard : line.heard[k].answer # "Stop"
            /\ line.result = "SUPERCEDE" <=> \E k \in DOMAIN line.heard : line.heard[k].answer = "Handled"

CmdIInv == LinesAreHeard /\ WaysOfLines
=============================================================================
