------------------------------- MODULE TextOut --------------------------------
(***************************************************************************)
(* Text that plugins send: formatString() of PrintfImpl.cpp builds it in   *)
(* an array of the native, and PrintToServer(), ServerCmd() or             *)
(* Player.SendMsg() sends it, the last through Player::sendMsg() and       *)
(* Utils::sendTextMsg(); Utils::ShowMenu() sends the text of a menu in     *)
(* parts (MenuText); natives that answer text copy it with                 *)
(* Utils::strCopy() or StringToLocal().                                    *)
(*                                                                         *)
(* A format string is read one item at a time: an ordinary byte or a       *)
(* complete directive.  `expected' is what C would have written so far.    *)
(* Where a `%' ends it, what lies behind its NUL is read on as if it were   *)
(* part of it: more items.                                                 *)
(***************************************************************************)
EXTENDS PrintfImpl, MenuText

CONSTANTS
  Size,          \* buffer_len: the native's array without room for what it adds
  Bytes,         \* ordinary bytes of format strings
  Directives,    \* directives with their arguments, by the kind of argument
  MaxRead,       \* bound on the items of a format string that are read
  MaxNumbers,    \* bound on how many may come before a number
  Sizes,         \* sizes of the arrays of plugins
  ConsoleLimit   \* consoleBytesLimit

ASSUME TextSizes ==
  /\ Size \in Nat \ {0} /\ MaxRead \in Nat /\ MaxNumbers \in Nat
  /\ ConsoleLimit \in Nat /\ ConsoleLimit < Size - 1   \* 125 and 191
  /\ Sizes \subseteq Nat \ {0}

ASSUME FormatStrings ==
  /\ Bytes \subseteq Byte
  /\ \A kind \in DOMAIN Directives : \A d \in Directives[kind] : IsDirective(d)

VARIABLES
  stage,     \* what the native is doing
  read,      \* how many items of the format string have been read
  text,      \* the array up to idx, or what formatString() answers
  reach,     \* history: the number of bytes up to the last that was written
  expected,  \* history: what C would have written
  exempt,    \* history: was a directive read that differs from C's?
  cut,       \* history: did something else than the end of the array cut characters?
  crowded,   \* history: did padding leave a character of `%c' no room?
  sent       \* the text that has been sent, and to where

outVars == <<stage, read, text, reach, expected, exempt, cut, crowded, sent, textVars>>
historyVars == <<expected, exempt, cut, crowded>>
formatVars == <<read, text, reach, historyVars>>

Dest == {"console", "notify", "chat", "center", "radio"}

WriteInit ==
  /\ stage = "format" /\ read = 0 /\ text = <<>> /\ reach = 0
  /\ expected = <<>> /\ exempt = FALSE /\ cut = FALSE /\ crowded = FALSE
  /\ sent = [to |-> "nobody", text |-> <<>>] /\ TextInit

----------------------------------------------------------------------------
(* formatString().                                                         *)

\* Directives that are known not to be those of C (see README.md): prefixes;
\* precisions with other flags or below zero; a sign in front of a number that
\* fills its width as it is; floats that are too large; -0.0; and unknown ones.
FillsWidth(d, length) == length = d.width

Differs(d) ==
  LET flags == FlagsOf(d)
      plus == flags \cap {"plus", "space"} # {} IN
  \/ d.spec \in {"d"} \cup Unsigned /\
       \/ "hash" \in d.flags
       \/ d.prec # NoPrec /\ (d.prec < 0 \/ flags \cap {"zero", "left"} # {})
  \/ d.spec = "d" /\ (plus \/ d.arg < 0) /\
       FillsWidth(d, Len(NtoaDigits(Max({d.arg, -d.arg}), 10, FALSE, {}, d.prec, 0)))
  \/ d.spec = "f" /\
       \/ d.arg.whole >= Threshold \/ d.prec \notin 0..9 \cup {NoPrec}
       \/ d.arg.negative /\ d.arg.whole = 0 /\ d.arg.eighths = 0
       \/ (plus \/ d.arg.negative) /\
            FillsWidth(d, Len(Ftoa([d.arg EXCEPT !.negative = FALSE], {}, d.prec, 0, NtoaSize)))
  \/ d.spec = "other"

\* Characters are cut by a plugin that asks for it, and by bytes from outside the
\* array for digits, which are none.
Cuts(d) ==
  \/ d.spec = "s" /\ d.prec # NoPrec
  \/ d.spec = "c"
  \/ d.spec = "d" /\ LET buf == NtoaDigits(Max({d.arg, -d.arg}), 10, FALSE, FlagsOf(d), Precision(d.prec), d.width)
                     IN GivesUpNone(buf, d.arg < 0, FlagsOf(d), d.width)

\* The character of `%c' goes behind padding that has filled the array.
Crowds(d, maxlen) == d.spec = "c" /\ "left" \notin d.flags /\ d.width > maxlen

\* The loop runs while there is room, idx < buffer_len.
Room == stage = "format" /\ read < MaxRead /\ Len(text) < Size

PutByte(byte) ==
  /\ Room
  /\ read' = read + 1
  /\ text' = Append(text, byte) /\ reach' = Len(text')
  /\ expected' = Append(expected, byte)
  /\ UNCHANGED <<stage, exempt, cut, crowded, sent, textVars>>

PutDirective(d) ==
  /\ Room /\ (d.spec \notin {"s", "c", "%", "other"} => read <= MaxNumbers)
  /\ read' = read + 1
  /\ \E bytes \in Written(d, Size - Len(text)) : text' = text \o bytes
  /\ reach' = Len(text')
  /\ expected' = expected \o CWritten(d)
  /\ exempt' = (exempt \/ Differs(d))
  /\ cut' = (cut \/ Cuts(d))
  /\ crowded' = (crowded \/ Crowds(d, Size - Len(text)))
  /\ UNCHANGED <<stage, sent, textVars>>

\* checkArgs() fails: an error is reported and nothing counts as written.
MissingArgument ==
  /\ Room
  /\ text' = <<>> /\ expected' = <<>>
  /\ stage' = "formatted"
  /\ UNCHANGED <<read, reach, exempt, cut, crowded, sent, textVars>>

\* The format string or the room has come to its end.  The NUL takes the place of
\* the last byte if the array is full, and comes after the last otherwise.
Formatted ==
  /\ stage = "format"
  /\ IF Len(text) = Size
     THEN text' = [text EXCEPT ![Size] = NUL] /\ UNCHANGED reach
     ELSE reach' = Len(text) + 1 /\ UNCHANGED text
  /\ stage' = "formatted"
  /\ UNCHANGED <<read, historyVars, sent, textVars>>

----------------------------------------------------------------------------
(* Natives that send it.                                                   *)

\* The text in an array ends before its first NUL.
CString(bytes) ==
  LET ends == {k \in DOMAIN bytes : bytes[k] = NUL}
  IN IF ends = {} THEN bytes ELSE SubSeq(bytes, 1, Min(ends) - 1)

\* The native writes at idx itself, where the last of `added' is a NUL.
Ended(added) ==
  /\ reach' = IF reach < Len(text) + added THEN Len(text) + added ELSE reach
  /\ UNCHANGED <<read, text, historyVars, textVars>>

\* PrintToServer() and ServerCmd(): a line feed and NUL.
PrintToServer ==
  /\ stage = "formatted"
  /\ sent' = [to |-> "server", text |-> CString(Append(text, "\n"))]
  /\ stage' = "done"
  /\ Ended(2)

\* Utils::strCopy() and StringToLocal() leave what the plugin's array holds,
\* with its end; NumToString() and RealToString() answer the whole length.
CopyString(size) ==
  /\ stage = "formatted"
  /\ sent' = [to |-> "plugin", text |-> Upto(CString(text), size - 1)]
  /\ stage' = "done"
  /\ UNCHANGED <<formatVars, textVars>>

NumToString(n, size) ==
  /\ stage = "format" /\ read = 0
  /\ sent' = [to |-> "plugin",
              text |-> Upto((IF n < 0 THEN <<"-">> ELSE <<>>)
                              \o Reverse(Reversed(Max({n, -n}), 10, Lower)), size - 1)]
  /\ stage' = "done"
  /\ UNCHANGED <<formatVars, textVars>>

\* The first byte of a character says how many bytes it has; others begin
\* with the bits 10.
Follows(byte) == byte = "80"
BytesIn(byte) ==
  CASE byte = "C0" -> 2 [] byte = "E0" -> 3 [] byte = "F0" -> 4 [] OTHER -> 1

TrimmedShort(str) ==                 \* mutant: characters of 3 bytes take 2
  LET pos == Max({k \in DOMAIN str : ~Follows(str[k])} \cup {0})
  IN IF pos = 0 \/ Len(str) - pos + 1 >= Atmost(2, BytesIn(str[pos])) THEN str
     ELSE SubSeq(str, 1, pos - 1)

\* trimMultiByteChar(): the last character goes if it is not complete.
Trimmed(str) ==
  LET pos == Max({k \in DOMAIN str : ~Follows(str[k])} \cup {0})
  IN IF pos = 0 \/ Len(str) - pos + 1 >= BytesIn(str[pos]) THEN str
     ELSE SubSeq(str, 1, pos - 1)

\* Player::sendMsg() to a player in game: console text that is too long is
\* trimmed, and ends in one or two line feeds.
Message(str, dest, cstrike) ==
  LET line == IF cstrike /\ dest = "center"
              THEN [k \in DOMAIN str |-> IF str[k] = "\n" THEN "\r" ELSE str[k]] ELSE str
      whole == IF Len(str) > ConsoleLimit /\ dest \in {"notify", "console"}
               THEN Trimmed(line) ELSE line
  IN whole \o (IF ~cstrike \/ dest \in {"notify", "console"} THEN <<"\n", "\n">> ELSE <<"\n">>)

\* Only Counter-Strike has the radio; sendTextMsg() writes the rest, all of it
\* whatever its maxLength: the view it cuts does not end in a NUL.
SendMsg(dest, cstrike) ==
  /\ stage = "formatted"
  /\ sent' = IF dest = "radio" /\ ~cstrike THEN sent
             ELSE [to |-> dest, text |-> Message(CString(text), dest, cstrike)]
  /\ stage' = "done"
  /\ Ended(1)

\* A menu is sent by ShowMenu() alone.
SendMenu(length) ==
  /\ stage = "format" /\ read = 0 /\ ShowMenu(length)
  /\ stage' = "done"
  /\ UNCHANGED <<formatVars, sent>>

SendPart == ShowPart /\ UNCHANGED <<stage, formatVars, sent>>

\* Nothing more happens in this call of a native.
Done == stage = "done" /\ ~showing /\ UNCHANGED outVars

WriteNext ==
  \/ \E byte \in Bytes : PutByte(byte)
  \/ \E kind \in DOMAIN Directives : \E d \in Directives[kind] : PutDirective(d)
  \/ MissingArgument \/ Formatted \/ PrintToServer
  \/ \E dest \in Dest, cstrike \in BOOLEAN : SendMsg(dest, cstrike)
  \/ \E size \in Sizes : CopyString(size) \/ \E n \in {0, -12} : NumToString(n, size)
  \/ \E length \in MenuLengths : SendMenu(length)
  \/ SendPart \/ Done

\* The loop of ShowMenu() goes on while its condition holds.
WriteSpec == WriteInit /\ [][WriteNext]_outVars /\ WF_outVars(SendPart)

----------------------------------------------------------------------------
(* Properties.                                                             *)

\* The types of the variables: what is sent is text.
WriteTypeOK ==
  /\ stage \in {"format", "formatted", "done"} /\ read \in 0..MaxRead
  /\ text \in Seq(Byte \cup {NUL}) /\ reach \in Nat
  /\ expected \in Seq(Byte \cup {NUL})
  /\ exempt \in BOOLEAN /\ cut \in BOOLEAN /\ crowded \in BOOLEAN
  /\ sent.to \in Dest \cup {"nobody", "server", "plugin"} /\ sent.text \in Seq(Byte)

\* The array of the native: buffer_len and what the native adds to it.
Array == Size + (IF sent.to = "server" THEN 2 ELSE 1)

\* formatString() writes no byte from buffer_len on and natives none from the end
\* of their arrays on, terminators included, whatever widths, precisions, numbers
\* and texts there are: unless padding has crowded the character of a `%c' out.
\* Then one byte past the array is the worst.
StaysInBuffer ==
  /\ WriteTypeOK
  /\ stage # "done" /\ ~crowded => reach <= Size
  /\ reach <= Array + (IF crowded THEN 1 ELSE 0)

\* The arrays for digits hold a number with its zeros and its sign.
NumberFits(d) ==
  d.spec \in {"d", "f"} \cup Unsigned =>
    /\ "zero" \in d.flags /\ "left" \notin d.flags => d.width <= NtoaSize
    /\ Len(CWritten(Directive(d.spec, d.flags, 0, d.prec, d.arg))) <= NtoaSize

NumbersFit == \A kind \in DOMAIN Directives : \A d \in Directives[kind] : NumberFits(d)

\* What fits with its NUL is what C's printf() would have written.
FormatsAsC == ~exempt /\ Len(expected) < Size => text = expected

\* Bytes that follow belong to a character that began before them, and no
\* character begins inside another.
Begun(str) ==
  \A k \in DOMAIN str :
    IF Follows(str[k]) THEN \E j \in 1..k - 1 : ~Follows(str[j]) /\ k < j + BytesIn(str[j])
    ELSE \A i \in k + 1..k + BytesIn(str[k]) - 1 : i \in DOMAIN str => Follows(str[i])

\* Also the last character has all its bytes.
Whole(str) == Begun(str) /\ \A k \in DOMAIN str : k + BytesIn(str[k]) - 1 <= Len(str)

\* What is sent to the console of a player is whole characters, although
\* formatString() and its NUL cut text off in the middle of one: sendMsg() trims
\* it there.
WholeCharacters == sent.to \in {"console", "notify"} /\ ~cut => Whole(sent.text)

----------------------------------------------------------------------------
(* What holds between the steps of formatString().                         *)

\* Formats and texts that plugins give are whole characters themselves.
WholeTexts ==
  /\ ~Follows(NUL) /\ BytesIn(NUL) = 1
  /\ \A byte \in Bytes : ~Follows(byte) /\ BytesIn(byte) = 1
  /\ \A kind \in DOMAIN Directives : \A d \in Directives[kind] :
       /\ d.spec = "s" => Whole(d.arg)
       /\ d.spec = "other" => ~Follows(d.arg) /\ BytesIn(d.arg) = 1

\* Only an array that is full may end in the middle of a character.
CutAtTheEnd ==
  ~cut =>
    IF stage = "format" THEN Begun(text) /\ (Len(text) < Size => Whole(text))
    ELSE LET str == CString(text)
         IN Begun(str) /\ (Len(str) < Size - 1 => Whole(str))
=============================================================================
