------------------------------- MODULE MenuText -------------------------------
(***************************************************************************)
(* Utils::ShowMenu() (src/UtilsSystem.cpp): the text of a menu is sent in  *)
(* parts, as a message of the engine takes no more than maxStringToSend    *)
(* bytes of it.  Text is a length, and a part the positions it begins and  *)
(* ends at.                                                                *)
(***************************************************************************)
EXTENDS Integers

CONSTANTS
  Chunk,        \* maxStringToSend
  MaxMenu,      \* maxMenuLength
  MenuLengths,  \* lengths of the texts of menus
  Wrap          \* 2^32, where a std::size_t wraps around

ASSUME MenuSizes ==
  /\ Chunk \in Nat \ {0} /\ MaxMenu \in Nat /\ MenuLengths \subseteq Nat
  /\ Wrap \in Nat /\ MaxMenu < Wrap /\ \A length \in MenuLengths : length < Wrap

VARIABLES
  showing,   \* is the loop running?
  view,      \* the text: its length, currentPos, menuLength, buffer.length()
  part       \* the last message sent for it

textVars == <<showing, view, part>>

NoText == [length |-> 0, pos |-> 0, left |-> 0, size |-> 0]
NoPart == [from |-> 0, upto |-> 0, written |-> 0, more |-> FALSE]

TextInit == showing = FALSE /\ view = NoText /\ part = NoPart

\* What ShowMenu() means to send of a text.
ToSend(length) == IF length > MaxMenu THEN MaxMenu ELSE length

SizeToTheEnd(length, pos, left) ==   \* mutant: the parts that follow are not cut
  length - pos

\* The length of the view of the text from pos on, when left bytes are left.
ViewSize(length, pos, left) ==
  IF left > Chunk /\ Chunk < length - pos THEN Chunk ELSE length - pos

ShowMenu(length) ==
  /\ ~showing
  /\ LET left == ToSend(length) IN
     view' = [length |-> length, pos |-> 0, left |-> left, size |-> ViewSize(length, 0, left)]
  /\ part' = NoPart
  /\ showing' = TRUE

LeftAfterFull(v) ==                  \* mutant: every part counts as a full one
  (v.left + Wrap - Chunk) % Wrap

Left(v) == (v.left + Wrap - v.size) % Wrap

\* A message of the loop.  WRITE_STRING() is given the start of the view and
\* writes all that follows.
ShowPart ==
  /\ showing
  /\ LET left == Left(view)
         pos == view.pos + view.size IN
     /\ part' = [from |-> view.pos, upto |-> pos, written |-> view.length - view.pos,
                 more |-> left > 0]
     /\ view' = [view EXCEPT !.left = left, !.pos = pos, !.size = ViewSize(view.length, pos, left)]
     /\ showing' = (left > 0)

TextNext == ShowPart \/ \E length \in MenuLengths : ShowMenu(length)

\* The loop goes on while its condition holds.
TextSpec == TextInit /\ [][TextNext]_textVars /\ WF_textVars(ShowPart)

----------------------------------------------------------------------------
(* Properties.                                                             *)

\* The types of the variables.
TextTypeOK ==
  /\ showing \in BOOLEAN
  /\ view \in [length : Nat, pos : Nat, left : 0..Wrap - 1, size : Nat]
  /\ part \in [from : Nat, upto : Nat, written : Nat, more : BOOLEAN]

\* Every message of a menu takes the text from the start of its view to the very
\* end: what has been sent is sent again, and all messages but the last are longer
\* than maxStringToSend.  Of a text within maxMenuLength the last message is the
\* one that announces nothing more and the only one that is not too long, and the
\* views have then covered the text.  A longer text is never announced complete
\* and the loop does not come to its end.
PartsReachTheEnd ==
  /\ TextTypeOK
  /\ part # NoPart =>
       /\ part.from + part.written = view.length
       /\ IF view.length <= MaxMenu
          THEN /\ part.more <=> part.written > Chunk
               /\ showing <=> part.upto < view.length
          ELSE part.more /\ showing

\* Every menu within maxMenuLength is sent in the end: the length that is left
\* comes down to zero.
MenuIsSent == showing /\ view.length <= MaxMenu ~> ~showing

----------------------------------------------------------------------------
(* What holds between the steps of the loop.                               *)

\* The loop is inside what it may send: what is left and what the views have
\* covered make up the text or its first maxMenuLength bytes.
LoopIsInside == view.pos + view.left = ToSend(view.length)

\* The last view of a text that is too long went to its end: more was taken off
\* than was left, and the next views are empty.
LoopIsLost == view.length > MaxMenu /\ view.pos = view.length /\ view.left > 0

ViewsFollow ==
  showing =>
    /\ LoopIsInside \/ LoopIsLost
    /\ view.length < Wrap /\ view.size = ViewSize(view.length, view.pos, view.left)
    /\ part # NoPart => view.left > 0

\* The last part ends where the view begins.
PartEndsThere == part # NoPart => part.upto = view.pos

TextIInv == ViewsFollow /\ PartEndsThere /\ PartsReachTheEnd
=============================================================================
