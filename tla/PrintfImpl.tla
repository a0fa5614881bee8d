------------------------------ MODULE PrintfImpl ------------------------------
(***************************************************************************)
(* What one directive of a format string writes                            *)
(* (subprojects/sourcepawn/PrintfImpl.cpp), and what C's printf() writes   *)
(* for it.  Text is a sequence of bytes; digits are written last first     *)
(* into an array and copied from its end.                                  *)
(***************************************************************************)
EXTENDS Integers, Sequences, SequencesExt, FiniteSetsExt

CONSTANTS
  NtoaSize,   \* PRINTF_NTOA_BUFFER_SIZE and PRINTF_FTOA_BUFFER_SIZE
  Threshold,  \* thres_max: floats above it are not written
  NoPrec,     \* no FLAGS_PRECISION
  IntLimit,   \* 2^31: a cell is negative or below it, and an unsigned int below twice
  Byte,       \* the bytes of text
  NUL,        \* the byte that ends text
  Junk        \* the bytes that lie in front of the array for digits

ASSUME PrintfSizes ==
  /\ NtoaSize \in Nat /\ Threshold \in Nat /\ IntLimit \in Nat /\ NoPrec \notin Int
  /\ NUL \notin Byte /\ Junk \subseteq Byte \cup {NUL}

Flag == {"zero", "left", "plus", "space", "hash"}

\* A directive after its flags, width and precision have been read; a `*' takes
\* its number from an argument, and a negative width means FLAGS_LEFT.  `i' is
\* `d', `F' is `f', and `other' is what the switch has no case for, `arg' that
\* byte: NUL if the format string ends there.
Directive(spec, flags, width, prec, arg) ==
  [spec |-> spec, flags |-> IF width < 0 THEN flags \cup {"left"} ELSE flags,
   width |-> IF width < 0 THEN -width ELSE width, prec |-> prec, arg |-> arg]

\* A precision as an unsigned int.
Precision(prec) == IF prec # NoPrec /\ prec < 0 THEN prec + 2 * IntLimit ELSE prec

\* The flags a specifier drops.
FlagsOf(d) ==
  CASE d.spec = "d" -> d.flags \ {"hash"}
    [] d.spec \in {"u", "b"} -> d.flags \ {"hash", "plus", "space"}
    [] d.spec \in {"x", "X", "o"} -> d.flags \ {"plus", "space"}
    [] OTHER -> d.flags

Unsigned == {"u", "x", "X", "o", "b"}

\* The argument is a number, a float or text, as the specifier wants it; that
\* of `c' is the first byte of a text, which is NUL if it has no other.
IsDirective(d) ==
  /\ d.spec \in {"d", "f", "s", "c", "%", "other"} \cup Unsigned
  /\ d.flags \subseteq Flag /\ d.width \in Nat
  /\ d.prec = NoPrec \/ (d.prec \in Int /\ -IntLimit <= d.prec)
  /\ d.spec = "d" => d.arg \in Int
  /\ d.spec \in Unsigned => d.arg \in Nat
  /\ d.spec = "f" => d.arg \in [negative : BOOLEAN, whole : Nat, eighths : 0..7]
  /\ d.spec = "s" => d.arg \in Seq(Byte) /\ Len(d.arg) <= IntLimit
  /\ d.spec \in {"c", "other"} => d.arg \in Byte \cup {NUL}

----------------------------------------------------------------------------
(* Digits.                                                                 *)

Repeat(byte, n) == [k \in 1..n |-> byte]

Atmost(m, n) == IF m < n THEN m ELSE n

Upto(text, n) == SubSeq(text, 1, Atmost(n, Len(text)))

Lower == <<"0", "1", "2", "3", "4", "5", "6", "7", "8", "9", "a", "b", "c", "d", "e", "f">>
Upper == <<"0", "1", "2", "3", "4", "5", "6", "7", "8", "9", "A", "B", "C", "D", "E", "F">>

\* What natives write of their own.
OwnBytes ==
  {Lower[i] : i \in 1..16} \cup {Upper[i] : i \in 1..16}
    \cup {" ", "+", "-", ".", "x", "X", "%", "\n", "\r"}

ASSUME BytesOfText == OwnBytes \subseteq Byte

\* The loop of _ntoa_long(): the last digit first.
Reversed(value, base, digit) ==
  LET digits[n \in Nat] ==
        IF n < base THEN <<digit[n + 1]>>
        ELSE <<digit[(n % base) + 1]>> \o digits[n \div base]
  IN digits[value]

Padded(buf, n, byte) == buf \o Repeat(byte, Max({0, Atmost(n, NtoaSize) - Len(buf)}))

DropLast(buf, n) == SubSeq(buf, 1, Max({0, Len(buf) - n}))

SignMakingNoRoom(buf, negative, flags, width) ==  \* mutant: zeros fill the width
  IF negative THEN Append(buf, "-")
  ELSE IF "plus" \in flags THEN Append(buf, "+")
  ELSE IF "space" \in flags THEN Append(buf, " ") ELSE buf

Signs(negative, flags) == negative \/ flags \cap {"plus", "space"} # {}

\* "handle sign": a number that fills the width gives up its first digit for it.
Signed(buf, negative, flags, width) ==
  LET room == IF Len(buf) = width /\ Signs(negative, flags) THEN DropLast(buf, 1) ELSE buf
  IN IF Len(room) >= NtoaSize THEN room
     ELSE IF negative THEN Append(room, "-")
     ELSE IF "plus" \in flags THEN Append(room, "+")
     ELSE IF "space" \in flags THEN Append(room, " ") ELSE room

\* Without a digit there is none to give up: the length wraps around, no sign is
\* written, and bytes in front of the array are copied.
GivesUpNone(buf, negative, flags, width) ==
  Len(buf) = 0 /\ width = 0 /\ Signs(negative, flags)

OutBeyond(buf, flags, width, maxlen) == \* mutant: the width is not limited
  LET pad == Repeat(" ", Max({0, width - Len(buf)}))
      text == Upto(Reverse(buf), maxlen)
  IN IF "left" \in flags THEN text \o pad
     ELSE IF "zero" \in flags THEN text ELSE pad \o text

\* The copy into the caller's buffer, which has room for maxlen bytes.
Out(buf, flags, width, maxlen) ==
  LET pad == Repeat(" ", Max({0, Atmost(width, maxlen) - Len(buf)}))
      text == Upto(Reverse(buf), maxlen)
  IN IF "left" \in flags THEN text \o pad
     ELSE IF "zero" \in flags THEN text ELSE pad \o text

\* Leading zeros, up to the precision and with FLAGS_ZEROPAD up to the width.
Zeros(buf, flags, prec, width) ==
  IF "left" \in flags THEN buf
  ELSE LET toPrec == Padded(buf, IF prec = NoPrec THEN 0 ELSE prec, "0")
       IN IF "zero" \in flags THEN Padded(toPrec, width, "0") ELSE toPrec

\* "handle hash": the prefix, which takes the place of zeros that fill a field.
Prefixed(buf, flags, base, prec, width, upper) ==
  IF "hash" \notin flags THEN buf
  ELSE LET fills == Len(buf) \in {IF prec = NoPrec THEN 0 ELSE prec, width} /\ buf # <<>>
           room == IF fills THEN DropLast(buf, IF base = 16 THEN 2 ELSE 1) ELSE buf
       IN Upto(room \o (IF base = 16 THEN <<IF upper THEN "X" ELSE "x">> ELSE <<>>) \o <<"0">>,
               NtoaSize)

\* _ntoa_long(), and _ntoa_format() up to the sign.
NtoaDigits(value, base, upper, flags, prec, width) ==
  LET digits == IF prec # NoPrec /\ value = 0 THEN <<>>
                ELSE Upto(Reversed(value, base, IF upper THEN Upper ELSE Lower), NtoaSize)
  IN Prefixed(Zeros(digits, flags, prec, width), flags, base, prec, width, upper)

\* The texts that _ntoa_long() may write.
Ntoa(value, negative, base, upper, flags, prec, width, maxlen) ==
  LET buf == NtoaDigits(value, base, upper, flags, prec, width)
  IN IF maxlen = 0 THEN {<<>>}
     ELSE IF GivesUpNone(buf, negative, flags, width) THEN [1..maxlen -> Junk]
     ELSE {Out(Signed(buf, negative, flags, width), flags, width, maxlen)}

----------------------------------------------------------------------------
(* Floats.  A float is [negative, whole, eighths]: its fraction is a       *)
(* multiple of 1/8, so that the arithmetic of doubles is exact; -0.0 is     *)
(* negative, but not below zero.                                           *)

Pow10(n) == LET p[k \in Nat] == IF k = 0 THEN 1 ELSE 10 * p[k - 1] IN p[n]

\* The rounding: up above a half; at a half up if odd or zero.  Without digits
\* of the fraction the whole part is rounded, to even at a half.
Rounded(whole, eighths, prec) ==
  LET tmp == eighths * Pow10(prec)
      frac == tmp \div 8
      diff == tmp % 8
      rollover == diff > 4 /\ frac + 1 >= Pow10(prec)
  IN [whole |-> IF rollover \/ (prec = 0 /\ diff = 4 /\ whole % 2 = 1) THEN whole + 1 ELSE whole,
      frac |-> IF rollover THEN 0
               ELSE IF diff > 4 \/ (diff = 4 /\ (frac = 0 \/ frac % 2 = 1)) THEN frac + 1
               ELSE frac]

\* _ftoa(); the precision is 6 unless given, and at most 9.
Ftoa(x, flags, given, width, maxlen) ==
  LET prec == IF given = NoPrec THEN 6 ELSE Atmost(given, 9)
      r == Rounded(x.whole, x.eighths, prec)
      fraction == IF prec = 0 THEN <<>>
                  ELSE Append(Padded(Reversed(r.frac, 10, Lower), prec, "0"), ".")
      buf == Upto(fraction \o Reversed(r.whole, 10, Lower), NtoaSize)
      zeros == IF "zero" \in flags /\ "left" \notin flags THEN Padded(buf, width, "0") ELSE buf
      negative == x.negative /\ (x.whole > 0 \/ x.eighths > 0)
  IN IF x.whole > Threshold \/ (x.whole = Threshold /\ x.eighths > 0) THEN <<>>
     ELSE Out(Signed(zeros, negative, flags, width), flags, width, maxlen)

----------------------------------------------------------------------------
(* Text.                                                                   *)

\* "%s": padding and text, each as far as there is room.
Str(text, flags, prec, width, maxlen) ==
  LET shown == Upto(text, IF prec = NoPrec THEN Len(text) ELSE prec)
      pad == Repeat(" ", Max({0, width - Len(shown)}))
  IN Upto(IF "left" \in flags THEN shown \o pad ELSE pad \o shown, maxlen)

\* "%c": the padding looks for room, the character does not.
Char(byte, flags, width, maxlen) ==
  LET pad == Repeat(" ", Max({0, width - 1}))
  IN IF "left" \in flags
     THEN <<byte>> \o Upto(pad, Max({0, maxlen - 1}))
     ELSE Append(Upto(pad, maxlen), byte)

\* The switch over the specifier, with room for maxlen bytes: what it may write.
Written(d, maxlen) ==
  LET flags == FlagsOf(d)
      prec == Precision(d.prec)
      Unsign(base) == Ntoa(d.arg, FALSE, base, d.spec = "X", flags, prec, d.width, maxlen) IN
  CASE d.spec = "d" -> Ntoa(IF d.arg < 0 THEN -d.arg ELSE d.arg, d.arg < 0, 10, FALSE,
                            flags, prec, d.width, maxlen)
    [] d.spec = "u" -> Unsign(10)
    [] d.spec \in {"x", "X"} -> Unsign(16)
    [] d.spec = "o" -> Unsign(8)
    [] d.spec = "b" -> Unsign(2)
    [] d.spec = "f" -> {Ftoa(d.arg, flags, prec, d.width, maxlen)}
    [] d.spec = "s" -> {Str(d.arg, flags, prec, d.width, maxlen)}
    [] d.spec = "c" -> {Char(d.arg, flags, d.width, maxlen)}
    [] d.spec = "%" -> {<<"%">>}
    [] d.spec = "other" -> {<<d.arg>>}

----------------------------------------------------------------------------
(* The reference: ISO C, 7.21.6.1.                                         *)

\* A field of at least the width, for a sign or prefix and digits.
CField(prefix, digits, flags, width, mayZero) ==
  LET gap == Max({0, width - Len(prefix) - Len(digits)})
  IN IF "left" \in flags THEN prefix \o digits \o Repeat(" ", gap)
     ELSE IF "zero" \in flags /\ mayZero THEN prefix \o Repeat("0", gap) \o digits
     ELSE Repeat(" ", gap) \o prefix \o digits

CSign(negative, flags) ==
  IF negative THEN <<"-">>
  ELSE IF "plus" \in flags THEN <<"+">>
  ELSE IF "space" \in flags THEN <<" ">> ELSE <<>>

CInteger(value, prefix, base, digit, flags, prec, width) ==
  LET all == Reverse(Reversed(value, base, digit))
      digits == IF prec = NoPrec THEN all
                ELSE IF value = 0 THEN Repeat("0", prec)
                ELSE Repeat("0", Max({0, prec - Len(all)})) \o all
  IN CField(prefix, digits, flags, width, prec = NoPrec)

\* Rounded to the nearest, to even at a half.
CFloat(x, flags, given, width) ==
  LET prec == IF given = NoPrec THEN 6 ELSE given
      n == (8 * x.whole + x.eighths) * Pow10(prec)
      q == n \div 8
      up == n % 8 > 4 \/ (n % 8 = 4 /\ q % 2 = 1)
      r == IF up THEN q + 1 ELSE q
      whole == Reverse(Reversed(r \div Pow10(prec), 10, Lower))
      frac == Reverse(Padded(Reversed(r % Pow10(prec), 10, Lower), prec, "0"))
  IN CField(CSign(x.negative, flags),
            IF prec = 0 THEN whole ELSE whole \o <<".">> \o frac, flags, width, TRUE)

\* A negative precision is taken as if it were omitted.  `b' is C23's; `other'
\* has no meaning in C.
CWritten(d) ==
  LET flags == FlagsOf(d)
      prec == IF d.prec # NoPrec /\ d.prec < 0 THEN NoPrec ELSE d.prec
      Hex(prefix) == IF "hash" \in flags /\ d.arg # 0 THEN prefix ELSE <<>> IN
  CASE d.spec = "d" -> CInteger(IF d.arg < 0 THEN -d.arg ELSE d.arg, CSign(d.arg < 0, flags),
                                10, Lower, flags, prec, d.width)
    [] d.spec = "u" -> CInteger(d.arg, <<>>, 10, Lower, flags, prec, d.width)
    [] d.spec = "x" -> CInteger(d.arg, Hex(<<"0", "x">>), 16, Lower, flags, prec, d.width)
    [] d.spec = "X" -> CInteger(d.arg, Hex(<<"0", "X">>), 16, Upper, flags, prec, d.width)
    [] d.spec = "o" -> CInteger(d.arg, <<>>, 8, Lower, flags, prec, d.width)
    [] d.spec = "b" -> CInteger(d.arg, <<>>, 2, Lower, flags, prec, d.width)
    [] d.spec = "f" -> CFloat(d.arg, flags, prec, d.width)
    [] d.spec = "s" ->
         CField(<<>>, IF prec = NoPrec THEN d.arg ELSE Upto(d.arg, prec), flags, d.width, FALSE)
    [] d.spec = "c" -> CField(<<>>, <<d.arg>>, flags, d.width, FALSE)
    [] d.spec = "%" -> <<"%">>
    [] d.spec = "other" -> <<>>
=============================================================================
