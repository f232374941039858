------------------------------- MODULE Printf ------------------------------
(***************************************************************************)
(* _vsnprintf (libc/src/printf.c): the parser of the format, one action    *)
(* per field of a directive, with the conversions of Conversions.          *)
(*                                                                         *)
(* A format is a sequence of characters, "a" standing for any that has no  *)
(* meaning of its own; format is what the parser has not read yet, without *)
(* the NUL.  at is where the parser stands: "idle", "text", before the     *)
(* "flags", "width", "precision", "length" or "specifier" of a directive,  *)
(* at the "end", or "beyond" it.                                           *)
(*                                                                         *)
(* buffer is the array that snprintf (stdio.c) is given, of maxlen chars,  *)
(* or, without a limit, what a FILE receives; out are all the characters   *)
(* that are put out, whose number idx is the result.                       *)
(***************************************************************************)
EXTENDS Conversions

CONSTANTS
  Calls        \* the calls: each with the size of its buffer, maxlen, and the
               \* pieces of its format, a directive or a character that is
               \* none, with the arguments of each

VARIABLES
  pieces, args,               \* the call: its format in pieces, its arguments
  format, next,               \* the format left to read, the next argument
  flags, width, precision,    \* the fields of the directive
  maxlen, buffer, out,        \* the buffer, and all that was put out
  at

printfVars == <<pieces, args, format, next, flags, width, precision, maxlen,
                buffer, out, at>>
directive == <<flags, width, precision>>
output == <<maxlen, buffer, out>>

FlagOf == [c \in {"0", "-", "+", " ", "#"} |->
  CASE c = "0" -> "ZEROPAD" [] c = "-" -> "LEFT" [] c = "+" -> "PLUS"
    [] c = " " -> "SPACE" [] c = "#" -> "HASH"]
Decimal == {DigitOf(n) : n \in 0 .. 9}

\* _is_digit and _atoi: the digits at the head of s, and their number.
LeadingDigits(s) ==
  LET ends == {k \in 0 .. Len(s) : \A i \in 1 .. k : s[i] \in Decimal}
  IN SubSeq(s, 1, CHOOSE k \in ends : \A j \in ends : j <= k)
NumberOf(s) ==
  FoldLeft(LAMBDA n, c : 10 * n + (CHOOSE d \in 0 .. 9 : DigitOf(d) = c), 0, s)
Drop(s, n) == SubSeq(s, n + 1, Len(s))

-----------------------------------------------------------------------------
(* The parser.                                                             *)

\* The format of a call is its pieces one after the other.
FormatOf(ps) ==
  FlattenSeq([i \in 1 .. Len(ps) |->
    ps[i].flags \o ps[i].width \o ps[i].precision \o ps[i].length
      \o ps[i].specifier])

PrintfInit ==
  /\ pieces = <<>> /\ args = <<>> /\ format = <<>> /\ next = 1
  /\ flags = {} /\ width = 0 /\ precision = 0
  /\ maxlen = 0 /\ buffer = <<>> /\ out = <<>>
  /\ at = "idle"

PrintfCall(call) ==
  /\ maxlen' = call.maxlen
  /\ pieces' = call.pieces
  /\ args' = FlattenSeq([i \in 1 .. Len(call.pieces) |-> call.pieces[i].args])
  /\ format' = FormatOf(call.pieces)
  /\ at' = "text"
  /\ UNCHANGED <<next, directive, buffer, out>>

\* What the characters s, put out one by one, leave in the buffer.
Put(s) ==
  /\ out' = out \o s
  /\ buffer' = Fit(buffer, s, maxlen)
  /\ UNCHANGED maxlen

Text ==
  /\ at = "text" /\ format # <<>> /\ Head(format) # "%"
  /\ Put(<<Head(format)>>)
  /\ format' = Tail(format)
  /\ UNCHANGED <<pieces, args, next, directive, at>>

Percent ==
  /\ at = "text" /\ format # <<>> /\ Head(format) = "%"
  /\ format' = Tail(format)
  /\ flags' = {} /\ width' = 0 /\ precision' = 0
  /\ at' = "flags"
  /\ UNCHANGED <<pieces, args, next, output>>

NextIs(cs) == format # <<>> /\ Head(format) \in cs

Flag ==
  /\ at = "flags" /\ NextIs(DOMAIN FlagOf)
  /\ flags' = flags \cup {FlagOf[Head(format)]}
  /\ format' = Tail(format)
  /\ UNCHANGED <<pieces, args, next, width, precision, output, at>>

\* A negative width from the arguments is a "-" and a width.
Width ==
  /\ at = "flags" /\ ~NextIs(DOMAIN FlagOf)
  /\ \/ /\ ~NextIs({"*"})
        /\ width' = NumberOf(LeadingDigits(format))
        /\ format' = Drop(format, Len(LeadingDigits(format)))
        /\ UNCHANGED <<next, flags>>
     \/ /\ NextIs({"*"})
        /\ width' = IF args[next] < 0 THEN -args[next] ELSE args[next]
        /\ flags' = IF args[next] < 0 THEN flags \cup {"LEFT"} ELSE flags
        /\ format' = Tail(format) /\ next' = next + 1
  /\ at' = "precision"
  /\ UNCHANGED <<pieces, args, precision, output>>

\* A negative precision from the arguments is 0.
Precision ==
  /\ at = "precision"
  /\ LET rest == Tail(format) IN
     \/ ~NextIs({"."}) /\ UNCHANGED <<format, next, flags, precision>>
     \/ /\ NextIs({"."}) /\ ~(rest # <<>> /\ Head(rest) = "*")
        /\ flags' = flags \cup {"PRECISION"}
        /\ precision' = NumberOf(LeadingDigits(rest))
        /\ format' = Drop(rest, Len(LeadingDigits(rest)))
        /\ UNCHANGED next
     \/ /\ NextIs({"."}) /\ rest # <<>> /\ Head(rest) = "*"
        /\ flags' = flags \cup {"PRECISION"}
        /\ precision' = IF args[next] > 0 THEN args[next] ELSE 0
        /\ format' = Tail(rest) /\ next' = next + 1
  /\ at' = "length"
  /\ UNCHANGED <<pieces, args, width, output>>

\* l, ll, h, hh, and t, j, z, which are l here.
Length ==
  /\ at = "length"
  /\ LET twice == Len(format) > 1 /\ format[2] = Head(format) IN
     \/ ~NextIs({"l", "h", "z"}) /\ UNCHANGED <<format, flags>>
     \/ /\ NextIs({"l", "z"})
        /\ flags' = flags \cup {"LONG"}
             \cup (IF NextIs({"l"}) /\ twice THEN {"LONG_LONG"} ELSE {})
        /\ format' = Drop(format, IF NextIs({"l"}) /\ twice THEN 2 ELSE 1)
     \/ /\ NextIs({"h"})
        /\ flags' = flags \cup {"SHORT"} \cup (IF twice THEN {"CHAR"} ELSE {})
        /\ format' = Drop(format, IF twice THEN 2 ELSE 1)
  /\ at' = "specifier"
  /\ UNCHANGED <<pieces, args, next, width, precision, output>>

DoubleSpecifiers == {"f", "e", "g"}
Converting == DOMAIN BaseOf \cup {"p", "c", "s"} \cup DoubleSpecifiers

\* What the specifier puts out; one that is none is put out itself.
Converted(c, v) ==
  CASE c \in DOMAIN BaseOf -> IntegerText(c, v, precision, width, flags)
    [] c = "p" -> PointerText(v, precision, flags)
    [] c = "c" -> Padded(<<v>>, 1, width, flags)
    [] c = "s" -> StringText(v, precision, width, flags)
    [] c \in DoubleSpecifiers -> DoubleText(c, v, precision, width, flags)

Specifier ==
  /\ at = "specifier" /\ format # <<>>
  /\ \/ /\ Head(format) \in Converting
        /\ Put(Converted(Head(format), args[next]))
        /\ next' = next + 1
     \/ /\ Head(format) \notin Converting
        /\ Put(<<Head(format)>>)
        /\ UNCHANGED next
  /\ format' = Tail(format)
  /\ at' = "text"
  /\ UNCHANGED <<pieces, args, directive>>

\* The format ends inside a directive: the NUL is put out like a specifier,
\* and the parser goes on behind it.
RunOff ==
  /\ at = "specifier" /\ format = <<>>
  /\ Put(<<"NUL">>)
  /\ at' = "beyond"
  /\ UNCHANGED <<pieces, args, format, next, directive>>

\* The termination, which idx does not count: in the last place of a full buffer,
\* if it has any.
End ==
  /\ at = "text" /\ format = <<>>
  /\ buffer' = IF Len(out) < maxlen THEN Append(buffer, "NUL")
                ELSE IF maxlen = 0 THEN buffer
                ELSE [buffer EXCEPT ![maxlen] = "NUL"]
  /\ at' = "end"
  /\ UNCHANGED <<pieces, args, format, next, directive, maxlen, out>>

PrintfNext ==
  \/ at = "idle" /\ \E call \in Calls : PrintfCall(call)
  \/ Text \/ Percent \/ Flag \/ Width \/ Precision \/ Length \/ Specifier
  \/ RunOff \/ End

PrintfSpec == PrintfInit /\ [][PrintfNext]_printfVars

-----------------------------------------------------------------------------
(* What C says a directive puts out, told from the piece and not from its   *)
(* characters.                                                             *)

Wanted(p) ==
  LET w    == IF p.width = <<>> THEN 0
              ELSE IF p.width = <<"*">> THEN p.args[1] ELSE NumberOf(p.width)
      prec == IF p.precision = <<>> THEN -1
              ELSE IF Last(p.precision) = "*"
                THEN p.args[IF p.width = <<"*">> THEN 2 ELSE 1]
              ELSE NumberOf(Tail(p.precision))
      f    == {FlagOf[c] : c \in ToSet(p.flags) \ {"%"}}
  IN [w |-> IF w < 0 THEN -w ELSE w, prec |-> prec, c |-> p.specifier[1],
      f |-> IF w < 0 THEN f \cup {"LEFT"} ELSE f,
      type |-> CASE p.length = <<"h">> -> "short" [] p.length = <<"h", "h">> -> "char"
                 [] p.length = <<>> -> "int" [] OTHER -> "long"]

\* The number that v stands for.
NumberIn(q, v) ==
  IF q.c = "d" THEN AsSigned(v, q.type) ELSE AsUnsigned(v, q.type)

\* The digits with their leading zeros, and what goes in front of them.
Significant(n, base, prec) ==
  LET all[k \in Nat] == IF k = 0 THEN <<>> ELSE all[k \div base] \o <<DigitOf(k % base)>>
      min == IF prec < 0 THEN 1 ELSE prec
  IN Copies("0", min - Len(all[n])) \o all[n]
Marks(q, n) ==
  IF q.c = "d" THEN SignOf(n < 0, q.f)
  ELSE IF "HASH" \notin q.f \/ n = 0 THEN <<>>
  ELSE CASE q.c = "x" -> <<"0", "x">> [] q.c = "o" -> <<"0">>
         [] q.c = "b" -> <<"0", "b">> [] q.c = "u" -> <<>>
DigitsIn(q, n, prec) == Significant(IF n < 0 THEN -n ELSE n, BaseOf[q.c], prec)

\* d with x in front of it, as wide as wanted.
Laid(q, x, d, zeros) ==
  LET room == q.w - Len(d) - Len(x)
  IN IF "LEFT" \in q.f THEN x \o d \o Copies(" ", room)
     ELSE IF "ZEROPAD" \in q.f /\ zeros THEN x \o Copies("0", room) \o d
     ELSE Copies(" ", room) \o x \o d
IntegerInC(q, n) == Laid(q, Marks(q, n), DigitsIn(q, n, q.prec), q.prec < 0)

\* The decimal exponent of a double, and what of it is shown: the fraction n / d
\* to k decimals, scaled by the exponent x if sci.
ExponentInC(v) ==
  IF v.n = 0 THEN 0
  ELSE IF v.n >= v.d THEN Len(Significant(v.n \div v.d, 10, 1)) - 1
  ELSE -(CHOOSE k \in 1 .. Len(Significant(v.d, 10, 1)) :
           v.n * 10 ^ k >= v.d /\ v.n * 10 ^ (k - 1) < v.d)
PrecIn(q) == IF q.prec < 0 THEN DefaultPrec ELSE q.prec
FiguresIn(q) == IF PrecIn(q) = 0 THEN 1 ELSE PrecIn(q)
InStyleOfE(q, x) ==
  q.c = "e" \/ (q.c = "g" /\ x \notin -AdaptLow .. FiguresIn(q) - 1)
Scale(v, x, sci, k) ==
  [x |-> x, sci |-> sci, k |-> k,
   n |-> IF sci /\ x < 0 THEN v.n * 10 ^ (-x) ELSE v.n,
   d |-> IF sci /\ x > 0 THEN v.d * 10 ^ x ELSE v.d]
Shown(q, v, x) ==
  Scale(v, x, InStyleOfE(q, x),
        IF q.c # "g" THEN PrecIn(q)
        ELSE FiguresIn(q) - 1 - (IF InStyleOfE(q, x) THEN 0 ELSE x))

\* s.n / s.d in units of the last decimal, the even one of two.
HalfEven(s) ==
  LET n == s.n * 10 ^ s.k  k == n \div s.d  rest == 2 * (n % s.d)
  IN IF rest > s.d \/ (rest = s.d /\ k % 2 = 1) THEN k + 1 ELSE k
DoubleDigits(s, k) ==
  Significant(k \div 10 ^ s.k, 10, 1)
    \o (IF s.k = 0 THEN <<>> ELSE <<".">> \o Significant(k % 10 ^ s.k, 10, s.k))
    \o (IF ~s.sci THEN <<>>
        ELSE <<"e", IF s.x < 0 THEN "-" ELSE "+">>
               \o Significant(IF s.x < 0 THEN -s.x ELSE s.x, 10, 2))
ShownDigits(s) == DoubleDigits(s, HalfEven(s))
DoubleInC(q, v) ==
  Laid(q, SignOf(v.neg, q.f),
       CASE v.kind = "nan" -> <<"n", "a", "n">>
         [] v.kind = "infinite" -> <<"i", "n", "f">>
         [] v.kind = "number" -> ShownDigits(Shown(q, v, ExponentInC(v))),
       v.kind = "number")

TextInC(q, v) ==
  LET s == IF q.c = "c" THEN <<v>>
           ELSE IF q.prec < 0 THEN v ELSE SubSeq(v, 1, Less(Len(v), q.prec))
  IN IF q.c \in DOMAIN BaseOf THEN IntegerInC(q, NumberIn(q, v))
     ELSE IF q.c \in DoubleSpecifiers THEN DoubleInC(q, v)
     ELSE IF q.c = "p" THEN Significant(v, 16, IntBits["long"] \div 4)
     ELSE Padded(s, Len(s), q.w, q.f)
InC(p) == IF p.specifier[1] \notin Converting THEN p.specifier
          ELSE TextInC(Wanted(p), Last(p.args))

\* The integers on which the code follows C.  It does not where "-" meets a
\* precision that adds zeros, where the conversion buffer is too short, and with
\* "#" where a precision is given or the width leaves less room than the prefix
\* takes, which costs digits.
RegularLengths(q, n, d, x) ==
  /\ d + x <= NtoaSize
  /\ "ZEROPAD" \in q.f => q.w <= NtoaSize
  /\ "HASH" \in q.f /\ q.c \in {"x", "o", "b"} /\ n # 0 =>
       /\ q.prec < 0
       /\ IF "ZEROPAD" \in q.f /\ "LEFT" \notin q.f
            THEN q.c # "b" /\ (q.w < d \/ q.w >= d + x)
            ELSE q.w # d
RegularInteger(q, n) ==
  /\ "LEFT" \in q.f => q.prec = 0 \/ DigitsIn(q, n, q.prec) = DigitsIn(q, n, -1)
  /\ RegularLengths(q, n, Len(DigitsIn(q, n, q.prec)), Len(Marks(q, n)))

\* The numbers on which it does: not where a half is between .0 and the next
\* decimal, would carry, belongs to a mantissa that comes out below or above it, or
\* is none in the double, whose fraction is binary, and comes from the scaling;
\* where the mantissa would carry to 10; where it is 9.3 or more and the exponent
\* below -1, which _etoa may get one too high and then prints a mantissa below 1; at
\* 0 and at the powers of ten that _etoa misses; where the digits do not fit the
\* buffer or MaxPrec; beyond MaxFloat with f; for g without "#", with precision 0, and
\* with a precision that makes C choose the other style or, in the style of e, is not
\* given; for the sign of -0; and with "#" and no decimals.
RegularNumber(q, v, s) ==
  LET last == ((s.n * 10 ^ s.k) \div s.d) % 10 ^ s.k
      e == Scale(v, s.x, TRUE, IF q.c = "g" THEN PrecIn(q) - 1 ELSE PrecIn(q))
  IN /\ v.neg => v.n > 0
     /\ Len(ShownDigits(s)) + Len(SignOf(v.neg, q.f)) <= FtoaSize
     /\ "ZEROPAD" \in q.f => q.w <= FtoaSize
     /\ s.k <= MaxPrec \/ (s.n * 10 ^ MaxPrec) % s.d = 0
     /\ 2 * ((s.n * 10 ^ s.k) % s.d) = s.d =>
          /\ v.d \in {2 ^ i : i \in 0 .. 10}
          /\ s.k > 0 => last \notin {0, 10 ^ s.k - 1}
          /\ ~(s.sci /\ s.x # 0 /\ EstimateOf(v) \in PowersAbove \cup PowersBelow)
     /\ "HASH" \in q.f => s.k > 0
     /\ q.c = "f" => v.n <= MaxFloat * v.d
     /\ q.c = "g" =>
          /\ "HASH" \in q.f /\ q.prec # 0
          /\ IF s.sci THEN q.prec > 0 /\ (s.x < -AdaptLow \/ s.x >= AdaptHigh)
             ELSE s.x < AdaptHigh
     /\ q.c \in {"e", "g"} =>
          /\ v.n > 0
          /\ s.x < -1 => DividedBy(v, s.x).n * 10 < DividedBy(v, s.x).d * 93
          /\ ~(s.x > 0 /\ s.x \in PowersAbove /\ v.n = v.d * 10 ^ s.x)
          /\ HalfEven(e) < 10 ^ (e.k + 1)

\* The doubles on which it does: nor for an infinity with a blank or zeros, nor
\* for a NaN with a sign or zeros.
RegularDouble(q, v) ==
  CASE v.kind = "nan" -> q.f \cap {"PLUS", "SPACE", "ZEROPAD"} = {}
    [] v.kind = "infinite" -> q.f \cap {"SPACE", "ZEROPAD"} = {}
    [] v.kind = "number" -> RegularNumber(q, v, Shown(q, v, ExponentInC(v)))

\* The directives on which it does: no negative precision from an argument, and a
\* pointer, which has a width of its own, without any field.
RegularWanted(p, q) ==
  /\ p.precision # <<>> => q.prec >= 0
  /\ q.c = "p" => p.flags \o p.width \o p.precision = <<"%">>
  /\ q.c \in DOMAIN BaseOf => RegularInteger(q, NumberIn(q, Last(p.args)))
  /\ q.c \in DoubleSpecifiers => RegularDouble(q, Last(p.args))
Regular(p) == RegularWanted(p, Wanted(p))

Complete == \A i \in 1 .. Len(pieces) : pieces[i].specifier # <<>>

\* Whatever the directives and their order, every character and every argument
\* of the call is used once and each directive puts out what C says; the buffer
\* holds the characters that it has room for and, unless it has none at all, one
\* NUL after them, whatever the call.  The parser does not read past the end of a
\* format, unless the format ends in the middle of a directive.
PutsOutAsInC ==
  /\ at = "end" =>
       buffer = IF maxlen = 0 THEN <<>> ELSE Fit(<<>>, out, maxlen - 1) \o <<"NUL">>
  /\ at = "end" /\ (\A i \in 1 .. Len(pieces) : Regular(pieces[i])) =>
       /\ next = Len(args) + 1
       /\ out = FlattenSeq([i \in 1 .. Len(pieces) |-> InC(pieces[i])])
  /\ at = "beyond" => ~Complete
=============================================================================
