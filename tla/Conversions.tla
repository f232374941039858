---------------------------- MODULE Conversions ----------------------------
(***************************************************************************)
(* The conversions of libc/src/printf.c: what a directive puts out, as a   *)
(* function of its argument, its precision, its width and its flags.       *)
(* Upper case is not told from lower case.                                 *)
(*                                                                         *)
(* A double is a record: its kind is "number", "infinite" or "nan", and    *)
(* the magnitude of a number is the fraction n / d, or the double nearest  *)
(* to it where d is no power of two. The arithmetic of _ftoa and _etoa is  *)
(* exact here but for the powers of ten that _etoa approximates: some come *)
(* out above (PowersAbove), by at most two parts in 10^8, and others below *)
(* (PowersBelow), by less than one in 10^12. Then the kind of the mantissa *)
(* is "less" or "more", a little less or more than n / d. That shows where *)
(* n / d is a half; a mantissa's decimals beyond the seventh, which it     *)
(* reaches too, are not modelled.                                          *)
(***************************************************************************)
EXTENDS Integers, SequencesExt

CONSTANTS
  NtoaSize,      \* PRINTF_NTOA_BUFFER_SIZE, 32
  FtoaSize,      \* PRINTF_FTOA_BUFFER_SIZE, 32
  IntBits,       \* the bits of an integer type: "char", "short", "int", "long"
  DefaultPrec,   \* PRINTF_DEFAULT_FLOAT_PRECISION, 6
  MaxPrec,       \* 17, the decimals that are computed
  MaxFloat,      \* PRINTF_MAX_FLOAT, 1e9: beyond it %f becomes %e
  AdaptLow,      \* 4 and 6: %g is %f for 1e-4 <= value < 1e6
  AdaptHigh,
  PowersAbove,   \* the x for which the approximation of 10 ^ x comes out above it;
                 \* 2, 3 and -8 to -1 are among them
  PowersBelow    \* those for which it comes out below: 1, 4 and 7 are among them,
                 \* and 0 is exact

DigitChars == <<"0", "1", "2", "3", "4", "5", "6", "7", "8", "9",
                "a", "b", "c", "d", "e", "f">>
DigitOf(n) == DigitChars[n + 1]

Less(x, y) == IF x < y THEN x ELSE y
Copies(c, n) == [i \in 1 .. n |-> c]

\* _out_rev: buf backwards, with spaces up to w around it.
Reversed(buf, w, f) ==
  LET pad == Copies(" ", w - Len(buf))
  IN (IF f \cap {"LEFT", "ZEROPAD"} = {} THEN pad ELSE <<>>)
       \o Reverse(buf) \o (IF "LEFT" \in f THEN pad ELSE <<>>)

\* The digits of n, the last one first.
Backwards(n, base) ==
  LET all[k \in Nat] == IF k < base THEN <<DigitOf(k)>>
                        ELSE <<DigitOf(k % base)>> \o all[k \div base]
  IN all[n]

\* buf and as much of s as a buffer of that size has room for.
Fit(buf, s, size) == LET all == buf \o s IN SubSeq(all, 1, Less(Len(all), size))

-----------------------------------------------------------------------------
(* Integers, pointers, characters and strings.                             *)

ZerosUpTo(buf, n) == Fit(buf, Copies("0", n - Len(buf)), NtoaSize)
IfRoom(buf, s) == Fit(buf, s, NtoaSize)

\* The prefix of "#": zeros that padding put there give way to it.
WithPrefix(buf, base, prec, w, f) ==
  LET full == "PRECISION" \notin f /\ buf # <<>> /\ Len(buf) \in {prec, w}
      room == IF ~full THEN 0 ELSE IF base = 16 THEN Less(2, Len(buf)) ELSE 1
      mark == IF base = 16 THEN <<"x">> ELSE IF base = 2 THEN <<"b">> ELSE <<>>
      cut  == SubSeq(buf, 1, Len(buf) - room)
  IN IfRoom(IfRoom(cut, mark), <<"0">>)

SignOf(negative, f) ==
  IF negative THEN <<"-">> ELSE IF "PLUS" \in f THEN <<"+">>
  ELSE IF "SPACE" \in f THEN <<" ">> ELSE <<>>

\* The width that the sign leaves to zeros.
WidthInside(w, f, signed) ==
  IF w > 0 /\ "ZEROPAD" \in f /\ "LEFT" \notin f
       /\ (signed \/ f \cap {"PLUS", "SPACE"} # {})
    THEN w - 1 ELSE w

\* Faulty: zeros fill the whole width, and the sign comes on top.
NtoaUnsigned(n, negative, base, prec, w, f) ==
  LET digits == IF n = 0 /\ "PRECISION" \in f THEN <<>> ELSE Fit(<<>>, Backwards(n, base), NtoaSize)
      filled == IF "LEFT" \in f THEN digits
                ELSE ZerosUpTo(ZerosUpTo(digits, prec),
                               IF "ZEROPAD" \in f THEN w ELSE 0)
  IN Reversed(IfRoom(filled, SignOf(negative, f)), w, f)

\* _ntoa_long, _ntoa_long_long and _ntoa_format.
Ntoa(n, negative, base, prec, w, f0) ==
  LET f      == IF n = 0 THEN f0 \ {"HASH"} ELSE f0
      inner  == WidthInside(w, f, negative)
      digits == IF n = 0 /\ "PRECISION" \in f THEN <<>>
                ELSE IfRoom(<<>>, Backwards(n, base))
      filled == IF "LEFT" \in f THEN digits
                ELSE ZerosUpTo(ZerosUpTo(digits, prec),
                               IF "ZEROPAD" \in f THEN inner ELSE 0)
      whole  == IF "HASH" \in f THEN WithPrefix(filled, base, prec, inner, f)
                ELSE filled
  IN Reversed(IfRoom(whole, SignOf(negative, f)), inner, f)

\* An argument as its type sees it.
TypeOf(f) == IF f \cap {"LONG", "LONG_LONG"} # {} THEN "long"
             ELSE IF "CHAR" \in f THEN "char"
             ELSE IF "SHORT" \in f THEN "short" ELSE "int"
AsUnsigned(v, type) == v % 2 ^ IntBits[type]
AsSigned(v, type) ==
  LET u == AsUnsigned(v, type)
  IN IF u >= 2 ^ (IntBits[type] - 1) THEN u - 2 ^ IntBits[type] ELSE u

BaseOf == [c \in {"d", "u", "x", "o", "b"} |->
  CASE c = "x" -> 16 [] c = "o" -> 8 [] c = "b" -> 2 [] OTHER -> 10]

\* The case of d, i, u, x, X, o and b.
IntegerText(c, v, prec, w, f) ==
  LET g == f \ ((IF BaseOf[c] = 10 THEN {"HASH"} ELSE {})
                \cup (IF c # "d" THEN {"PLUS", "SPACE"} ELSE {})
                \cup (IF "PRECISION" \in f THEN {"ZEROPAD"} ELSE {}))
      n == IF c = "d" THEN AsSigned(v, TypeOf(f)) ELSE AsUnsigned(v, TypeOf(f))
  IN Ntoa(IF n < 0 THEN -n ELSE n, n < 0, BaseOf[c], prec, w, g)

\* The cases of p, c and s.
PointerText(v, prec, f) == Ntoa(v, FALSE, 16, prec, IntBits["long"] \div 4,
                                f \cup {"ZEROPAD"})
Padded(s, n, w, f) ==
  IF "LEFT" \in f THEN s \o Copies(" ", w - n) ELSE Copies(" ", w - n) \o s
StringText(s, prec, w, f) ==
  LET kept == IF "PRECISION" \in f THEN SubSeq(s, 1, Less(Len(s), prec)) ELSE s
  IN Padded(kept, Len(kept), w, f)

-----------------------------------------------------------------------------
(* Doubles.                                                                *)

IsNegative(v) == v.neg /\ v.n > 0
AtLeast(v, m) == v.n >= m * v.d

\* frac, which has prec decimals, behind a point.  When it has more digits than
\* that, the count of the missing zeros wraps around, and they fill the buffer.
Decimals(frac, prec) ==
  LET digits == Backwards(frac, 10)  missing == prec - Len(digits)
  IN digits \o Copies("0", IF missing < 0 THEN FtoaSize ELSE missing) \o <<".">>

\* The whole part and the decimals of v: a half rounds up if that makes the last
\* decimal even, and from 0 too; only above the half is there a carry, except
\* that without decimals the whole part is rounded.
Rounded(v, prec) ==
  LET scaled == (v.n % v.d) * 10 ^ prec
      whole == v.n \div v.d
      frac == scaled \div v.d
      rest == 2 * (scaled % v.d)
      over == rest > v.d \/ (rest = v.d /\ v.kind = "more")
      carry == over /\ frac + 1 = 10 ^ prec
      half == rest = v.d /\ v.kind = "number"
      up   == over \/ (half /\ (frac = 0 \/ frac % 2 = 1))
  IN [whole |-> IF carry \/ (prec = 0 /\ half /\ whole % 2 = 1)
                  THEN whole + 1 ELSE whole,
      frac  |-> IF carry THEN 0 ELSE IF up THEN frac + 1 ELSE frac]

\* The digits of v to prec decimals, backwards, behind extra zeros.
PrecisionOf(prec, f) == IF "PRECISION" \in f THEN prec ELSE DefaultPrec
RoundedDigits(r, prec, extra) ==
  Fit(Copies("0", extra) \o (IF prec = 0 THEN <<>> ELSE Decimals(r.frac, prec)),
      Backwards(r.whole, 10), FtoaSize)
FixedDigits(v, prec, extra) == RoundedDigits(Rounded(v, prec - extra), prec - extra, extra)

\* _ftoa, up to MaxFloat.
Filled(digits, w, f) ==
  IF "ZEROPAD" \notin f \/ "LEFT" \in f THEN digits
  ELSE Fit(digits, Copies("0", w - Len(digits)), FtoaSize)
FixedNumber(v, prec, w, f) ==
  LET extra == Less(FtoaSize, IF prec > MaxPrec THEN prec - MaxPrec ELSE 0)
  IN Reversed(Fit(Filled(FixedDigits(v, prec, extra), w, f),
                  SignOf(IsNegative(v), f), FtoaSize), w, f)
Fixed(v, prec, w, f) ==
  CASE v.kind = "nan" -> Reversed(<<"n", "a", "n">>, w, f)
    [] v.kind = "infinite" ->
         Reversed(<<"f", "n", "i">> \o SignOf(v.neg, f \ {"SPACE"}), w, f)
    [] OTHER -> FixedNumber(v, PrecisionOf(prec, f),
                            WidthInside(w, f, IsNegative(v)), f)

\* v divided by 10 ^ x.
DividedBy(v, x) ==
  IF x < 0 THEN [v EXCEPT !.n = @ * 10 ^ (-x)] ELSE [v EXCEPT !.d = @ * 10 ^ x]

\* The exponent of v > 0 as a double.
BinaryExponent(v) ==
  LET up[k \in Nat] == IF AtLeast(v, 2 ^ (k + 1)) THEN up[k + 1] ELSE k
      down[k \in Nat] == IF v.n * 2 ^ k >= v.d THEN -k ELSE down[k + 1]
  IN IF AtLeast(v, 1) THEN up[0] ELSE down[1]

\* The logarithm of v > 0, in units of 1 / 10000: a line in the mantissa, which is
\* the fraction n / d, takes the place of the curve, and lies above it.
Logarithm(v) ==
  LET x == BinaryExponent(v)
      n == IF x < 0 THEN v.n * 2 ^ (-x) ELSE v.n
      d == IF x > 0 THEN v.d * 2 ^ x ELSE v.d
  IN 1761 + 3010 * x + (2895 * (2 * n - 3 * d)) \div (2 * d)

\* The first estimate of the decimal exponent, which the cast cuts towards 0.
EstimateOf(v) ==
  LET l == Logarithm(v) IN IF l < 0 THEN -((-l) \div 10000) ELSE l \div 10000

\* The exponent: one less if v is below the power of ten of the estimate.
ExponentOf(v) ==
  LET x == EstimateOf(v)  m == DividedBy(v, x)
  IN IF v.n = 0 THEN -308
     ELSE IF m.n < m.d \/ (m.n = m.d /\ x \in PowersAbove) THEN x - 1 ELSE x

\* v divided by its power of ten, which comes from that of the estimate.
MantissaOf(v, exp) ==
  IF v.n = 0 \/ exp = 0 THEN v
  ELSE [DividedBy(v, exp) EXCEPT
          !.kind = IF EstimateOf(v) \in PowersAbove THEN "less"
                   ELSE IF EstimateOf(v) \in PowersBelow THEN "more" ELSE @]

\* _etoa, from exp, the exponent of v, and wanted, its precision: the mantissa,
\* which is never beyond MaxFloat, and the exponent; with ADAPT_EXP the number
\* itself, if it is neither small nor large.
ExponentText(exp, chars) ==
  <<"e">> \o Ntoa(IF exp < 0 THEN -exp ELSE exp, exp < 0, 10, 0, chars - 1,
                  {"ZEROPAD", "PLUS"})
WithExponent(v, exp, chars, figures, w, f) ==
  Fixed(MantissaOf(v, exp), figures,
        IF "LEFT" \in f \/ w <= chars THEN 0 ELSE w - chars, f)
    \o ExponentText(exp, chars)
InPlain(v, f) == /\ "ADAPT_EXP" \in f /\ v.n * 10 ^ AdaptLow >= v.d
                 /\ ~AtLeast(v, 10 ^ AdaptHigh)
FilledUp(text, w, f) ==
  IF "LEFT" \in f THEN text \o Copies(" ", w - Len(text)) ELSE text
NumberText(v, exp, wanted, w, f) ==
  LET figures == IF {"ADAPT_EXP", "PRECISION"} \subseteq f /\ wanted > 0
                   THEN wanted - 1 ELSE wanted
  IN IF InPlain(v, f)
       THEN Fixed(v, IF wanted > exp THEN wanted - exp - 1 ELSE 0, w,
                  f \cup {"PRECISION"})
     ELSE FilledUp(WithExponent(v, exp, IF exp \in -99 .. 99 THEN 4 ELSE 5,
                                figures, w, f), w, f)
Etoa(v, prec, w, f) ==
  IF v.kind # "number" THEN Fixed(v, prec, w, f)
  ELSE NumberText(v, ExponentOf(v), PrecisionOf(prec, f), w, f)

\* _ftoa.
Ftoa(v, prec, w, f) ==
  IF v.kind = "number" /\ v.n > MaxFloat * v.d THEN Etoa(v, prec, w, f)
  ELSE Fixed(v, prec, w, f)

\* The cases of f, F, e, E, g and G.
DoubleText(c, v, prec, w, f) ==
  IF c = "f" THEN Ftoa(v, prec, w, f)
  ELSE Etoa(v, prec, w, IF c = "g" THEN f \cup {"ADAPT_EXP"} ELSE f)
=============================================================================
