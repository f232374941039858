------------------------------ MODULE Numbers ------------------------------
(***************************************************************************)
(* Numbers read from text: strtod (libc/src/strtod.c) and atoi (string.c). *)
(* A text is a sequence of characters without its NUL.  A double that      *)
(* strtod returns is a fraction and a power of ten that it is multiplied   *)
(* with or divided by: the rounding of these two operations is left out,   *)
(* the overflow of the power is not.                                       *)
(***************************************************************************)
EXTENDS Integers, Sequences

CONSTANTS
  MaxDigits,     \* 18, the digits of the mantissa that are used
  HalfDigits,    \* 9, the digits of one of the two integers that collect them
  PowerBits,     \* 9, the entries of powersOf10
  MaxPower,      \* 308, the largest power of ten that is finite
  Texts          \* the texts to read

ASSUME NumbersAssumption ==
  /\ MaxDigits \in Nat \ {0} /\ HalfDigits \in 1 .. MaxDigits
  /\ PowerBits \in Nat /\ 2 ^ PowerBits \in Nat
  /\ MaxPower \in Nat /\ MaxPower < 2 ^ PowerBits - 1
  /\ Texts \subseteq Seq(STRING)

VARIABLES text, reader, number

numberVars == <<text, reader, number>>

Digits == <<"0", "1", "2", "3", "4", "5", "6", "7", "8", "9">>
\* The characters of which isdigit and isspace are true.
isdigit == {Digits[d] : d \in 1 .. 10}
isspace == {" ", "tab", "newline"}
ValueOf(c) == (CHOOSE d \in 1 .. 10 : Digits[d] = c) - 1

\* The character at p, an offset from the start; the NUL at the end.
At(t, p) == IF p < Len(t) THEN t[p + 1] ELSE "NUL"

\* The first offset from p on at which the class ends.
Skip(t, p, class) ==
  LET end[q \in Nat] == IF At(t, q) \in class THEN end[q + 1] ELSE q IN end[p]

\* The number that digits collect.
ValueIn(s) ==
  LET value[k \in 0 .. Len(s)] ==
        IF k = 0 THEN 0 ELSE 10 * value[k - 1] + ValueOf(s[k])
  IN value[Len(s)]

TenTo[k \in Nat] == IF k = 0 THEN 1 ELSE 10 * TenTo[k - 1]

-----------------------------------------------------------------------------
\* No blanks are skipped.
atoi(t) ==
  LET p == IF At(t, 0) \in {"-", "+"} THEN 1 ELSE 0
      k == ValueIn(SubSeq(t, p + 1, Skip(t, p, isdigit)))
  IN IF At(t, 0) = "-" THEN -k ELSE k

\* powersOf10 has an entry for every bit of maxExponent.
maxExponent == 2 ^ PowerBits - 1

\* The mantissa at p: where it ends, its digits without the point, and how many
\* of them stand before the point.
Mantissa10(t, p) ==
  LET point == Skip(t, p, isdigit)
      end == IF At(t, point) = "." THEN Skip(t, point + 1, isdigit) ELSE point
  IN [end |-> end, decPt |-> point - p,
      digits |-> SubSeq(t, p + 1, point) \o SubSeq(t, point + 2, end)]

\* Two integers collect the digits; the first takes what the second has no
\* room for.
Fraction(digits) ==
  LET first == Len(digits) - HalfDigits
  IN IF first <= 0 THEN ValueIn(digits)
     ELSE ValueIn(SubSeq(digits, 1, first)) * TenTo[HalfDigits]
            + ValueIn(SubSeq(digits, first + 1, Len(digits)))

\* The exponent at p, if there is one: its value and where it ends.
Exponent10(t, p) ==
  LET q == IF At(t, p + 1) \in {"-", "+"} THEN p + 2 ELSE p + 1
      end == Skip(t, q, isdigit)
      n == ValueIn(SubSeq(t, q + 1, end))
  IN IF At(t, p) # "e" THEN [end |-> p, exp |-> 0]
     ELSE [end |-> end, exp |-> IF At(t, p + 1) = "-" THEN -n ELSE n]

\* Faulty: the digits that are dropped do not count in the exponent.
FracExpOfAll(m) == m.decPt - Len(m.digits)

FracExp(m) ==
  IF Len(m.digits) > MaxDigits THEN m.decPt - MaxDigits ELSE m.decPt - Len(m.digits)

\* fraction * 10 ^ exp, where the power may be infinite.
Double(fraction, exp) ==
  IF exp > MaxPower THEN IF fraction = 0 THEN [kind |-> "nan"] ELSE [kind |-> "infinite"]
  ELSE IF exp < -MaxPower THEN [kind |-> "finite", fraction |-> 0, exp |-> 0]
  ELSE [kind |-> "finite", fraction |-> fraction, exp |-> exp]

\* The digits beyond MaxDigits are dropped, leading zeros counted with them; an
\* exponent that is too large is cut to maxExponent.
strtod(t) ==
  LET start == Skip(t, 0, isspace)
      p == IF At(t, start) \in {"-", "+"} THEN start + 1 ELSE start
      m == Mantissa10(t, p)
      x == Exponent10(t, m.end)
      used == SubSeq(m.digits, 1, IF Len(m.digits) > MaxDigits THEN MaxDigits
                                  ELSE Len(m.digits))
      exp == FracExp(m) + x.exp
      range == exp \notin -maxExponent .. maxExponent
      cut == IF ~range THEN exp ELSE IF exp < 0 THEN -maxExponent ELSE maxExponent
  IN IF m.digits = <<>>
       THEN [negative |-> At(t, start) = "-", double |-> Double(0, 0), end |-> 0,
             range |-> FALSE]
     ELSE [negative |-> At(t, start) = "-", double |-> Double(Fraction(used), cut),
           end |-> x.end, range |-> range]

-----------------------------------------------------------------------------
NumbersInit == text = <<>> /\ reader = "none" /\ number = <<>>

\* One text is read.
NumbersNext ==
  /\ reader = "none"
  /\ \E t \in Texts :
       /\ text' = t
       /\ \/ reader' = "atoi" /\ number' = [value |-> atoi(t)]
          \/ reader' = "strtod" /\ number' = strtod(t)

NumbersSpec == NumbersInit /\ [][NumbersNext]_numberVars

-----------------------------------------------------------------------------
(* What C says, told from the ways a text may be divided.                  *)

\* The characters from offset i on, in front of offset j, are of a class.
Are(class, t, i, j) == \A q \in i .. j - 1 : At(t, q) \in class
Cut(t, i, j) == SubSeq(t, i + 1, j)

\* A division of a text: blanks, sign, integer, point and fraction, exponent, of so
\* many characters each, where they end, and whether they are a number.
SignEnd(d) == d.blanks + d.sign
IntegerEnd(d) == SignEnd(d) + d.integer
MantissaEnd(d) == IntegerEnd(d) + d.fraction
NumberEnd(d) == MantissaEnd(d) + d.exponent
ExponentDigits(t, d) ==
  MantissaEnd(d) + (IF At(t, MantissaEnd(d) + 1) \in {"-", "+"} THEN 2 ELSE 1)
IsFloat(t, d) ==
  /\ NumberEnd(d) <= Len(t)
  /\ Are(isspace, t, 0, d.blanks) /\ Are({"-", "+"}, t, d.blanks, SignEnd(d))
  /\ Are(isdigit, t, SignEnd(d), IntegerEnd(d))
  /\ d.fraction > 0 =>
       At(t, IntegerEnd(d)) = "." /\ Are(isdigit, t, IntegerEnd(d) + 1, MantissaEnd(d))
  /\ d.integer > 0 \/ d.fraction > 1
  /\ d.exponent > 0 =>
       /\ At(t, MantissaEnd(d)) = "e" /\ ExponentDigits(t, d) < NumberEnd(d)
       /\ Are(isdigit, t, ExponentDigits(t, d), NumberEnd(d))
Blanks(t) ==
  CHOOSE b \in 0 .. Len(t) : Are(isspace, t, 0, b) /\ At(t, b) \notin isspace
Floats10(t) ==
  {d \in [blanks : {Blanks(t)}, sign : {0, 1}, integer : 0 .. Len(t),
          fraction : 0 .. Len(t), exponent : 0 .. Len(t)] : IsFloat(t, d)}

\* The value is digits * 10 ^ exp.
DigitsIn10(t, d) ==
  Cut(t, SignEnd(d), IntegerEnd(d)) \o Cut(t, IntegerEnd(d) + 1, MantissaEnd(d))
ExponentIn(t, d) ==
  LET n == ValueIn(Cut(t, ExponentDigits(t, d), NumberEnd(d)))
  IN IF d.exponent = 0 THEN 0 ELSE IF At(t, MantissaEnd(d) + 1) = "-" THEN -n ELSE n

\* The longest number that a text begins with.
LongestFloat(t) ==
  CHOOSE d \in Floats10(t) : \A e \in Floats10(t) : NumberEnd(e) <= NumberEnd(d)

\* An "e" without digits stands behind the number.
BareE(t, d) == d.exponent = 0 /\ At(t, NumberEnd(d)) = "e"

\* No zero in front is among the digits that count when there are too many.
NoEarlyZeros(digits) == Len(digits) <= MaxDigits \/ digits[1] # "0"

\* What strtod returns of a text that begins with the number d.
ReadsAsInC(t, r, d) ==
  LET digits == DigitsIn10(t, d)
      exp == ExponentIn(t, d) - (IF d.fraction = 0 THEN 0 ELSE d.fraction - 1)
      k == IF Len(digits) > MaxDigits THEN Len(digits) - MaxDigits ELSE 0
      shown == ValueIn(digits) \div TenTo[k]
  IN /\ r.negative = (At(t, d.blanks) = "-")
     /\ ~BareE(t, d) => r.end = NumberEnd(d)
     /\ NoEarlyZeros(digits) =>
          /\ exp + k \in -MaxPower .. MaxPower =>
               r.double = [kind |-> "finite", fraction |-> shown, exp |-> exp + k]
          /\ exp + k > MaxPower /\ shown # 0 => r.double = [kind |-> "infinite"]
          /\ exp + k < -MaxPower /\ shown = 0 =>
               r.double = [kind |-> "finite", fraction |-> 0, exp |-> 0]
     /\ r.range => exp + k \notin -MaxPower .. MaxPower
     /\ exp + k \notin -maxExponent .. maxExponent /\ shown # 0 => r.range

\* strtod reads the longest text that is a decimal number and returns its value, cut
\* to MaxDigits digits; an infinity where the power of ten is beyond MaxPower.
\* Errors of range are reported of such numbers only, and of all that are beyond
\* maxExponent.  Not claimed, because the code does something else: where a number
\* ends that an "e" without digits follows; the value when zeros in front are among
\* the digits that count; what 0 times an infinite power is; and that a small number
\* with many digits is not 0.  atoi reads what C says, unless blanks come first.
NumbersAsInC ==
  /\ reader = "strtod" =>
       IF Floats10(text) = {} THEN number.end = 0 /\ ~number.range /\ number.double = Double(0, 0)
       ELSE ReadsAsInC(text, number, LongestFloat(text))
  /\ reader = "atoi" /\ At(text, 0) # " " =>
       LET s == IF At(text, 0) \in {"-", "+"} THEN 1 ELSE 0
           e == CHOOSE i \in s .. Len(text) :
                  Are(isdigit, text, s, i) /\ At(text, i) \notin isdigit
           n == ValueIn(Cut(text, s, e))
       IN number.value = IF At(text, 0) = "-" THEN -n ELSE n

\* The digits beyond MaxDigits "can't affect the value anyway": a number that has such
\* digits, no exponent and no more digits than there are powers of ten is not read
\* as 0, unless it is 0.
ExtrasCannotMatter ==
  reader = "strtod" /\ Floats10(text) # {} =>
    LET d == LongestFloat(text)
        digits == DigitsIn10(text, d)
        r == number.double
    IN d.exponent = 0 /\ Len(digits) \in MaxDigits + 1 .. MaxPower /\ ValueIn(digits) # 0
         => r.kind = "infinite" \/ r.fraction # 0

\* endPtr is "the address of the next character after the last one that was part of
\* the floating-point number".
EndsBehindNumber ==
  reader = "strtod" /\ Floats10(text) # {} =>
    number.end = NumberEnd(LongestFloat(text))
=============================================================================
