------------------------------- MODULE Floats ------------------------------
(***************************************************************************)
(* A binary floating-point format of IEEE 754, at any width: the bit       *)
(* patterns that the functions of libc/src/math take apart (libm.h), and   *)
(* the operations of the processor that they use on them, rounding to the  *)
(* nearest.  A float is its bit pattern, a natural number, as asuint64     *)
(* gives it.                                                               *)
(***************************************************************************)
EXTENDS Integers

CONSTANTS
  MantBits,   \* bits of the mantissa that are stored: 52 for a double
  ExpBits     \* bits of the exponent: 11

\* 2 ^ k
TwoTo[k \in Nat] == IF k = 0 THEN 1 ELSE 2 * TwoTo[k - 1]

ASSUME FloatsAssumption ==
  /\ MantBits \in Nat \ {0} /\ ExpBits \in Nat \ {0, 1}
  /\ TwoTo[ExpBits - 1] > 3 * MantBits + 6   \* as 1024 > 3 * 52 + 6

SignWeight == TwoTo[ExpBits + MantBits]
Hidden == TwoTo[MantBits]
Bias == TwoTo[ExpBits - 1] - 1            \* 0x3ff
ExpMax == TwoTo[ExpBits] - 1              \* 0x7ff
Infinity == ExpMax * Hidden
Patterns == 0 .. 2 * SignWeight - 1

SignBit(u) == u \div SignWeight
AbsBits(u) == u % SignWeight
Exponent(u) == AbsBits(u) \div Hidden
Mantissa(u) == u % Hidden
WithSign(s, u) == s * SignWeight + AbsBits(u)
Negated(u) == WithSign(1 - SignBit(u), u)

IsNaN(u) == AbsBits(u) > Infinity
IsZero(u) == AbsBits(u) = 0
NaN == Infinity + Hidden \div 2           \* the one an invalid operation makes

\* The magnitude of a finite float is Sig(u) * 2 ^ Pow(u) times the smallest
\* subnormal, which is 2 ^ -UnitBits.
Sig(u) == IF Exponent(u) = 0 THEN Mantissa(u) ELSE Hidden + Mantissa(u)
Pow(u) == IF Exponent(u) = 0 THEN 0 ELSE Exponent(u) - 1
UnitBits == Bias - 1 + MantBits

BitLength(n) == CHOOSE l \in 0 .. n : n < TwoTo[l] /\ (l = 0 \/ TwoTo[l - 1] <= n)

Lesser(i, j) == IF i < j THEN i ELSE j
Greater(i, j) == IF i > j THEN i ELSE j

\* The float nearest to n * 2 ^ k smallest subnormals, the even one of two.
Nearest(n, k) ==
  LET p == Greater(k + BitLength(n) - (MantBits + 1), 0)
      s == Lesser(p - k, BitLength(n) + 2)
      q == n \div TwoTo[s]
      r == n % TwoTo[s]
      up == IF 2 * r > TwoTo[s] \/ (2 * r = TwoTo[s] /\ q % 2 = 1) THEN 1 ELSE 0
  IN IF n = 0 THEN 0
     ELSE IF s <= 0 THEN Lesser(p * Hidden + n * TwoTo[k - p], Infinity)
     ELSE Lesser(p * Hidden + q + up, Infinity)

\* x * 2 ^ k
Scaled(x, k) ==
  IF AbsBits(x) >= Infinity THEN x
  ELSE WithSign(SignBit(x), Nearest(Sig(x), Pow(x) + k))

\* x + y and x - y
Plus(x, y) ==
  LET c == Lesser(Pow(x), Pow(y))
      signed(u) == (IF SignBit(u) = 1 THEN -1 ELSE 1) * Sig(u) * TwoTo[Pow(u) - c]
      n == signed(x) + signed(y)
  IN IF IsNaN(x) \/ IsNaN(y) THEN NaN
     ELSE IF Infinity \in {AbsBits(x), AbsBits(y)}
       THEN IF AbsBits(x) # Infinity THEN y
            ELSE IF y = Negated(x) THEN NaN ELSE x
     ELSE IF n = 0
       THEN WithSign(IF SignBit(x) = 1 /\ SignBit(y) = 1 THEN 1 ELSE 0, 0)
     ELSE IF n < 0 THEN WithSign(1, Nearest(-n, c)) ELSE Nearest(n, c)
Difference(x, y) == IF IsNaN(y) THEN NaN ELSE Plus(x, Negated(y))

\* x < y
Key(u) == IF SignBit(u) = 1 THEN -AbsBits(u) ELSE u
Below(x, y) == ~IsNaN(x) /\ ~IsNaN(y) /\ Key(x) < Key(y)

Zero == 0
Half == (Bias - 1) * Hidden
One == Bias * Hidden
=============================================================================
