------------------------------ MODULE MathBits -----------------------------
(***************************************************************************)
(* The functions of libc/src/math whose results C determines to the bit:   *)
(* the ones that round to integers and take floats apart, the remainder,   *)
(* the square root, and the special cases of atan2 and pow.                *)
(* A call is a function, its arguments and its results; the approximation  *)
(* that sqrt starts from is any of those its comment allows.               *)
(***************************************************************************)
EXTENDS Floats

CONSTANTS
  LongBits,          \* 64
  LowBits,           \* 32, the low word of EXTRACT_WORDS
  AtanGap,           \* 64, the exponents from which y/x is taken for 0 or infinity
  PowTiny, PowHuge,  \* 0x3be and 0x43e, the exponents of y that pow treats apart
  Corners,           \* arguments for the functions of two floats
  Shifts             \* the second arguments of scalbn

ASSUME MathBitsAssumption ==
  /\ Corners \subseteq Patterns /\ Shifts \subseteq Int
  /\ LowBits \in 0 .. MantBits /\ AtanGap \in Nat
  /\ PowTiny \in 1 .. Bias /\ PowHuge \in Bias + MantBits + 1 .. ExpMax - 1

VARIABLES
  fn,       \* the function called, "none" before the call
  operands, \* its arguments
  result    \* what it returns and stores, in order

mathVars == <<fn, operands, result>>

-----------------------------------------------------------------------------
(* Rounding to an integer.                                                 *)

toint == (Bias + MantBits) * Hidden       \* 1/EPS

\* An integer neighbour of x: x - toint + toint or x + toint - toint.
Neighbour(x) ==
  LET t == WithSign(SignBit(x), toint) IN Difference(Plus(x, t), t)

floor(x) ==
  LET y == Difference(Neighbour(x), x) IN
  IF Exponent(x) >= Bias + MantBits \/ IsZero(x) THEN x
  ELSE IF Exponent(x) <= Bias - 1 THEN IF SignBit(x) = 1 THEN Negated(One) ELSE Zero
  ELSE IF Below(Zero, y) THEN Difference(Plus(x, y), One) ELSE Plus(x, y)

ceil(x) ==
  LET y == Difference(Neighbour(x), x) IN
  IF Exponent(x) >= Bias + MantBits \/ IsZero(x) THEN x
  ELSE IF Exponent(x) <= Bias - 1 THEN IF SignBit(x) = 1 THEN Negated(Zero) ELSE One
  ELSE IF Below(y, Zero) THEN Plus(Plus(x, y), One) ELSE Plus(x, y)

\* Clears the bits of the fraction: all but the sign where there is no other.
trunc(x) ==
  LET e == Exponent(x) - Bias
      cleared == TwoTo[IF e < 0 THEN ExpBits + MantBits ELSE MantBits - e]
  IN IF e >= MantBits THEN x ELSE x - (x % cleared)

rint(x) ==
  IF Exponent(x) >= Bias + MantBits THEN x
  ELSE IF IsZero(Neighbour(x)) THEN WithSign(SignBit(x), Zero) ELSE Neighbour(x)

round(x) ==
  LET a == AbsBits(x)
      y == Difference(Neighbour(a), a)
      n == IF Below(Half, y) THEN Difference(Plus(y, a), One)
           ELSE IF ~Below(Negated(Half), y) THEN Plus(Plus(y, a), One)
           ELSE Plus(y, a)
  IN IF Exponent(x) >= Bias + MantBits THEN x
     ELSE IF Exponent(x) < Bias - 1 THEN WithSign(SignBit(x), Zero)
     ELSE IF SignBit(x) = 1 THEN Negated(n) ELSE n

\* long is wider than a mantissa, so lrint is a cast of rint, which C leaves
\* undefined where the integer has no long.
IntegerOf(x) ==
  (IF SignBit(x) = 1 THEN -1 ELSE 1)
    * (IF Pow(x) >= UnitBits THEN Sig(x) * TwoTo[Pow(x) - UnitBits]
                             ELSE Sig(x) \div TwoTo[UnitBits - Pow(x)])
FitsLong(x) ==
  \/ AbsBits(x) < Nearest(1, UnitBits + LongBits - 1)
  \/ x = WithSign(1, Nearest(1, UnitBits + LongBits - 1))
lrint(x) == IF FitsLong(rint(x)) THEN <<IntegerOf(rint(x))>> ELSE <<>>

-----------------------------------------------------------------------------
(* Taking floats apart.                                                    *)

\* The fraction, and the integer stored through iptr.
modf(x) ==
  LET e == Exponent(x) - Bias
      none == WithSign(SignBit(x), Zero)
      fraction == x % TwoTo[MantBits - e]
  IN IF e >= MantBits
       THEN <<IF e = Bias + 1 /\ Mantissa(x) # 0 THEN x ELSE none, x>>
     ELSE IF e < 0 THEN <<x, none>>
     ELSE IF fraction = 0 THEN <<none, x>>
     ELSE <<Difference(x, x - fraction), x - fraction>>

\* A subnormal is first scaled up, by 2^64 in the code.  The exponent is left
\* unset for infinity and NaN.
frexp(x) ==
  LET k == MantBits + 1
      split(u) == <<WithSign(SignBit(u), Half + Mantissa(u)), Exponent(u) - (Bias - 1)>>
      up == split(Scaled(x, k))
  IN IF IsZero(x) THEN <<x, 0>>
     ELSE IF Exponent(x) = 0 THEN <<up[1], up[2] - k>>
     ELSE IF Exponent(x) = ExpMax THEN <<x>> ELSE split(x)

\* Faulty: steps down by the smallest power of two there is.
ScalbnOnce(x, n) ==
  LET step(p) ==
        IF p.n > Bias THEN [y |-> Scaled(p.y, Bias), n |-> p.n - Bias]
        ELSE IF p.n < 1 - Bias THEN [y |-> Scaled(p.y, 1 - Bias), n |-> p.n + Bias - 1]
        ELSE p
      last == step(step([y |-> x, n |-> n]))
  IN Scaled(last.y, Lesser(Greater(last.n, 1 - Bias), Bias))

\* Two steps at most, then the rest of n.
scalbn(x, n) ==
  LET down == Bias - 1 - (MantBits + 1)
      step(p) ==
        IF p.n > Bias THEN [y |-> Scaled(p.y, Bias), n |-> p.n - Bias]
        ELSE IF p.n < 1 - Bias THEN [y |-> Scaled(p.y, -down), n |-> p.n + down]
        ELSE p
      last == step(step([y |-> x, n |-> n]))
  IN Scaled(last.y, Lesser(Greater(last.n, 1 - Bias), Bias))

copysign(x, y) == WithSign(SignBit(y), x)
fabs(x) == AbsBits(x)

fmax(x, y) ==
  IF IsNaN(x) THEN y ELSE IF IsNaN(y) THEN x
  ELSE IF SignBit(x) # SignBit(y) THEN IF SignBit(x) = 1 THEN y ELSE x
  ELSE IF Below(x, y) THEN y ELSE x
fmin(x, y) ==
  IF IsNaN(x) THEN y ELSE IF IsNaN(y) THEN x
  ELSE IF SignBit(x) # SignBit(y) THEN IF SignBit(x) = 1 THEN x ELSE y
  ELSE IF Below(x, y) THEN x ELSE y

-----------------------------------------------------------------------------
(* Remainder and square root.                                              *)

\* Exponent and mantissa, the mantissa of a subnormal shifted up.
Normal(u) ==
  LET m == Mantissa(u) IN
  IF Exponent(u) # 0 THEN [e |-> Exponent(u), m |-> Hidden + m]
  ELSE [e |-> BitLength(m) - MantBits,
        m |-> m * TwoTo[MantBits + 1 - BitLength(m)]]

\* Long division, one bit of the quotient for every exponent between.
fmod(x, y) ==
  LET a == Normal(x)  b == Normal(y)
      less(m) == IF m >= b.m THEN m - b.m ELSE m
      loop[i \in Nat] == IF i = 0 THEN a.m ELSE 2 * less(loop[i - 1])
      m == less(loop[a.e - b.e])
      e == b.e - (MantBits + 1 - BitLength(m))
      bits == m * TwoTo[MantBits + 1 - BitLength(m)]
      r == IF e > 0 THEN bits - Hidden + e * Hidden ELSE bits \div TwoTo[1 - e]
  IN IF IsZero(y) \/ IsNaN(y) \/ Exponent(x) = ExpMax THEN NaN
     ELSE IF AbsBits(x) < AbsBits(y) THEN x
     ELSE IF AbsBits(x) = AbsBits(y) \/ m = 0 THEN WithSign(SignBit(x), Zero)
     ELSE WithSign(SignBit(x), r)

\* The argument of the root as 4^e m with m in [1, 4): top is the exponent
\* field, m counts in 2^(-2 MantBits).
Reduced(x) ==
  LET ix == IF Exponent(x) = 0 THEN Scaled(x, MantBits) ELSE x
      top == Exponent(ix) - (IF Exponent(x) = 0 THEN MantBits ELSE 0)
  IN [top |-> (top + Bias) \div 2,
      m |-> (Hidden + Mantissa(ix)) * Hidden * (IF top % 2 = 1 THEN 1 ELSE 2)]

Square(n) == n * n

\* What the table and the iterations may arrive at:
\* s < sqrt(m) < s + 0x1.09p-52.
Approximations(x) ==
  {s \in 0 .. 2 * Hidden :
     LET m == Reduced(x).m IN s * s < m /\ Square(256) * m < Square(256 * s + 265)}

\* The nearest result is s or the next one; the products wrap around.
sqrt(x, s) ==
  LET r == Reduced(x)
      word == 2 * SignWeight
      d0 == (r.m - s * s) % word
      d1 == (s - d0) % word
  IN IF IsZero(x) \/ x = Infinity THEN x
     ELSE IF x > Infinity THEN NaN
     ELSE r.top * Hidden + ((s + d1 \div SignWeight) % Hidden)

-----------------------------------------------------------------------------
(* Special cases.                                                          *)

HighWord(u) == AbsBits(u) \div TwoTo[LowBits]

\* An angle: sign, quarters of pi, and how often atan|y/x| is added to them.
\* Which of two floats is far larger is told from their high words.
atan2(y, x) ==
  LET sy == SignBit(y)  sx == SignBit(x)
      far == AtanGap * TwoTo[MantBits - LowBits]
  IN IF IsNaN(x) \/ IsNaN(y) THEN <<>>
     ELSE IF x = One THEN <<sy, 0, 1>>
     ELSE IF IsZero(y) THEN <<sy, 4 * sx, 0>>
     ELSE IF IsZero(x) THEN <<sy, 2, 0>>
     ELSE IF AbsBits(x) = Infinity
       THEN IF AbsBits(y) = Infinity THEN <<sy, 1 + 2 * sx, 0>> ELSE <<sy, 4 * sx, 0>>
     ELSE IF HighWord(x) + far < HighWord(y) \/ AbsBits(y) = Infinity
       THEN <<sy, 2, 0>>
     ELSE IF sx = 0 THEN <<sy, 0, 1>>
     ELSE <<sy, 4, IF HighWord(y) + far < HighWord(x) THEN 0 ELSE -1>>

\* 0 if not an integer, 1 if odd, 2 if even.
checkint(y) ==
  LET e == Exponent(y)  unit == TwoTo[Bias + MantBits - e] IN
  IF e < Bias THEN 0
  ELSE IF e > Bias + MantBits THEN 2
  ELSE IF y % unit # 0 THEN 0
  ELSE IF (y \div unit) % 2 = 1 THEN 1 ELSE 2

zeroinfnan(u) == IsZero(u) \/ AbsBits(u) >= Infinity

\* pow outside its special cases is exp(y log|x|), with a sign.
pow(x, y) ==
  LET ax == AbsBits(x)
      outside == Exponent(y) < PowTiny \/ Exponent(y) >= PowHuge
      sign == IF SignBit(x) = 1 /\ checkint(y) = 1 THEN 1 ELSE 0
      ofX == IF IsNaN(x) THEN NaN
             ELSE WithSign(sign, IF IsZero(x) = (SignBit(y) = 0) THEN Zero ELSE Infinity)
  IN IF zeroinfnan(y)
       THEN IF IsZero(y) \/ x = One THEN <<"exact", One>>
            ELSE IF IsNaN(x) \/ IsNaN(y) THEN <<"exact", NaN>>
            ELSE IF ax = One THEN <<"exact", One>>
            ELSE IF (ax < One) = (SignBit(y) = 0) THEN <<"exact", Zero>>
            ELSE <<"exact", Infinity>>
     ELSE IF zeroinfnan(x) THEN <<"exact", ofX>>
     ELSE IF SignBit(x) = 1 /\ checkint(y) = 0 THEN <<"exact", NaN>>
     ELSE IF ~outside THEN <<"exp", sign>>
     ELSE IF ax = One THEN <<"exact", One>>
     ELSE IF Exponent(y) < PowTiny
       THEN <<"near one", IF (ax > One) = (SignBit(y) = 0) THEN 1 ELSE -1>>
     ELSE <<"exact", IF (ax > One) = (SignBit(y) = 0) THEN Infinity ELSE Zero>>

-----------------------------------------------------------------------------
MathInit == fn = "none" /\ operands = <<>> /\ result = <<>>

MathCall(f, args, res) == fn' = f /\ operands' = args /\ result' = res

OfOne ==
  \E x \in Patterns :
    \/ MathCall("floor", <<x>>, <<floor(x)>>) \/ MathCall("ceil", <<x>>, <<ceil(x)>>)
    \/ MathCall("trunc", <<x>>, <<trunc(x)>>) \/ MathCall("rint", <<x>>, <<rint(x)>>)
    \/ MathCall("round", <<x>>, <<round(x)>>) \/ MathCall("lrint", <<x>>, lrint(x))
    \/ MathCall("fabs", <<x>>, <<fabs(x)>>)
    \/ MathCall("modf", <<x>>, modf(x)) \/ MathCall("frexp", <<x>>, frexp(x))
    \/ \E s \in IF x \in 1 .. Infinity - 1 THEN Approximations(x) ELSE {0} :
         MathCall("sqrt", <<x>>, <<sqrt(x, s)>>)
    \/ \E n \in Shifts : MathCall("scalbn", <<x, n>>, <<scalbn(x, n)>>)

OfTwo ==
  \/ \E x, y \in Patterns : MathCall("fmod", <<x, y>>, <<fmod(x, y)>>)
  \/ \E x, y \in Corners :
       \/ MathCall("fmax", <<x, y>>, <<fmax(x, y)>>)
       \/ MathCall("fmin", <<x, y>>, <<fmin(x, y)>>)
       \/ MathCall("copysign", <<x, y>>, <<copysign(x, y)>>)
       \/ MathCall("atan2", <<x, y>>, atan2(x, y))
       \/ MathCall("pow", <<x, y>>, pow(x, y))

\* One call.
MathNext == fn = "none" /\ (OfOne \/ OfTwo)

MathSpec == MathInit /\ [][MathNext]_mathVars

-----------------------------------------------------------------------------
(* What C says.                                                            *)

X == operands[1]
Y == operands[2]

\* |x| as an integer and a remainder in UnitsIn(x) parts.
UnitsIn(x) == TwoTo[UnitBits - Pow(x)]
Whole(x) == IsNaN(x) \/ Pow(x) >= UnitBits \/ Sig(x) % UnitsIn(x) = 0
IntPart(x) == Sig(x) \div UnitsIn(x)
Parts(x) == Sig(x) % UnitsIn(x)

\* Is the magnitude rounded up?
RoundsUp(f, x) ==
  CASE f = "floor" -> SignBit(x) = 1
    [] f = "ceil"  -> SignBit(x) = 0
    [] f = "trunc" -> FALSE
    [] f = "round" -> 2 * Parts(x) >= UnitsIn(x)
    [] f = "rint"  -> \/ 2 * Parts(x) > UnitsIn(x)
                      \/ 2 * Parts(x) = UnitsIn(x) /\ IntPart(x) % 2 = 1
Integral(f, x) ==
  IF Whole(x) THEN x
  ELSE WithSign(SignBit(x),
         Nearest(IntPart(x) + (IF RoundsUp(f, x) THEN 1 ELSE 0), UnitBits))

\* floor, ceil, trunc, rint and round give the integer C says for every float,
\* which keeps the sign of x when it is zero, and x itself when it is infinite
\* or a NaN; lrint gives rint's; modf splits every float into that of trunc and
\* an exact rest.
RoundsAsInC ==
  /\ fn \in {"floor", "ceil", "trunc", "rint", "round"} =>
       result = <<Integral(fn, X)>>
  /\ fn = "lrint" => LET r == Integral("rint", X) IN
       result = IF FitsLong(r) THEN <<IntegerOf(r)>> ELSE <<>>
  /\ fn = "modf" =>
       result = <<IF IsNaN(X) THEN X
                  ELSE WithSign(SignBit(X),
                         IF Whole(X) THEN Zero ELSE Nearest(Parts(X), Pow(X))),
                  Integral("trunc", X)>>

\* |x| mod |y|, where |x| >= |y|.
ExactRemainder(x, y) ==
  LET power[k \in Nat] == IF k = 0 THEN 1 % Sig(y) ELSE (2 * power[k - 1]) % Sig(y)
  IN IF Pow(x) >= Pow(y)
       THEN Nearest((Sig(x) * power[Pow(x) - Pow(y)]) % Sig(y), Pow(y))
       ELSE Nearest(Sig(x) % (Sig(y) * TwoTo[Pow(y) - Pow(x)]), Pow(x))

\* Is r the float nearest to the root of x?
NearestRoot(r, x) ==
  LET k == UnitBits + Pow(x) - 2 * Pow(r) + 4
      below == IF Mantissa(r) = 0 THEN 1 ELSE 2
  IN /\ Square(4 * Sig(r) - below) < Sig(x) * TwoTo[k]
     /\ Sig(x) * TwoTo[k] < Square(4 * Sig(r) + 2)

\* -0 is below +0.
Order(u) == IF SignBit(u) = 1 THEN -AbsBits(u) - 1 ELSE u

\* scalbn rounds once, also into the subnormal range, and reaches from every
\* float to every other; frexp is exact; fmod is exact for every quotient, with
\* the sign of x; sqrt is rounded correctly whatever approximation the
\* iterations reach; maximum and minimum order the zeros and ignore NaNs.
ExactAsInC ==
  /\ fn = "scalbn" =>
       result = <<IF AbsBits(X) >= Infinity THEN X
                  ELSE WithSign(SignBit(X), Nearest(Sig(X), Pow(X) + Y))>>
  /\ fn = "frexp" =>
       IF AbsBits(X) >= Infinity THEN result = <<X>>
       ELSE IF IsZero(X) THEN result = <<X, 0>>
       ELSE LET d == result[1] IN
            /\ Exponent(d) = Bias - 1 /\ SignBit(d) = SignBit(X)
            /\ Nearest(Sig(d), Pow(d) + result[2]) = AbsBits(X)
  /\ fn = "fabs" => result[1] \in {X, Negated(X)} /\ SignBit(result[1]) = 0
  /\ fn = "copysign" => result[1] \in {X, Negated(X)} /\ SignBit(result[1]) = SignBit(Y)
  /\ fn = "fmod" =>
       result = <<IF IsNaN(X) \/ IsNaN(Y) \/ IsZero(Y) \/ AbsBits(X) = Infinity THEN NaN
                  ELSE IF AbsBits(X) < AbsBits(Y) THEN X
                  ELSE WithSign(SignBit(X), ExactRemainder(X, Y))>>
  /\ fn = "sqrt" =>
       IF IsZero(X) \/ X = Infinity THEN result = <<X>>
       ELSE IF X > Infinity THEN result = <<NaN>>
       ELSE SignBit(result[1]) = 0 /\ NearestRoot(result[1], X)
  /\ fn \in {"fmax", "fmin"} =>
       LET numbers == {u \in {X, Y} : ~IsNaN(u)} IN
       IF numbers = {} THEN IsNaN(result[1])
       ELSE /\ result[1] \in numbers
            /\ \A u \in numbers : IF fn = "fmax" THEN Order(u) <= Order(result[1])
                                                 ELSE Order(result[1]) <= Order(u)

OddInteger(y) ==
  /\ Whole(y) /\ Pow(y) < UnitBits + MantBits
  /\ IF Pow(y) >= UnitBits THEN Pow(y) = UnitBits /\ Sig(y) % 2 = 1
                           ELSE IntPart(y) % 2 = 1

\* |x|^y grows with y when |x| > 1 and shrinks when |x| < 1.
Grows == (AbsBits(X) > One) = (SignBit(Y) = 0)
PowLimit ==
  IF AbsBits(X) = One THEN One ELSE IF Grows THEN Infinity ELSE Zero

PowInC ==
  LET sign == IF SignBit(X) = 1 /\ OddInteger(Y) THEN 1 ELSE 0 IN
  IF IsZero(Y) THEN result = <<"exact", One>>
  ELSE IF X = One THEN result \in {<<"exact", One>>, <<"exp", 0>>}
  ELSE IF IsNaN(X) \/ IsNaN(Y) THEN result = <<"exact", NaN>>
  ELSE IF SignBit(X) = 1 /\ ~Whole(Y) /\ ~zeroinfnan(X) THEN result = <<"exact", NaN>>
  ELSE IF zeroinfnan(X) \/ zeroinfnan(Y)
    THEN result = <<"exact", WithSign(sign, PowLimit)>>
  ELSE CASE result[1] = "exp" -> result[2] = sign
         [] result[1] = "near one" ->
              sign = 0 /\ AbsBits(X) # One /\ result[2] = IF Grows THEN 1 ELSE -1
         [] result[1] = "exact" -> sign = 0 /\ result[2] = PowLimit

\* The eighths of the circle a point lies in, counted from the x axis.
Octants(x, y) ==
  LET first == IF AbsBits(y) < AbsBits(x) THEN {0}
               ELSE IF AbsBits(y) > AbsBits(x) THEN {1} ELSE {0, 1}
  IN IF SignBit(x) = 0 THEN first ELSE {3 - o : o \in first}

Atan2InC ==
  LET q == result[2]  octants == Octants(Y, X) IN
  IF IsNaN(X) \/ IsNaN(Y) THEN result = <<>>
  ELSE /\ result[1] = SignBit(X)
       /\ IF result[3] = 0 THEN octants \cap {q - 1, q} # {}
          ELSE /\ AbsBits(Y) \in 1 .. Infinity - 1
               /\ <<q, result[3]>> = IF SignBit(Y) = 0 THEN <<0, 1>> ELSE <<4, -1>>
       /\ IsZero(X) /\ result[3] = 0 => q = 4 * SignBit(Y)
       /\ IsZero(Y) /\ ~IsZero(X) => q = 2
       /\ AbsBits(X) = Infinity /\ AbsBits(Y) = Infinity => q = 1 + 2 * SignBit(Y)

\* pow and atan2 choose, among their special cases, the value and sign C's tables
\* give: powers of zero, one, infinity and NaN and the signs that odd integers
\* keep, and the angles on the axes, at infinity and in every quadrant.
SpecialAsInC ==
  /\ fn = "pow" => PowInC
  /\ fn = "atan2" => Atan2InC

\* Every function that the module has gives, for every float and pair of floats,
\* the results that C determines.
MathAsInC == RoundsAsInC /\ ExactAsInC /\ SpecialAsInC
=============================================================================
