----------------------------- MODULE MathProofs -----------------------------
(***************************************************************************)
(* Proofs about MathBits, for floats of any width: every function gives    *)
(* the result that C determines.                                           *)
(*                                                                         *)
(* The argument is about magnitudes: a finite float has the integer value  *)
(* V(x), counted in smallest subnormals, and whatever the processor adds   *)
(* is the float nearest to the sum of the values.  Where that sum is a     *)
(* float, the operation is exact and the values can be computed with; the  *)
(* one place where it is not, adding 1/EPS and taking it away again, is    *)
(* where a float is rounded to an integer.                                 *)
(***************************************************************************)
EXTENDS MathBits, WellFoundedInduction, TLAPS

-----------------------------------------------------------------------------
(* Numbers, division, and what is computed from each number to the next.   *)

\* Every set of numbers has a least one.
LEMMA LeastNumber ==
  ASSUME NEW T, T \subseteq Nat, T # {}
  PROVE  \E m \in T : \A k \in T : m <= k
  <1>1. \E m \in T : \A k \in T : <<k, m>> \notin OpToRel(<, Nat)
    BY NatLessThanWellFounded, WFMin
  <1>2. PICK m \in T : \A k \in T : <<k, m>> \notin OpToRel(<, Nat)
    BY <1>1
  <1>3. \A k \in T : ~(k < m)
    BY <1>2 DEF OpToRel
  <1>4. QED
    BY <1>3

\* Two functions that begin and go on alike are the same.
LEMMA SameSteps ==
  ASSUME NEW n \in Nat, NEW f, NEW g, f[0] = g[0],
         \A k \in 1 .. n : f[k - 1] = g[k - 1] => f[k] = g[k]
  PROVE  \A k \in 0 .. n : f[k] = g[k]
  <1> DEFINE Bad == {k \in 0 .. n : f[k] # g[k]}
  <1>1. Bad = {}
    <2> SUFFICES ASSUME Bad # {} PROVE FALSE
      OBVIOUS
    <2>1. Bad \subseteq Nat
      OBVIOUS
    <2>2. PICK m \in Bad : \A k \in Bad : m <= k
      <3> HIDE DEF Bad
      <3>1. QED BY <2>1, LeastNumber
    <2>3. m \in 1 .. n
      BY <2>2
    <2>4. m - 1 \in 0 .. n /\ m - 1 \notin Bad
      BY <2>2, <2>3
    <2>5. QED BY <2>2, <2>3, <2>4
  <1>2. QED BY <1>1

\* The same, of functions that go alike by name.
Alike(f, g, n) ==
  f[0] = g[0] /\ \A k \in 1 .. n : f[k - 1] = g[k - 1] => f[k] = g[k]

LEMMA AlikeSame ==
  ASSUME NEW n \in Nat, NEW f, NEW g, Alike(f, g, n)
  PROVE  \A k \in 0 .. n : f[k] = g[k]
  BY SameSteps DEF Alike

\* A quotient and a rest are the only ones.
LEMMA DivUnique ==
  ASSUME NEW g \in Int, NEW j \in Nat \ {0}, NEW q \in Int, NEW r \in 0 .. j - 1,
         g = j * q + r
  PROVE  g \div j = q /\ g % j = r
  BY Z3T(60)

\* A number is its quotient and its rest.
LEMMA DivInt ==
  ASSUME NEW g \in Int, NEW j \in Nat \ {0}
  PROVE  /\ g \div j \in Int /\ g % j \in 0 .. j - 1
         /\ g = j * (g \div j) + (g % j)
  BY Z3T(60)

\* What is computed from each number to the next exists.
Rules(h, S) == h \in [Nat -> [S -> S]]
Steps(f, S, a, h) ==
  f \in [Nat -> S] /\ f[0] = a /\ \A k \in Nat : f[k + 1] = h[k][f[k]]

\* There is a function that begins with a and follows the rules h.
LEMMA StepsExist ==
  ASSUME NEW S, NEW a \in S, NEW h, Rules(h, S)
  PROVE  \E f : Steps(f, S, a, h)
  <1> USE DEF Rules
  <1> DEFINE Goes(g, n) == /\ g \in [0 .. n -> S] /\ g[0] = a
                           /\ \A k \in 1 .. n : g[k] = h[k - 1][g[k - 1]]
             Bad == {n \in Nat : ~\E g : Goes(g, n)}
  <1>1. \A n \in Nat : \E g : Goes(g, n)
    <2> SUFFICES ASSUME Bad # {} PROVE FALSE
      OBVIOUS
    <2>1. PICK m \in Bad : \A k \in Bad : m <= k
      <3>1. Bad \subseteq Nat
        OBVIOUS
      <3> HIDE DEF Bad
      <3>2. QED BY <3>1, LeastNumber
    <2>2. CASE m = 0
      <3>1. Goes([k \in 0 .. 0 |-> a], 0)
        OBVIOUS
      <3>2. QED BY <2>1, <2>2, <3>1
    <2>3. CASE m # 0
      <3>1. m - 1 \in Nat /\ m - 1 \notin Bad
        BY <2>1, <2>3
      <3>2. PICK g : Goes(g, m - 1)
        BY <3>1
      <3> DEFINE e == [k \in 0 .. m |-> IF k = m THEN h[m - 1][g[m - 1]] ELSE g[k]]
      <3>3. e \in [0 .. m -> S] /\ e[0] = a
        BY <2>1, <2>3, <3>1, <3>2
      <3>4. \A k \in 1 .. m : e[k] = h[k - 1][e[k - 1]]
        BY <2>1, <2>3, <3>1, <3>2
      <3>5. Goes(e, m)
        <4> HIDE DEF e
        <4>1. QED BY <3>3, <3>4
      <3>6. QED BY <2>1, <3>5
    <2>4. QED BY <2>2, <2>3
  <1> DEFINE F(n) == CHOOSE g : Goes(g, n)
             f == [n \in Nat |-> F(n)[n]]
  <1>2. \A n \in Nat : Goes(F(n), n)
    <2> HIDE DEF Goes
    <2>1. QED BY <1>1
  <1>3. \A n \in Nat : /\ F(n) \in [0 .. n -> S] /\ F(n)[0] = a
                       /\ \A k \in 1 .. n : F(n)[k] = h[k - 1][F(n)[k - 1]]
    <2> HIDE DEF F
    <2>1. QED BY <1>2
  <1> HIDE DEF F
  <1>4. f \in [Nat -> S] /\ f[0] = a
    BY <1>3
  <1>5. ASSUME NEW n \in Nat PROVE f[n + 1] = h[n][f[n]]
    <2> DEFINE c == F(n + 1)
               b == F(n)
    <2>1. c[0] = b[0] /\ \A k \in 1 .. n : c[k - 1] = b[k - 1] => c[k] = b[k]
      <3>1. \A k \in 1 .. n : k \in 1 .. n + 1
        OBVIOUS
      <3>2. QED BY <1>3, <3>1
    <2>2. c[n + 1] = h[n][c[n]]
      BY <1>3
    <2>3. f[n + 1] = c[n + 1] /\ f[n] = b[n]
      OBVIOUS
    <2>4. c[n] = b[n]
      <3> HIDE DEF c, b
      <3>1. Alike(c, b, n)
        BY <2>1 DEF Alike
      <3>2. \A k \in 0 .. n : c[k] = b[k]
        BY <3>1, AlikeSame
      <3>3. QED BY <3>2
    <2>5. QED BY <2>2, <2>3, <2>4
  <1>6. Steps(f, S, a, h)
    <2> HIDE DEF f
    <2>1. QED BY <1>4, <1>5 DEF Steps
  <1>7. QED BY <1>6



-----------------------------------------------------------------------------
(* Powers of two.                                                          *)

\* The powers of two: that the function defined by itself exists.
LEMMA TwoToIs ==
  /\ TwoTo \in [Nat -> Nat \ {0}] /\ TwoTo[0] = 1
  /\ \A k \in Nat : TwoTo[k + 1] = 2 * TwoTo[k]
  <1> DEFINE H(f) == [k \in Nat |-> IF k = 0 THEN 1 ELSE 2 * f[k - 1]]
             h == [k \in Nat |-> [x \in Nat \ {0} |-> 2 * x]]
             two == CHOOSE f : f = H(f)
  <1>1. Rules(h, Nat \ {0})
    BY DEF Rules
  <1>2. PICK f \in [Nat -> Nat \ {0}] : f[0] = 1 /\ \A k \in Nat : f[k + 1] = h[k][f[k]]
    <2>1. 1 \in Nat \ {0}
      OBVIOUS
    <2> HIDE DEF h
    <2>2. \E f : Steps(f, Nat \ {0}, 1, h)
      BY <1>1, <2>1, StepsExist
    <2>3. QED BY <2>2 DEF Steps
  <1>3. f = H(f)
    <2>1. \A k \in Nat : k # 0 => f[k] = 2 * f[k - 1]
      <3> SUFFICES ASSUME NEW k \in Nat, k # 0 PROVE f[k] = 2 * f[k - 1]
        OBVIOUS
      <3>1. k - 1 \in Nat /\ (k - 1) + 1 = k
        OBVIOUS
      <3>2. f[(k - 1) + 1] = h[k - 1][f[k - 1]]
        <4> HIDE DEF h
        <4>1. QED BY <1>2, <3>1
      <3>3. QED BY <1>2, <3>1, <3>2
    <2>2. QED BY <1>2, <2>1
  <1>4. two = H(two)
    <2> HIDE DEF H
    <2>1. QED BY <1>3
  <1>5. TwoTo = two
    BY DEF TwoTo
  <1>6. TwoTo = H(TwoTo)
    BY <1>4, <1>5
  <1>7. \A n \in Nat : TwoTo[n] = f[n]
    <2>1. TwoTo[0] = f[0]
      BY <1>2, <1>6
    <2>2. \A k \in Nat : k # 0 => TwoTo[k] = 2 * TwoTo[k - 1] /\ f[k] = 2 * f[k - 1]
      BY <1>3, <1>6
    <2>3. ASSUME NEW n \in Nat PROVE TwoTo[n] = f[n]
      <3>1. \A k \in 1 .. n : TwoTo[k - 1] = f[k - 1] => TwoTo[k] = f[k]
        BY <2>2
      <3>2. Alike(TwoTo, f, n)
        BY <2>1, <3>1 DEF Alike
      <3>3. \A k \in 0 .. n : TwoTo[k] = f[k]
        BY <3>2, AlikeSame
      <3>4. QED BY <3>3
    <2>4. QED BY <2>3
  <1>8. TwoTo = f
    BY <1>2, <1>6, <1>7
  <1>9. QED BY <1>2, <1>8

\* Each is twice the one before.
LEMMA TwoToTwice ==
  ASSUME NEW k \in Nat \ {0}
  PROVE  TwoTo[k] = 2 * TwoTo[k - 1] /\ TwoTo[k - 1] \in Nat \ {0} /\ TwoTo[k] \in Nat \ {0}
  <1>1. k - 1 \in Nat /\ (k - 1) + 1 = k
    OBVIOUS
  <1>2. QED BY <1>1, TwoToIs

\* 2 ^ (a + b)
LEMMA TwoToAdds ==
  ASSUME NEW a \in Nat, NEW b \in Nat
  PROVE  TwoTo[a + b] = TwoTo[a] * TwoTo[b]
  <1> DEFINE A == TwoTo[a]
             f == [k \in 0 .. b |-> TwoTo[a + k]]
             g == [k \in 0 .. b |-> A * TwoTo[k]]
  <1>1. A \in Nat
    BY TwoToIs
  <1>2. f[0] = g[0]
    <2>1. TwoTo[a + 0] = A * TwoTo[0]
      <3> HIDE DEF A
      <3>1. TwoTo[0] = 1 /\ a + 0 = a /\ A = TwoTo[a]
        BY TwoToIs DEF A
      <3>2. QED BY <1>1, <3>1
    <2>2. QED BY <2>1
  <1>3. ASSUME NEW k \in 1 .. b, f[k - 1] = g[k - 1] PROVE f[k] = g[k]
    <2> DEFINE T == TwoTo[k - 1]
               U == TwoTo[a + (k - 1)]
    <2>1. TwoTo[k] = 2 * T /\ T \in Nat
      BY TwoToTwice
    <2>2. TwoTo[a + k] = 2 * U /\ U \in Nat
      <3>1. a + k \in Nat \ {0} /\ (a + k) - 1 = a + (k - 1)
        OBVIOUS
      <3>2. QED BY <3>1, TwoToTwice
    <2>3. U = A * T
      BY <1>3
    <2> HIDE DEF A, T, U
    <2>4. A * (2 * T) = 2 * (A * T)
      BY <1>1, <2>1, Z3T(60)
    <2>5. TwoTo[a + k] = A * TwoTo[k]
      BY <2>1, <2>2, <2>3, <2>4
    <2>6. QED BY <2>5
  <1>4. Alike(f, g, b)
    <2> HIDE DEF f, g
    <2>1. QED BY <1>2, <1>3 DEF Alike
  <1>5. \A k \in 0 .. b : f[k] = g[k]
    <2> HIDE DEF f, g
    <2>1. QED BY <1>4, AlikeSame
  <1>6. QED BY <1>5

\* They grow, and at least double.
LEMMA TwoToGrows ==
  ASSUME NEW a \in Nat, NEW b \in Nat
  PROVE  /\ a <= b => TwoTo[a] <= TwoTo[b]
         /\ a < b => 2 * TwoTo[a] <= TwoTo[b]
  <1>1. \A d \in Nat : TwoTo[d] >= 1
    BY TwoToIs
  <1>2. \A d \in Nat \ {0} : TwoTo[d] >= 2
    BY TwoToTwice
  <1>3. ASSUME a <= b PROVE \E d \in Nat : b = a + d /\ (a < b => d # 0)
    <2>1. b - a \in Nat /\ b = a + (b - a) /\ (a < b => b - a # 0)
      BY <1>3
    <2>2. QED BY <2>1
  <1>4. ASSUME NEW d \in Nat, b = a + d
        PROVE TwoTo[a] <= TwoTo[b] /\ (d # 0 => 2 * TwoTo[a] <= TwoTo[b])
    <2> DEFINE A == TwoTo[a]
               D == TwoTo[d]
    <2>1. TwoTo[b] = A * D /\ A \in Nat /\ D \in Nat /\ D >= 1 /\ (d # 0 => D >= 2)
      BY <1>1, <1>2, <1>4, TwoToAdds, TwoToIs
    <2> HIDE DEF A, D
    <2>2. A <= A * D
      BY <2>1, Z3T(60)
    <2>3. d # 0 => 2 * A <= A * D
      BY <2>1, Z3T(60)
    <2>4. QED BY <2>1, <2>2, <2>3 DEF A
  <1>5. QED BY <1>3, <1>4

\* They outgrow their exponents.
LEMMA TwoToAbove ==
  ASSUME NEW n \in Nat
  PROVE  n < TwoTo[n]
  <1> DEFINE Bad == {k \in Nat : ~(k < TwoTo[k])}
  <1>1. Bad = {}
    <2> SUFFICES ASSUME Bad # {} PROVE FALSE
      OBVIOUS
    <2>1. Bad \subseteq Nat
      OBVIOUS
    <2>2. PICK m \in Bad : \A k \in Bad : m <= k
      <3> HIDE DEF Bad
      <3>1. QED BY <2>1, LeastNumber
    <2>3. m \in Nat /\ ~(m < TwoTo[m])
      BY <2>2
    <2>4. m # 0
      BY <2>3, TwoToIs
    <2>5. m - 1 \in Nat /\ m - 1 \notin Bad
      BY <2>2, <2>3, <2>4
    <2>6. m - 1 < TwoTo[m - 1]
      BY <2>5
    <2>7. TwoTo[m] = 2 * TwoTo[m - 1] /\ TwoTo[m - 1] \in Nat
      BY <2>3, <2>4, TwoToTwice
    <2>8. QED BY <2>3, <2>4, <2>6, <2>7
  <1>2. QED BY <1>1

\* How many bits a number takes, and that no other length is its.
LEMMA BitLengthIs ==
  ASSUME NEW n \in Nat \ {0}
  PROVE  /\ BitLength(n) \in 1 .. n
         /\ n < TwoTo[BitLength(n)] /\ TwoTo[BitLength(n) - 1] <= n
  <1> DEFINE T == {l \in Nat : n < TwoTo[l]}
             L(l) == n < TwoTo[l] /\ (l = 0 \/ TwoTo[l - 1] <= n)
  <1>1. T \subseteq Nat /\ n \in T
    BY TwoToAbove
  <1>2. PICK m \in T : \A k \in T : m <= k
    <2> HIDE DEF T
    <2>1. QED BY <1>1, LeastNumber
  <1>3. m \in 1 .. n
    BY <1>1, <1>2, TwoToIs
  <1>4. m - 1 \notin T /\ m - 1 \in Nat
    BY <1>2, <1>3
  <1>5. TwoTo[m - 1] \in Nat
    BY <1>4, TwoToIs
  <1>6. L(m)
    BY <1>2, <1>4, <1>5
  <1>7. BitLength(n) = CHOOSE l \in 0 .. n : L(l)
    BY DEF BitLength
  <1>8. \E l \in 0 .. n : L(l)
    BY <1>3, <1>6
  <1>9. BitLength(n) \in 0 .. n /\ L(BitLength(n))
    <2> HIDE DEF L
    <2>1. QED BY <1>7, <1>8
  <1>10. BitLength(n) # 0
    BY <1>9, TwoToIs
  <1>11. QED BY <1>9, <1>10

\* Only one length is that of a number.
LEMMA LengthBits ==
  ASSUME NEW n \in Nat \ {0}, NEW l \in Nat \ {0},
         TwoTo[l - 1] <= n, n < TwoTo[l]
  PROVE  BitLength(n) = l
  <1> DEFINE b == BitLength(n)
  <1>1. b \in Nat \ {0} /\ n < TwoTo[b] /\ TwoTo[b - 1] <= n
    BY BitLengthIs
  <1> HIDE DEF b
  <1>2. TwoTo[b] \in Nat /\ TwoTo[l] \in Nat /\ TwoTo[b - 1] \in Nat /\ TwoTo[l - 1] \in Nat
    BY <1>1, TwoToTwice
  <1>3. b <= l - 1 => TwoTo[b] <= TwoTo[l - 1]
    BY <1>1, TwoToGrows
  <1>4. l <= b - 1 => TwoTo[l] <= TwoTo[b - 1]
    BY <1>1, TwoToGrows
  <1>5. b = l
    BY <1>1, <1>2, <1>3, <1>4
  <1>6. QED BY <1>5 DEF b

-----------------------------------------------------------------------------
(* The parts of a float.                                                   *)

\* What the constants have to do with each other.
LEMMA Format ==
  /\ MantBits \in Nat \ {0} /\ ExpBits \in Nat \ {0, 1}
  /\ Hidden \in Nat /\ Hidden >= 2 /\ Hidden = 2 * TwoTo[MantBits - 1]
  /\ Bias \in Nat /\ ExpMax \in Nat /\ ExpMax = 2 * Bias + 1
  /\ Bias >= 3 * MantBits + 6 /\ \E c \in Nat : Bias = 2 * c + 1
  /\ SignWeight = Hidden * (ExpMax + 1) /\ SignWeight \in Nat
  /\ SignWeight = Infinity + Hidden /\ Infinity \in Nat
  /\ Infinity = Hidden * ExpMax
  <1> DEFINE E == TwoTo[ExpBits]
             B == TwoTo[ExpBits - 1]
  <1>1. MantBits \in Nat \ {0} /\ ExpBits \in Nat \ {0, 1} /\ B > 3 * MantBits + 6
    BY FloatsAssumption
  <1>2. E = 2 * B /\ B \in Nat /\ E \in Nat
    BY <1>1, TwoToTwice
  <1>3. \E d \in Nat \ {0} : B = 2 * d
    <2>1. ExpBits - 1 \in Nat \ {0}
      BY <1>1
    <2>2. B = 2 * TwoTo[(ExpBits - 1) - 1] /\ TwoTo[(ExpBits - 1) - 1] \in Nat \ {0}
      BY <2>1, TwoToTwice
    <2>3. QED BY <2>2
  <1>4. Hidden = 2 * TwoTo[MantBits - 1] /\ TwoTo[MantBits - 1] \in Nat \ {0}
    BY <1>1, TwoToTwice DEF Hidden
  <1>5. SignWeight = E * Hidden
    BY <1>1, TwoToAdds DEF SignWeight, Hidden
  <1>6. Bias = B - 1 /\ ExpMax = E - 1 /\ Infinity = ExpMax * Hidden
    BY DEF Bias, ExpMax, Infinity
  <1> HIDE DEF B, E
  <1> DEFINE h == Hidden  w == SignWeight
             i == Infinity  b == Bias  x == ExpMax
  <1>7. h \in Nat /\ h >= 2
    BY <1>4
  <1>8. b \in Nat /\ x \in Nat /\ x = 2 * b + 1 /\ x + 1 = E /\ b >= 3 * MantBits + 6
    BY <1>1, <1>2, <1>6
  <1>9. \E c \in Nat : b = 2 * c + 1
    <2>1. PICK d \in Nat \ {0} : B = 2 * d
      BY <1>3
    <2>2. d - 1 \in Nat /\ b = 2 * (d - 1) + 1
      BY <1>6, <2>1
    <2>3. QED BY <2>2
  <1>10. w = E * h /\ i = x * h
    BY <1>5, <1>6
  <1> HIDE DEF h, w, i, b, x
  <1>11. h * (x + 1) = h * E /\ E * h = h * E /\ x * h = h * x /\ h * E = h * x + h
         /\ h * x \in Nat
    BY <1>2, <1>7, <1>8, Z3T(60)
  <1>12. w = h * (x + 1) /\ w = i + h /\ i \in Nat /\ w \in Nat /\ i = h * x
    BY <1>7, <1>10, <1>11
  <1>13. QED BY <1>1, <1>4, <1>7, <1>8, <1>9, <1>12 DEF h, w, i, b, x

\* A sign and a magnitude make one pattern.
LEMMA SignedPattern ==
  ASSUME NEW s \in 0 .. 1, NEW a \in 0 .. SignWeight - 1
  PROVE  /\ a \in Patterns /\ SignBit(a) = 0 /\ AbsBits(a) = a
         /\ WithSign(s, a) = IF s = 1 THEN SignWeight + a ELSE a
         /\ WithSign(s, a) \in Patterns
         /\ SignBit(WithSign(s, a)) = s /\ AbsBits(WithSign(s, a)) = a
  <1> DEFINE w == SignWeight
             u == IF s = 1 THEN w + a ELSE a
  <1>1. w \in Nat /\ w >= 2 /\ a \in 0 .. w - 1
    BY Format
  <1> HIDE DEF w
  <1>2. a \div w = 0 /\ a % w = a
    <2>1. a = w * 0 + a
      BY <1>1
    <2>2. QED BY <1>1, <2>1, DivUnique
  <1>3. u \div w = s /\ u % w = a
    <2>1. u \in Int /\ u = w * s + a
      BY <1>1
    <2> HIDE DEF u
    <2>2. QED BY <1>1, <2>1, DivUnique
  <1>4. AbsBits(a) = a /\ SignBit(a) = 0
    BY <1>2 DEF AbsBits, SignBit, w
  <1>5. WithSign(s, a) = u
    BY <1>1, <1>4 DEF WithSign, w
  <1>6. a \in Patterns /\ u \in Patterns
    BY <1>1 DEF Patterns, w
  <1>7. SignBit(u) = s /\ AbsBits(u) = a
    BY <1>3 DEF AbsBits, SignBit, w
  <1>8. QED BY <1>4, <1>5, <1>6, <1>7 DEF u, w

\* A pattern is its sign and its magnitude.
LEMMA PatternParts ==
  ASSUME NEW u \in Patterns
  PROVE  /\ SignBit(u) \in 0 .. 1 /\ AbsBits(u) \in 0 .. SignWeight - 1
         /\ u = WithSign(SignBit(u), AbsBits(u)) /\ WithSign(SignBit(u), u) = u
         /\ u = IF SignBit(u) = 1 THEN SignWeight + AbsBits(u) ELSE AbsBits(u)
  <1> DEFINE w == SignWeight
             s == u \div w
             a == u % w
  <1>1. w \in Nat /\ w >= 2 /\ u \in 0 .. 2 * w - 1 /\ w # 0
    BY Format DEF Patterns
  <1> HIDE DEF w
  <1>2. s \in Int /\ a \in 0 .. w - 1 /\ u = w * s + a
    BY <1>1, DivInt
  <1> HIDE DEF s, a
  <1>3. s \in 0 .. 1
    <2>1. s >= 2 => w * s >= w * 2
      BY <1>1, <1>2, Z3T(60)
    <2>2. s <= -1 => w * s <= -w
      BY <1>1, <1>2, Z3T(60)
    <2>3. QED BY <1>1, <1>2, <2>1, <2>2
  <1>4. u = IF s = 1 THEN w + a ELSE a
    BY <1>1, <1>2, <1>3
  <1>5. SignBit(u) = s /\ AbsBits(u) = a
    BY DEF SignBit, AbsBits, s, a, w
  <1>6. WithSign(s, a) = IF s = 1 THEN w + a ELSE a
    BY <1>2, <1>3, SignedPattern DEF w
  <1>7. WithSign(s, u) = WithSign(s, a)
    <2>1. AbsBits(a) = a
      BY <1>2, <1>3, SignedPattern DEF w
    <2>2. QED BY <1>5, <2>1 DEF WithSign
  <1>8. QED BY <1>2, <1>3, <1>4, <1>5, <1>6, <1>7 DEF w

\* Its magnitude is an exponent and a mantissa.
LEMMA MagnitudeParts ==
  ASSUME NEW u \in Patterns
  PROVE  /\ Exponent(u) \in 0 .. ExpMax /\ Mantissa(u) \in 0 .. Hidden - 1
         /\ AbsBits(u) = Hidden * Exponent(u) + Mantissa(u)
         /\ Exponent(AbsBits(u)) = Exponent(u) /\ Mantissa(AbsBits(u)) = Mantissa(u)
  <1> DEFINE w == SignWeight  h == Hidden  x == ExpMax
             a == AbsBits(u)  s == SignBit(u)
             e == a \div h
             m == a % h
  <1>1. s \in 0 .. 1 /\ a \in 0 .. w - 1 /\ u = IF s = 1 THEN w + a ELSE a
    BY PatternParts
  <1>2. h \in Nat /\ h >= 2 /\ w = h * (x + 1) /\ w \in Nat /\ x \in Nat
    BY Format
  <1>3. AbsBits(a) = a
    BY <1>1, SignedPattern
  <1> HIDE DEF w, h, x, a, s
  <1>4. e \in Int /\ m \in 0 .. h - 1 /\ a = h * e + m
    BY <1>1, <1>2, DivInt
  <1> HIDE DEF e, m
  <1>5. e \in 0 .. x
    <2>1. e >= x + 1 => h * e >= h * (x + 1)
      BY <1>2, <1>4, Z3T(60)
    <2>2. e <= -1 => h * e <= -h
      BY <1>2, <1>4, Z3T(60)
    <2>3. QED BY <1>1, <1>2, <1>4, <2>1, <2>2
  <1>6. u % h = m
    <2>1. s = 1 => u = h * ((x + 1) + e) + m
      <3>1. h * ((x + 1) + e) = h * (x + 1) + h * e
        BY <1>2, <1>4, Z3T(60)
      <3>2. QED BY <1>1, <1>2, <1>4, <3>1
    <2>2. s # 1 => u = h * e + m
      BY <1>1, <1>4
    <2>3. \E q \in Int : u = h * q + m
      <3>1. (x + 1) + e \in Int /\ e \in Int
        BY <1>2, <1>4
      <3>2. CASE s = 1
        BY <2>1, <3>1, <3>2
      <3>3. CASE s # 1
        BY <2>2, <3>1, <3>3
      <3>4. QED BY <3>2, <3>3
    <2>4. u \in Int
      BY <1>1, <1>2
    <2>5. QED BY <1>2, <1>4, <2>3, <2>4, DivUnique
  <1>7. Exponent(u) = e /\ Mantissa(u) = m /\ Exponent(a) = e /\ Mantissa(a) = m
    BY <1>3, <1>6 DEF Exponent, Mantissa, e, m, a, h
  <1>8. QED BY <1>4, <1>5, <1>7 DEF a, h, x

\* A float is put together from an exponent and a mantissa.
LEMMA FromParts ==
  ASSUME NEW e \in 0 .. ExpMax, NEW m \in 0 .. Hidden - 1
  PROVE  /\ Hidden * e + m \in 0 .. SignWeight - 1
         /\ Hidden * e + m \in Patterns
         /\ Exponent(Hidden * e + m) = e /\ Mantissa(Hidden * e + m) = m
  <1> DEFINE w == SignWeight  h == Hidden  x == ExpMax
             a == h * e + m
  <1>1. h \in Nat /\ h >= 2 /\ w = h * (x + 1) /\ w \in Nat /\ x \in Nat
    BY Format
  <1>2. e \in 0 .. x /\ m \in 0 .. h - 1
    OBVIOUS
  <1> HIDE DEF w, h, x
  <1>3. a \in 0 .. w - 1
    <2>1. h * e \in Nat /\ h * e <= h * x /\ h * (x + 1) = h * x + h
      BY <1>1, <1>2, Z3T(60)
    <2>2. QED BY <1>1, <1>2, <2>1
  <1>4. a \div h = e /\ a % h = m
    <2>1. a \in Int /\ a = h * e + m
      BY <1>3
    <2> HIDE DEF a
    <2>2. QED BY <1>1, <1>2, <2>1, DivUnique
  <1>5. a \in Patterns /\ AbsBits(a) = a
    BY <1>3, SignedPattern DEF w
  <1> HIDE DEF a
  <1>6. Exponent(a) = e /\ Mantissa(a) = m
    BY <1>4, <1>5 DEF Exponent, Mantissa, h
  <1>7. QED BY <1>3, <1>5, <1>6 DEF a, h, w

\* Exponents tell the order first.
LEMMA ExponentBounds ==
  ASSUME NEW u \in Patterns, NEW c \in 0 .. ExpMax
  PROVE  /\ Exponent(u) >= c <=> AbsBits(u) >= Hidden * c
         /\ Hidden * c \in 0 .. Infinity
  <1> DEFINE h == Hidden  x == ExpMax  e == Exponent(u)  m == Mantissa(u)
             a == AbsBits(u)
  <1>1. h \in Nat /\ h >= 2 /\ x \in Nat /\ Infinity = h * x
    BY Format
  <1>2. e \in 0 .. x /\ m \in 0 .. h - 1 /\ a = h * e + m /\ c \in 0 .. x
    BY MagnitudeParts
  <1> HIDE DEF h, x, e, m, a
  <1>3. e >= c => h * e >= h * c
    BY <1>1, <1>2, Z3T(60)
  <1>4. e < c => h * e <= h * c - h
    <2>1. e < c => h * e <= h * (c - 1) /\ h * (c - 1) = h * c - h
      BY <1>1, <1>2, Z3T(60)
    <2>2. QED BY <2>1
  <1>5. h * e \in Nat /\ h * c \in Nat /\ h * c <= h * x
    BY <1>1, <1>2, Z3T(60)
  <1>6. (e >= c <=> a >= h * c) /\ h * c \in 0 .. h * x
    BY <1>1, <1>2, <1>3, <1>4, <1>5
  <1>7. QED BY <1>1, <1>6 DEF e, a, h, x

\* Infinities, NaNs and zeros, by their exponent and mantissa.
LEMMA Kinds ==
  ASSUME NEW u \in Patterns
  PROVE  /\ AbsBits(u) >= Infinity <=> Exponent(u) = ExpMax
         /\ IsNaN(u) <=> Exponent(u) = ExpMax /\ Mantissa(u) # 0
         /\ IsZero(u) <=> Exponent(u) = 0 /\ Mantissa(u) = 0
         /\ Infinity \in 0 .. SignWeight - 1 /\ Infinity \in Patterns
  <1> DEFINE h == Hidden  x == ExpMax  e == Exponent(u)  m == Mantissa(u)
             a == AbsBits(u)  i == Infinity
  <1>1. h \in Nat /\ h >= 2 /\ x \in Nat /\ i = h * x /\ SignWeight = i + h /\ i \in Nat
    BY Format
  <1>2. e \in 0 .. x /\ m \in 0 .. h - 1 /\ a = h * e + m
    BY MagnitudeParts
  <1>3. e >= x <=> a >= h * x
    BY <1>1, ExponentBounds
  <1>4. IsNaN(u) <=> a > i
    BY DEF IsNaN
  <1>5. IsZero(u) <=> a = 0
    BY DEF IsZero
  <1>6. i \in 0 .. SignWeight - 1
    BY <1>1
  <1>7. i \in Patterns
    BY <1>6, SignedPattern
  <1> HIDE DEF h, x, e, m, a, i
  <1>8. e >= 1 => h * e >= h
    BY <1>1, <1>2, Z3T(60)
  <1>9. h * e \in Nat
    BY <1>1, <1>2, Z3T(60)
  <1>10. (a >= i <=> e = x) /\ (a > i <=> e = x /\ m # 0) /\ (a = 0 <=> e = 0 /\ m = 0)
    <2>1. a >= i <=> e = x
      BY <1>1, <1>2, <1>3
    <2>2. a > i <=> e = x /\ m # 0
      BY <1>1, <1>2, <2>1, <1>9
    <2>3. e = 0 => h * e = 0
      BY <1>1
    <2>4. a = 0 <=> e = 0 /\ m = 0
      BY <1>1, <1>2, <1>8, <1>9, <2>3
    <2>5. QED BY <2>1, <2>2, <2>4
  <1>11. QED BY <1>4, <1>5, <1>6, <1>7, <1>10 DEF h, x, e, m, a, i

-----------------------------------------------------------------------------
(* Rounding.                                                               *)

\* The significand, its place, and the pattern they make.
LEMMA SigPow ==
  ASSUME NEW u \in Patterns
  PROVE  /\ Sig(u) \in 0 .. 2 * Hidden - 1 /\ Pow(u) \in 0 .. ExpMax
         /\ Exponent(u) = 0 => Pow(u) = 0 /\ Sig(u) = Mantissa(u)
         /\ Exponent(u) # 0 => Pow(u) = Exponent(u) - 1 /\ Sig(u) = Hidden + Mantissa(u)
         /\ AbsBits(u) = Hidden * Pow(u) + Sig(u)
         /\ Sig(AbsBits(u)) = Sig(u) /\ Pow(AbsBits(u)) = Pow(u)
  <1> DEFINE h == Hidden  x == ExpMax  e == Exponent(u)  m == Mantissa(u)
             a == AbsBits(u)
  <1>1. h \in Nat /\ h >= 2 /\ x \in Nat
    BY Format
  <1>2. e \in 0 .. x /\ m \in 0 .. h - 1 /\ a = h * e + m
        /\ Exponent(a) = e /\ Mantissa(a) = m
    BY MagnitudeParts
  <1>3. Sig(u) = (IF e = 0 THEN m ELSE h + m) /\ Pow(u) = (IF e = 0 THEN 0 ELSE e - 1)
    BY DEF Sig, Pow
  <1>4. Sig(a) = Sig(u) /\ Pow(a) = Pow(u)
    BY <1>2 DEF Sig, Pow
  <1> HIDE DEF h, x, e, m, a
  <1>5. e # 0 => h * e = h * (e - 1) + h
    BY <1>1, <1>2, Z3T(60)
  <1>6. h * 0 = 0
    BY <1>1
  <1>7. a = h * Pow(u) + Sig(u)
    <2>1. CASE e = 0
      BY <1>1, <1>2, <1>3, <1>6, <2>1
    <2>2. CASE e # 0
      BY <1>1, <1>2, <1>3, <1>5, <2>2
    <2>3. QED BY <2>1, <2>2
  <1>8. Sig(u) \in 0 .. 2 * h - 1 /\ Pow(u) \in 0 .. x
    BY <1>1, <1>2, <1>3
  <1>9. QED BY <1>3, <1>4, <1>7, <1>8 DEF h, x, e, m, a

\* The last bit of a quotient q with the rest r of t.
Carry(q, r, t) == IF 2 * r > t \/ (2 * r = t /\ q % 2 = 1) THEN 1 ELSE 0

\* Where the last bit of n * 2 ^ k comes to lie.
LastPlace(n, k) == Greater(k + BitLength(n) - (MantBits + 1), 0)

\* Nearest, from the place of the last bit that is kept.
LEMMA NearestIs ==
  ASSUME NEW n \in Nat \ {0}, NEW k \in Int, NEW p, p = LastPlace(n, k)
  PROVE  /\ p \in Nat
         /\ p <= k => Nearest(n, k) = Lesser(p * Hidden + n * TwoTo[k - p], Infinity)
         /\ p > k => \A q \in Nat, r \in Nat :
              n = TwoTo[p - k] * q + r /\ r < TwoTo[p - k] =>
                Nearest(n, k) = Lesser(p * Hidden + q + Carry(q, r, TwoTo[p - k]), Infinity)
  <1> DEFINE b == BitLength(n)
             s == Lesser(p - k, b + 2)
             Of(t) == Lesser(p * Hidden + (n \div t) + Carry(n \div t, n % t, t), Infinity)
  <1>1. b \in Nat \ {0} /\ n < TwoTo[b] /\ TwoTo[b] \in Nat
    BY BitLengthIs, TwoToIs
  <1>2. p = Greater(k + b - (MantBits + 1), 0) /\ MantBits \in Nat
    BY Format DEF LastPlace
  <1>3. Nearest(n, k) = IF s <= 0 THEN Lesser(p * Hidden + n * TwoTo[k - p], Infinity)
                                  ELSE Of(TwoTo[s])
    BY <1>2 DEF Nearest, Carry
  <1> HIDE DEF b
  <1>4. p \in Nat
    BY <1>1, <1>2 DEF Greater
  <1>5. p <= k => s <= 0
    BY <1>1, <1>4 DEF Lesser
  <1>6. p > k => s \in Nat \ {0} /\ (s = p - k \/ (s = b + 2 /\ b + 2 < p - k))
    BY <1>1, <1>4 DEF Lesser
  <1> HIDE DEF s
  <1>7. ASSUME p > k, NEW q \in Nat, NEW r \in Nat,
               n = TwoTo[p - k] * q + r, r < TwoTo[p - k]
        PROVE  Of(TwoTo[s]) = Lesser(p * Hidden + q + Carry(q, r, TwoTo[p - k]), Infinity)
    <2> DEFINE t == TwoTo[p - k]
    <2>1. t \in Nat \ {0}
      BY <1>4, <1>6, <1>7, TwoToIs
    <2>2. n \div t = q /\ n % t = r
      BY <1>7, <2>1, DivUnique
    <2>3. CASE s = p - k
      BY <2>2, <2>3
    <2>4. CASE s = b + 2 /\ b + 2 < p - k
      <3> DEFINE c == TwoTo[b + 2]
      <3>1. c = 4 * TwoTo[b]
        <4>1. (b + 2) - 1 = b + 1 /\ (b + 1) - 1 = b /\ b + 2 \in Nat \ {0} /\ b + 1 \in Nat \ {0}
          BY <1>1
        <4>2. TwoTo[b + 2] = 2 * TwoTo[b + 1] /\ TwoTo[b + 1] = 2 * TwoTo[b]
          BY <4>1, TwoToTwice
        <4>3. QED BY <1>1, <4>2
      <3>2. c <= t
        BY <1>1, <1>4, <2>4, TwoToGrows
      <3>3. n \div c = 0 /\ n % c = n
        <4>1. n \in 0 .. c - 1 /\ n = c * 0 + n /\ c \in Nat \ {0}
          BY <1>1, <3>1
        <4> HIDE DEF c
        <4>2. QED BY <4>1, DivUnique
      <3>4. q = 0 /\ r = n
        <4>1. n \in 0 .. t - 1 /\ n = t * 0 + n
          BY <1>1, <2>1, <3>1, <3>2
        <4> HIDE DEF t
        <4>2. n \div t = 0 /\ n % t = n
          BY <2>1, <4>1, DivUnique
        <4>3. QED BY <2>2, <4>2
      <3>5. ~(2 * n > c) /\ 2 * n # c /\ ~(2 * n > t) /\ 2 * n # t
        BY <1>1, <2>1, <3>1, <3>2
      <3>6. Carry(0, n, c) = 0 /\ Carry(0, n, t) = 0
        BY <3>5 DEF Carry
      <3>7. TwoTo[s] = c
        BY <2>4
      <3> HIDE DEF c
      <3>8. QED BY <3>3, <3>4, <3>6, <3>7
    <2>5. QED BY <1>6, <1>7, <2>3, <2>4
  <1> HIDE DEF Of
  <1>8. QED BY <1>3, <1>4, <1>5, <1>6, <1>7

\* n * 2 ^ d, d places further down, is the same.
LEMMA NearestScales ==
  ASSUME NEW n \in Nat, NEW k \in Int, NEW d \in Nat
  PROVE  Nearest(n * TwoTo[d], k - d) = Nearest(n, k)
  <1> DEFINE D == TwoTo[d]
             z == n * D
             b == BitLength(n)
             p == LastPlace(n, k)
  <1>1. D \in Nat \ {0}
    BY TwoToIs
  <1>2. CASE n = 0
    <2>1. n * D = 0
      <3> HIDE DEF D
      <3>1. QED BY <1>1, <1>2
    <2>2. QED BY <1>2, <2>1 DEF Nearest
  <1>3. CASE n # 0
    <2>1. b \in Nat \ {0} /\ n < TwoTo[b] /\ TwoTo[b - 1] <= n
      BY <1>3, BitLengthIs
    <2>2. z \in Nat \ {0} /\ BitLength(z) = b + d
      <3>1. TwoTo[b + d] = TwoTo[b] * D /\ TwoTo[(b + d) - 1] = TwoTo[b - 1] * D
        <4>1. (b + d) - 1 = (b - 1) + d /\ b - 1 \in Nat /\ b \in Nat
          BY <2>1
        <4> HIDE DEF b
        <4>2. QED BY <4>1, TwoToAdds
      <3> DEFINE B == TwoTo[b]  A == TwoTo[b - 1]
      <3>2. B \in Nat /\ A \in Nat
        BY <2>1, TwoToTwice
      <3> HIDE DEF B, A, D, b
      <3>3. z \in Nat \ {0}
        BY <1>1, <1>3, Z3T(60)
      <3>4. z < B * D
        <4>1. n < B
          BY <2>1 DEF B
        <4>2. QED BY <1>1, <1>3, <3>2, <4>1, Z3T(60)
      <3>5. A * D <= z
        <4>1. A <= n
          BY <2>1 DEF A
        <4>2. QED BY <1>1, <1>3, <3>2, <4>1, Z3T(60)
      <3>6. z < TwoTo[b + d] /\ TwoTo[(b + d) - 1] <= z /\ b + d \in Nat \ {0}
        BY <2>1, <3>1, <3>4, <3>5 DEF A, B
      <3> HIDE DEF z
      <3>7. QED BY <3>3, <3>6, LengthBits
    <2> HIDE DEF z
    <2>3. p \in Nat /\ p = LastPlace(z, k - d)
      <3>1. (k - d) + (b + d) = k + b
        BY <2>1
      <3>2. p \in Nat
        BY <1>3, NearestIs
      <3>3. MantBits \in Nat
        BY Format
      <3> HIDE DEF b
      <3>4. p = IF k + b - (MantBits + 1) > 0 THEN k + b - (MantBits + 1) ELSE 0
        BY DEF LastPlace, Greater, b
      <3>5. LastPlace(z, k - d) = IF (k - d) + BitLength(z) - (MantBits + 1) > 0
                                  THEN (k - d) + BitLength(z) - (MantBits + 1) ELSE 0
        BY DEF LastPlace, Greater
      <3>6. BitLength(z) = b + d
        BY <2>2 DEF b
      <3> HIDE DEF p
      <3>7. QED BY <2>1, <3>2, <3>3, <3>4, <3>5, <3>6
    <2> DEFINE N == Nearest(n, k)
               Z == Nearest(z, k - d)
               h == Hidden
    <2>4. /\ p <= k => N = Lesser(p * h + n * TwoTo[k - p], Infinity)
          /\ p > k => \A q \in Nat, r \in Nat :
               n = TwoTo[p - k] * q + r /\ r < TwoTo[p - k] =>
                 N = Lesser(p * h + q + Carry(q, r, TwoTo[p - k]), Infinity)
      BY <1>3, NearestIs
    <2>5. /\ p <= k - d => Z = Lesser(p * h + z * TwoTo[(k - d) - p], Infinity)
          /\ p > k - d => \A q \in Nat, r \in Nat :
               z = TwoTo[p - (k - d)] * q + r /\ r < TwoTo[p - (k - d)] =>
                 Z = Lesser(p * h + q + Carry(q, r, TwoTo[p - (k - d)]), Infinity)
      <3>1. k - d \in Int
        OBVIOUS
      <3>2. QED BY <2>2, <2>3, <3>1, NearestIs
    <2> HIDE DEF p, N, Z, h, b
    <2>6. CASE p <= k - d
      <3>1. p <= k /\ (k - d) - p \in Nat /\ k - p = ((k - d) - p) + d
        BY <2>3, <2>6
      <3> DEFINE T == TwoTo[(k - d) - p]
      <3>2. TwoTo[k - p] = T * D /\ T \in Nat
        BY <3>1, TwoToAdds, TwoToIs
      <3> HIDE DEF T, D
      <3>3. (n * D) * T = n * (T * D)
        BY <1>1, <3>2, Z3T(60)
      <3>4. z * T = n * TwoTo[k - p]
        BY <3>2, <3>3 DEF z
      <3>5. QED BY <2>4, <2>5, <2>6, <3>1, <3>4 DEF T, N, Z, z, D
    <2>7. CASE p > k - d /\ p <= k
      <3> DEFINE T == TwoTo[k - p]
                 U == TwoTo[p - (k - d)]
                 q == n * T
      <3>1. k - p \in Nat /\ p - (k - d) \in Nat /\ d = (k - p) + (p - (k - d))
        BY <2>3, <2>7
      <3>2. D = T * U /\ T \in Nat /\ U \in Nat \ {0}
        BY <3>1, TwoToAdds, TwoToIs
      <3> HIDE DEF T, U, D
      <3>3. q \in Nat /\ n * D = U * q + 0
        BY <3>2, Z3T(60)
      <3>4. z = U * q + 0 /\ 0 < U /\ q \in Nat
        BY <3>2, <3>3 DEF z
      <3>5. Carry(q, 0, U) = 0
        BY <3>2 DEF Carry
      <3>6. h \in Nat
        BY Format DEF h
      <3>7. p * h \in Nat
        BY <2>3, <3>6, Z3T(60)
      <3>8. Z = Lesser(p * h + q + 0, Infinity)
        BY <2>5, <2>7, <3>4, <3>5 DEF U
      <3>9. N = Lesser(p * h + q, Infinity)
        BY <2>4, <2>7 DEF T
      <3>10. p * h + q + 0 = p * h + q
        BY <3>4, <3>7
      <3>11. QED BY <3>8, <3>9, <3>10 DEF N, Z, z, D
    <2>8. CASE p > k
      <3> DEFINE t == TwoTo[p - k]
                 U == TwoTo[p - (k - d)]
                 q == n \div t
                 r == n % t
      <3>1. p - k \in Nat /\ p - (k - d) = (p - k) + d /\ p > k - d
        BY <2>3, <2>8
      <3>2. U = t * D /\ t \in Nat \ {0} /\ U \in Nat \ {0}
        <4>1. TwoTo[(p - k) + d] = TwoTo[p - k] * TwoTo[d]
          BY <3>1, TwoToAdds
        <4>2. p - (k - d) \in Nat
          BY <3>1
        <4>3. QED BY <3>1, <4>1, <4>2, TwoToIs
      <3>3. q \in Int /\ r \in 0 .. t - 1 /\ n = t * q + r
        <4>1. n \in Int /\ t \in Nat \ {0}
          BY <3>2
        <4> HIDE DEF t
        <4>2. QED BY <4>1, DivInt
      <3> HIDE DEF t, U, q, r, D
      <3>4. q \in Nat
        <4>1. q <= -1 => t * q <= -t
          BY <3>2, <3>3, Z3T(60)
        <4>2. QED BY <3>2, <3>3, <4>1
      <3>5. n * D = U * q + r * D /\ r * D < U /\ r * D \in Nat
        <4>1. n * D = (t * D) * q + r * D
          BY <1>1, <3>2, <3>3, <3>4, Z3T(60)
        <4>2. r * D <= (t - 1) * D /\ (t - 1) * D = t * D - D /\ r * D \in Nat
          BY <1>1, <3>2, <3>3, Z3T(60)
        <4>3. QED BY <1>1, <3>2, <4>1, <4>2
      <3>6. Carry(q, r * D, U) = Carry(q, r, t)
        <4>1. (2 * r > t <=> 2 * (r * D) > t * D) /\ (2 * r = t <=> 2 * (r * D) = t * D)
          <5>1. 2 * (r * D) = (2 * r) * D
            BY <1>1, <3>2, <3>3, Z3T(60)
          <5> DEFINE i == 2 * r
          <5>2. i \in Nat
            BY <3>2, <3>3
          <5> HIDE DEF i
          <5>3. i > t => i * D > t * D
            BY <1>1, <3>2, <5>2, Z3T(60)
          <5>4. i < t => i * D < t * D
            BY <1>1, <3>2, <5>2, Z3T(60)
          <5>5. i * D \in Nat /\ t * D \in Nat
            BY <1>1, <3>2, <5>2, Z3T(60)
          <5>6. QED BY <3>2, <5>1, <5>2, <5>3, <5>4, <5>5 DEF i
        <4>2. QED BY <3>2, <4>1 DEF Carry
      <3>7. N = Lesser(p * h + q + Carry(q, r, t), Infinity)
        <4>1. r \in Nat /\ r < t
          BY <3>2, <3>3
        <4>2. QED BY <2>4, <2>8, <3>3, <3>4, <4>1 DEF t
      <3>8. Z = Lesser(p * h + q + Carry(q, r * D, U), Infinity)
        BY <2>5, <3>1, <3>4, <3>5 DEF z, U
      <3>9. QED BY <3>6, <3>7, <3>8 DEF N, Z, z, D
    <2>9. QED BY <2>3, <2>6, <2>7, <2>8
  <1>4. QED BY <1>2, <1>3

\* The float nearest to n smallest subnormals.
ToNearest(n) == Nearest(n, 0)

\* A number that is not below the last place is itself rounded.
LEMMA NearestUp ==
  ASSUME NEW n \in Nat, NEW k \in Nat
  PROVE  Nearest(n, k) = ToNearest(n * TwoTo[k])
  <1>1. Nearest(n * TwoTo[k], k - k) = Nearest(n, k)
    BY NearestScales
  <1>2. k - k = 0
    OBVIOUS
  <1>3. QED BY <1>1, <1>2 DEF ToNearest

-----------------------------------------------------------------------------
(* Magnitudes, in smallest subnormals.                                     *)

Mag(u) == Sig(u) * TwoTo[Pow(u)]

\* A magnitude is a number, and zero for the zeros only.
LEMMA MagIs ==
  ASSUME NEW u \in Patterns
  PROVE  /\ Mag(u) \in Nat /\ Mag(AbsBits(u)) = Mag(u)
         /\ Mag(u) = 0 <=> AbsBits(u) = 0
         /\ Sig(u) = 0 <=> AbsBits(u) = 0
  <1> DEFINE s == Sig(u)  p == Pow(u)  h == Hidden  P == TwoTo[p]  a == AbsBits(u)
  <1>1. h \in Nat /\ h >= 2
    BY Format
  <1>2. s \in Nat /\ p \in Nat /\ a = h * p + s /\ Sig(a) = s /\ Pow(a) = p
        /\ (p # 0 => s >= h)
    <2>1. p # 0 => Exponent(u) # 0
      BY SigPow
    <2>2. p # 0 => s >= h
      <3>1. Mantissa(u) \in Nat
        BY <1>1, MagnitudeParts
      <3>2. QED BY <1>1, <2>1, <3>1, SigPow
    <2>3. s \in 0 .. 2 * h - 1 /\ p \in 0 .. ExpMax /\ ExpMax \in Nat
      BY SigPow, Format
    <2>4. QED BY <1>1, <2>2, <2>3, SigPow
  <1>3. P \in Nat \ {0}
    BY <1>2, TwoToIs
  <1>4. Mag(u) = s * P /\ Mag(a) = s * P
    BY <1>2 DEF Mag
  <1> HIDE DEF s, p, h, P, a
  <1>5. s * P \in Nat /\ (s * P = 0 <=> s = 0)
    <2>1. s >= 1 => s * P >= P
      BY <1>2, <1>3, Z3T(60)
    <2>2. s = 0 => s * P = 0
      BY <1>3
    <2>3. s * P \in Nat
      BY <1>2, <1>3, Z3T(60)
    <2>4. QED BY <1>2, <1>3, <2>1, <2>2, <2>3
  <1>6. a = 0 <=> s = 0
    <2>1. p = 0 => h * p = 0
      BY <1>1
    <2>2. h * p \in Nat
      BY <1>1, <1>2, Z3T(60)
    <2>3. QED BY <1>1, <1>2, <2>1, <2>2
  <1>7. QED BY <1>4, <1>5, <1>6 DEF a, s

\* Larger patterns are larger magnitudes.
LEMMA MagGrows ==
  ASSUME NEW u \in Patterns, NEW v \in Patterns, AbsBits(u) < AbsBits(v)
  PROVE  Mag(u) < Mag(v)
  <1> DEFINE h == Hidden
             s == Sig(u)  p == Pow(u)  d == Exponent(u)  U == TwoTo[p]
             t == Sig(v)  q == Pow(v)  e == Exponent(v)  W == TwoTo[q]
  <1>1. h \in Nat /\ h >= 2 /\ ExpMax \in Nat
    BY Format
  <1>2. s \in 0 .. 2 * h - 1 /\ t \in 0 .. 2 * h - 1 /\ p \in Nat /\ q \in Nat
        /\ AbsBits(u) = h * p + s /\ AbsBits(v) = h * q + t
    <2>1. p \in 0 .. ExpMax /\ q \in 0 .. ExpMax
      BY SigPow
    <2>2. QED BY <1>1, <2>1, SigPow
  <1>3. d \in Nat /\ e \in Nat /\ d <= e
    <2>1. d \in 0 .. ExpMax /\ e \in 0 .. ExpMax
      BY MagnitudeParts
    <2>2. AbsBits(u) >= h * d
      <3>1. d >= d
        BY <1>1, <2>1
      <3>2. QED BY <2>1, <3>1, ExponentBounds
    <2>3. AbsBits(u) \in Int /\ AbsBits(v) \in Int /\ h * d \in Int
      <3>1. SignWeight \in Nat
        BY Format
      <3>2. h * d \in Int
        BY <1>1, <2>1
      <3>3. QED BY <3>1, <3>2, PatternParts
    <2>4. AbsBits(v) >= h * d
      BY <2>2, <2>3
    <2>5. e >= d
      BY <2>1, <2>4, ExponentBounds
    <2>6. QED BY <1>1, <2>1, <2>5
  <1>4. U \in Nat \ {0} /\ W \in Nat \ {0}
    BY <1>2, TwoToIs
  <1>5. (d = 0 => p = 0 /\ s < h) /\ (d # 0 => p = d - 1 /\ s >= h)
        /\ (e = 0 => q = 0) /\ (e # 0 => q = e - 1 /\ t >= h)
    <2>1. Mantissa(u) \in 0 .. h - 1 /\ Mantissa(v) \in 0 .. h - 1
      BY MagnitudeParts
    <2>2. QED BY <1>1, <2>1, SigPow
  <1>6. Mag(u) = s * U /\ Mag(v) = t * W
    BY DEF Mag
  <1>7. CASE d = e
    <2>1. p = q
      BY <1>5, <1>7
    <2>2. s < t
      <3> HIDE DEF s, t, p, q
      <3>1. h * p + s < h * q + t
        BY <1>2
      <3>2. h * p \in Nat
        BY <1>1, <1>2, Z3T(60)
      <3>3. QED BY <1>2, <2>1, <3>1, <3>2
    <2>3. U = W
      BY <2>1
    <2> HIDE DEF s, t, U, W
    <2>4. s * W < t * W
      BY <1>1, <1>2, <1>4, <2>2, Z3T(60)
    <2>5. QED BY <1>6, <2>3, <2>4
  <1>8. CASE d < e
    <2>1. e # 0 /\ t >= h
      BY <1>3, <1>5, <1>8
    <2>2. t * W >= h * W
      <3> HIDE DEF t, W, h
      <3>1. QED BY <1>1, <1>2, <1>4, <2>1, Z3T(60)
    <2>3. s * U < h * W
      <3>1. CASE d = 0
        <4>1. U = 1 /\ s < h
          BY <1>5, <3>1, TwoToIs
        <4> HIDE DEF s, h, U, W
        <4>2. h * W >= h
          BY <1>1, <1>4, Z3T(60)
        <4>3. s * U = s
          BY <1>1, <1>2, <4>1
        <4>4. h * W \in Nat
          BY <1>1, <1>4, Z3T(60)
        <4>5. QED BY <1>1, <1>2, <4>1, <4>2, <4>3, <4>4
      <3>2. CASE d # 0
        <4>1. p < q
          BY <1>3, <1>5, <1>8, <3>2
        <4>2. 2 * U <= W
          BY <1>2, <4>1, TwoToGrows
        <4> HIDE DEF s, h, U, W
        <4>3. s * U < (2 * h) * U
          BY <1>1, <1>2, <1>4, Z3T(60)
        <4>4. (2 * h) * U = h * (2 * U)
          BY <1>1, <1>4, Z3T(60)
        <4>5. h * (2 * U) <= h * W
          BY <1>1, <1>4, <4>2, Z3T(60)
        <4>6. s * U \in Nat /\ h * (2 * U) \in Nat /\ h * W \in Nat
          BY <1>1, <1>2, <1>4, Z3T(60)
        <4>7. QED BY <4>3, <4>4, <4>5, <4>6
      <3>3. QED BY <3>1, <3>2
    <2>4. s * U \in Nat /\ t * W \in Nat /\ h * W \in Nat
      <3> HIDE DEF s, t, h, U, W
      <3>1. QED BY <1>1, <1>2, <1>4, Z3T(60)
    <2>5. QED BY <1>6, <2>2, <2>3, <2>4
  <1>9. QED BY <1>3, <1>7, <1>8

\* A finite float is its own nearest.
LEMMA NearestSig ==
  ASSUME NEW u \in Patterns, AbsBits(u) < Infinity
  PROVE  /\ Nearest(Sig(u), Pow(u)) = AbsBits(u)
         /\ ToNearest(Mag(u)) = AbsBits(u)
  <1> DEFINE s == Sig(u)  p == Pow(u)  h == Hidden  a == AbsBits(u)
  <1>1. h \in Nat /\ h >= 2 /\ MantBits \in Nat \ {0} /\ ExpMax \in Nat /\ Infinity \in Nat
    BY Format
  <1>2. s \in 0 .. 2 * h - 1 /\ p \in Nat /\ a = h * p + s
    <2>1. p \in 0 .. ExpMax
      BY SigPow
    <2>2. QED BY <1>1, <2>1, SigPow
  <1>3. p # 0 => s >= h
    <2>1. Mantissa(u) \in 0 .. h - 1
      BY MagnitudeParts
    <2>2. QED BY <1>1, <2>1, SigPow
  <1>4. Nearest(s, p) = a
    <2>1. CASE s = 0
      <3>1. a = 0
        BY <2>1, MagIs
      <3>2. QED BY <2>1, <3>1 DEF Nearest
    <2>2. CASE s # 0
      <3> DEFINE b == BitLength(s)
      <3>1. b \in Nat \ {0} /\ s < TwoTo[b] /\ TwoTo[b - 1] <= s
        BY <1>1, <1>2, <2>2, BitLengthIs
      <3>2. TwoTo[MantBits + 1] = 2 * h /\ TwoTo[MantBits] = h
        BY <1>1, TwoToIs DEF Hidden
      <3>3. b <= MantBits + 1
        <4>1. MantBits + 1 <= b - 1 => 2 * h <= TwoTo[b - 1]
          BY <1>1, <3>1, <3>2, TwoToGrows
        <4>2. TwoTo[b - 1] \in Nat
          BY <3>1, TwoToTwice
        <4> HIDE DEF b
        <4>3. QED BY <1>1, <1>2, <3>1, <4>1, <4>2
      <3>4. s >= h => b = MantBits + 1
        <4>1. b <= MantBits => TwoTo[b] <= h
          BY <1>1, <3>1, <3>2, TwoToGrows
        <4>2. TwoTo[b] \in Nat
          BY <3>1, TwoToIs
        <4> HIDE DEF b
        <4>3. QED BY <1>1, <1>2, <3>1, <3>3, <4>1, <4>2
      <3>5. LastPlace(s, p) = p
        <4>1. LastPlace(s, p) = IF p + b - (MantBits + 1) > 0 THEN p + b - (MantBits + 1)
                                                              ELSE 0
          BY DEF LastPlace, Greater
        <4> HIDE DEF b
        <4>2. QED BY <1>1, <1>2, <1>3, <3>1, <3>3, <3>4, <4>1
      <3>6. p <= p /\ p - p = 0 /\ p \in Int
        BY <1>2
      <3>7. Nearest(s, p) = Lesser(p * h + s * TwoTo[p - p], Infinity)
        <4>1. s \in Nat \ {0}
          BY <1>1, <1>2, <2>2
        <4> HIDE DEF s, p
        <4>2. QED BY <3>5, <3>6, <4>1, NearestIs
      <3>8. s * TwoTo[p - p] = s
        <4>1. TwoTo[p - p] = 1
          BY <3>6, TwoToIs
        <4> HIDE DEF s, p
        <4>2. QED BY <1>1, <1>2, <4>1
      <3>9. p * h + s = a
        <4> HIDE DEF s, p, h, a
        <4>1. p * h = h * p
          BY <1>1, <1>2, Z3T(60)
        <4>2. QED BY <1>2, <4>1
      <3>10. a \in Nat
        <4>1. SignWeight \in Nat
          BY Format
        <4>2. QED BY <4>1, PatternParts
      <3>11. Lesser(a, Infinity) = a
        BY <1>1, <3>10 DEF Lesser
      <3>12. QED BY <3>7, <3>8, <3>9, <3>11
    <2>3. QED BY <2>1, <2>2
  <1>5. Nearest(s, p) = ToNearest(s * TwoTo[p])
    BY <1>1, <1>2, NearestUp
  <1>6. QED BY <1>4, <1>5 DEF Mag

\* Patterns up to the second binade are their own magnitudes.
LEMMA SmallMag ==
  ASSUME NEW n \in 0 .. 2 * Hidden - 1
  PROVE  /\ n \in 0 .. Infinity - 1 /\ n \in Patterns /\ n \in 0 .. SignWeight - 1
         /\ AbsBits(n) = n /\ Mag(n) = n /\ Sig(n) = n /\ Pow(n) = 0
  <1> DEFINE h == Hidden  x == ExpMax
             e == IF n < h THEN 0 ELSE 1
             m == n - h * e
  <1>1. h \in Nat /\ h >= 2 /\ x \in Nat /\ x >= 3 /\ Infinity = h * x /\ SignWeight = Infinity + h
    BY Format
  <1>2. n \in 0 .. 2 * h - 1
    OBVIOUS
  <1> HIDE DEF h, x
  <1>3. h * x >= h * 3
    BY <1>1, Z3T(60)
  <1>4. h * e = (IF n < h THEN 0 ELSE h)
    BY <1>1, <1>2
  <1>5. e \in 0 .. x /\ m \in 0 .. h - 1 /\ n = h * e + m
    BY <1>1, <1>2, <1>4
  <1>6. n \in 0 .. Infinity - 1 /\ n \in 0 .. SignWeight - 1
    <2>1. n < h * 3 /\ h * x \in Nat
      BY <1>1, <1>2, Z3T(60)
    <2>2. QED BY <1>1, <1>2, <1>3, <2>1
  <1>7. n \in Patterns /\ AbsBits(n) = n
    BY <1>6, SignedPattern
  <1>8. e = 0 => h * e + m = m
    BY <1>4, <1>5
  <1>9. Exponent(n) = e /\ Mantissa(n) = m
    <2> HIDE DEF e, m
    <2>1. QED BY <1>5, FromParts DEF h, x
  <1>10. Sig(n) = n /\ Pow(n) = 0
    <2>1. Sig(n) = IF e = 0 THEN m ELSE h + m
      BY <1>9 DEF Sig, h
    <2>2. Pow(n) = IF e = 0 THEN 0 ELSE e - 1
      BY <1>9 DEF Pow
    <2>3. QED BY <1>1, <1>2, <1>4, <1>5, <2>1, <2>2
  <1>11. Mag(n) = n
    BY <1>1, <1>2, <1>10, TwoToIs DEF Mag
  <1>12. QED BY <1>6, <1>7, <1>10, <1>11

\* Numbers that a float holds: at most Hidden and one more bits, followed by zeros.
Exact(n) == \E a \in 0 .. Infinity - 1 : Mag(a) = n

\* The numbers that a float is exactly.
LEMMA IsExact ==
  ASSUME NEW j \in 0 .. 2 * Hidden, NEW d \in Nat, NEW n, n = j * TwoTo[d],
         n < Hidden * TwoTo[ExpMax - 1]
  PROVE  n \in Nat /\ Exact(n)
  <1> DEFINE h == Hidden  x == ExpMax  b == BitLength(n)  M == MantBits
             p == b - (M + 1)
             D == TwoTo[d]
  <1>1. /\ h \in Nat /\ h >= 2 /\ x \in Nat /\ x >= 3 /\ M \in Nat /\ TwoTo[M] = h
        /\ Infinity \in Nat /\ Infinity = h * x /\ TwoTo[M + 1] = 2 * h
    <2>1. h \in Nat /\ h >= 2 /\ x \in Nat /\ x >= 3 /\ M \in Nat
          /\ Infinity \in Nat /\ Infinity = h * x
      BY Format
    <2>2. TwoTo[M] = h
      BY DEF Hidden
    <2>3. TwoTo[M + 1] = 2 * TwoTo[M]
      BY <2>1, TwoToIs
    <2>4. QED BY <2>1, <2>2, <2>3
  <1>2. D \in Nat \ {0} /\ n = j * D /\ j \in 0 .. 2 * h
    BY TwoToIs
  <1>3. n \in Nat
    <2> HIDE DEF D, h
    <2>1. QED BY <1>1, <1>2, Z3T(60)
  <1>4. CASE n < 2 * h
    BY <1>1, <1>3, <1>4, SmallMag DEF Exact
  <1>5. CASE n >= 2 * h
    <2>1. b \in Nat \ {0} /\ n < TwoTo[b] /\ TwoTo[b - 1] <= n
          /\ TwoTo[b] \in Nat /\ TwoTo[b - 1] \in Nat
      <3>1. n \in Nat \ {0}
        BY <1>1, <1>3, <1>5
      <3>2. b \in Nat \ {0} /\ n < TwoTo[b] /\ TwoTo[b - 1] <= n
        BY <3>1, BitLengthIs
      <3> HIDE DEF b
      <3>3. QED BY <3>2, TwoToTwice
    <2> HIDE DEF b, h, x, D, M
    <2>2. p \in Nat \ {0}
      <3>1. b <= M + 1 => TwoTo[b] <= 2 * h
        <4>1. b <= M + 1 => TwoTo[b] <= TwoTo[M + 1]
          BY <1>1, <2>1, TwoToGrows
        <4>2. QED BY <1>1, <4>1
      <3>2. QED BY <1>1, <1>3, <1>5, <2>1, <3>1
    <2>3. TwoTo[b] = (2 * h) * TwoTo[p] /\ TwoTo[b - 1] = h * TwoTo[p]
      <3>1. b = (M + 1) + p /\ b - 1 = M + p /\ M + 1 \in Nat /\ p \in Nat
        BY <1>1, <2>1, <2>2
      <3> HIDE DEF p
      <3>2. TwoTo[(M + 1) + p] = TwoTo[M + 1] * TwoTo[p] /\ TwoTo[M + p] = TwoTo[M] * TwoTo[p]
        BY <1>1, <3>1, TwoToAdds
      <3>3. QED BY <1>1, <3>1, <3>2
    <2> DEFINE P == TwoTo[p]
    <2>4. P \in Nat \ {0}
      BY <2>2, TwoToIs
    \* The last bit of n is not below p.
    <2>5. CASE p <= d
      <3> DEFINE C == TwoTo[d - p]
                 q == j * C
                 a == h * p + q
      <3>1. D = C * P /\ C \in Nat \ {0}
        <4>1. d - p \in Nat /\ d = (d - p) + p /\ p \in Nat
          BY <2>2, <2>5
        <4> HIDE DEF p
        <4>2. QED BY <4>1, TwoToAdds, TwoToIs DEF D
      <3> HIDE DEF C, P
      <3>2. n = q * P /\ q \in Nat
        <4>1. j * (C * P) = (j * C) * P /\ j * C \in Nat
          BY <1>1, <1>2, <2>4, <3>1, Z3T(60)
        <4>2. QED BY <1>2, <3>1, <4>1
      <3> HIDE DEF q
      <3>3. q \in h .. 2 * h - 1
        <4>1. h * P <= q * P /\ q * P < (2 * h) * P
          BY <2>1, <2>3, <3>2 DEF P
        <4>2. q < h => q * P < h * P
          BY <1>1, <2>4, <3>2, Z3T(60)
        <4>3. q >= 2 * h => q * P >= (2 * h) * P
          BY <1>1, <2>4, <3>2, Z3T(60)
        <4>4. q * P \in Nat /\ h * P \in Nat /\ (2 * h) * P \in Nat
          BY <1>1, <2>4, <3>2, Z3T(60)
        <4>5. QED BY <1>1, <3>2, <4>1, <4>2, <4>3, <4>4
      <3>4. p + 1 <= x - 1
        <4>1. h * P < h * TwoTo[x - 1]
          <5>1. h * P <= n /\ n < h * TwoTo[x - 1]
            BY <2>1, <2>3 DEF P, h, x
          <5>2. h * P \in Nat /\ h * TwoTo[x - 1] \in Nat
            <6>1. TwoTo[x - 1] \in Nat
              BY <1>1, TwoToIs
            <6>2. QED BY <1>1, <2>4, <6>1, Z3T(60)
          <5>3. QED BY <1>3, <5>1, <5>2
        <4>2. x - 1 <= p => TwoTo[x - 1] <= P
          BY <1>1, <2>2, TwoToGrows DEF P
        <4>3. TwoTo[x - 1] <= P => h * TwoTo[x - 1] <= h * P
          <5> DEFINE T == TwoTo[x - 1]
          <5>1. T \in Nat
            BY <1>1, TwoToIs
          <5> HIDE DEF T
          <5>2. T <= P => h * T <= h * P
            BY <1>1, <2>4, <5>1, Z3T(60)
          <5>3. QED BY <5>2 DEF T
        <4>4. h * P \in Nat /\ h * TwoTo[x - 1] \in Nat
          <5>1. TwoTo[x - 1] \in Nat
            BY <1>1, TwoToIs
          <5>2. QED BY <1>1, <2>4, <5>1, Z3T(60)
        <4>5. QED BY <1>1, <2>2, <4>1, <4>2, <4>3, <4>4
      <3>5. p + 1 \in 0 .. x /\ q - h \in 0 .. h - 1
        BY <1>1, <2>2, <3>3, <3>4
      <3>6. a = h * (p + 1) + (q - h)
        <4>1. h * (p + 1) = h * p + h /\ h * p \in Nat
          BY <1>1, <2>2, Z3T(60)
        <4>2. QED BY <1>1, <3>2, <4>1
      <3>7. a \in Patterns /\ Exponent(a) = p + 1 /\ Mantissa(a) = q - h
        <4> DEFINE e == p + 1  m == q - h
        <4> HIDE DEF e, m, a
        <4>1. h * e + m \in Patterns /\ Exponent(h * e + m) = e /\ Mantissa(h * e + m) = m
          BY <3>5, FromParts DEF h, x, e, m
        <4>2. QED BY <3>6, <4>1 DEF e, m
      <3>8. a \in 0 .. Infinity - 1
        <4>1. h * p <= h * (x - 2) /\ h * (x - 2) = h * x - 2 * h /\ h * p \in Nat
          BY <1>1, <2>2, <3>4, Z3T(60)
        <4>2. QED BY <1>1, <3>3, <4>1
      <3> HIDE DEF a
      <3>9. Sig(a) = q /\ Pow(a) = p
        <4>1. p + 1 # 0 /\ h + (q - h) = q /\ (p + 1) - 1 = p
          BY <1>1, <2>2, <3>2
        <4>2. QED BY <3>7, <4>1 DEF Sig, Pow, h
      <3>10. Mag(a) = n
        BY <3>2, <3>9 DEF Mag, P
      <3>11. QED BY <1>3, <3>8, <3>10 DEF Exact
    <2>6. CASE p > d
      <3>1. d <= p - 1 /\ p - 1 \in Nat
        BY <2>2, <2>6
      <3>2. D <= TwoTo[p - 1] /\ P = 2 * TwoTo[p - 1] /\ TwoTo[p - 1] \in Nat
        BY <2>2, <3>1, TwoToGrows, TwoToTwice DEF D
      <3> HIDE DEF P
      <3>3. 2 * D <= P
        BY <1>2, <2>4, <3>2
      <3>4. n <= (2 * h) * D
        BY <1>1, <1>2, Z3T(60)
      <3>5. (2 * h) * D = h * (2 * D) /\ h * (2 * D) <= h * P
        BY <1>1, <1>2, <2>4, <3>3, Z3T(60)
      <3>6. n >= h * P
        BY <2>1, <2>3 DEF P
      \* then it is the least number of its length
      <3>7. n = h * P
        <4>1. h * (2 * D) \in Nat /\ h * P \in Nat
          BY <1>1, <1>2, <2>4, Z3T(60)
        <4>2. QED BY <1>3, <3>4, <3>5, <3>6, <4>1
      <3> DEFINE a == h * p + h
      <3>8. p + 1 <= x - 1
        <4>1. x - 1 <= p => TwoTo[x - 1] <= P
          BY <1>1, <2>2, TwoToGrows DEF P
        <4> DEFINE T == TwoTo[x - 1]
        <4>2. T \in Nat
          BY <1>1, TwoToIs
        <4>3. n < h * T
          BY DEF h, x
        <4> HIDE DEF T
        <4>4. T <= P => h * T <= h * P
          BY <1>1, <2>4, <4>2, Z3T(60)
        <4>5. h * T \in Nat /\ h * P \in Nat
          BY <1>1, <2>4, <4>2, Z3T(60)
        <4>6. QED BY <1>1, <1>3, <2>2, <3>7, <4>1, <4>3, <4>4, <4>5 DEF T
      <3>9. p + 1 \in 0 .. x /\ 0 \in 0 .. h - 1
        BY <1>1, <2>2, <3>8
      <3>10. a = h * (p + 1) + 0 /\ h * p \in Nat
        <4>1. h * (p + 1) = h * p + h /\ h * p \in Nat
          BY <1>1, <2>2, Z3T(60)
        <4>2. QED BY <1>1, <4>1
      <3>11. a \in Patterns /\ Exponent(a) = p + 1 /\ Mantissa(a) = 0
        <4> DEFINE e == p + 1  m == 0
        <4> HIDE DEF e, m, a
        <4>1. h * e + m \in Patterns /\ Exponent(h * e + m) = e /\ Mantissa(h * e + m) = m
          BY <3>9, FromParts DEF h, x, e, m
        <4>2. QED BY <3>10, <4>1 DEF e, m
      <3>12. a \in 0 .. Infinity - 1
        <4>1. h * p <= h * (x - 2) /\ h * (x - 2) = h * x - 2 * h
          BY <1>1, <2>2, <3>8, Z3T(60)
        <4>2. QED BY <1>1, <3>10, <4>1
      <3> HIDE DEF a
      <3>13. Sig(a) = h /\ Pow(a) = p
        <4>1. p + 1 # 0 /\ h + 0 = h /\ (p + 1) - 1 = p
          BY <1>1, <2>2
        <4>2. QED BY <3>11, <4>1 DEF Sig, Pow, h
      <3>14. Mag(a) = n
        BY <3>7, <3>13 DEF Mag, P
      <3>15. QED BY <1>3, <3>12, <3>14 DEF Exact
    <2>7. QED BY <1>1, <2>2, <2>5, <2>6
  <1>6. QED BY <1>1, <1>3, <1>4, <1>5

-----------------------------------------------------------------------------
(* Values with their sign, and sums.                                       *)

V(u) == IF SignBit(u) = 1 THEN -Mag(u) ELSE Mag(u)
Finite(u) == u \in Patterns /\ AbsBits(u) < Infinity

\* The float nearest to n.
FloatOf(n) == IF n < 0 THEN WithSign(1, ToNearest(-n)) ELSE ToNearest(n)

\* Nearest never goes beyond infinity.
LEMMA NearestRange ==
  ASSUME NEW n \in Nat, NEW k \in Int
  PROVE  /\ Nearest(n, k) \in 0 .. Infinity
         /\ Nearest(n, k) \in Patterns /\ Nearest(n, k) \in 0 .. SignWeight - 1
  <1>1. Hidden \in Nat /\ Infinity \in Nat
    BY Format
  <1>2. Nearest(n, k) \in 0 .. Infinity
    <2>1. CASE n = 0
      <3>1. Nearest(n, k) = 0
        BY <2>1 DEF Nearest
      <3>2. QED BY <1>1, <3>1
    <2>2. CASE n # 0
      <3> DEFINE p == LastPlace(n, k)
      <3>1. /\ p \in Nat
            /\ p <= k => Nearest(n, k) = Lesser(p * Hidden + n * TwoTo[k - p], Infinity)
            /\ p > k => \A q \in Nat, r \in Nat :
                 n = TwoTo[p - k] * q + r /\ r < TwoTo[p - k] =>
                   Nearest(n, k) = Lesser(p * Hidden + q + Carry(q, r, TwoTo[p - k]), Infinity)
        BY <2>2, NearestIs
      <3> HIDE DEF p
      <3>2. p * Hidden \in Nat
        BY <1>1, <3>1, Z3T(60)
      <3>3. CASE p <= k
        <4>1. TwoTo[k - p] \in Nat
          <5>1. k - p \in Nat
            BY <3>1, <3>3
          <5>2. QED BY <5>1, TwoToIs
        <4>2. n * TwoTo[k - p] \in Nat
          BY <4>1, Z3T(60)
        <4>3. p * Hidden + n * TwoTo[k - p] \in Nat
          BY <3>2, <4>2
        <4>4. QED BY <1>1, <3>1, <3>3, <4>3 DEF Lesser
      <3>4. CASE p > k
        <4> DEFINE t == TwoTo[p - k]
                   q == n \div t
                   r == n % t
        <4>1. t \in Nat \ {0} /\ n \in Int
          <5>1. p - k \in Nat
            BY <3>1, <3>4
          <5>2. QED BY <5>1, TwoToIs
        <4>2. q \in Int /\ r \in 0 .. t - 1 /\ n = t * q + r
          <5> HIDE DEF t
          <5>1. QED BY <4>1, DivInt
        <4> HIDE DEF q, r
        <4>3. q \in Nat
          <5> HIDE DEF t
          <5>1. q <= -1 => t * q <= -t
            BY <4>1, <4>2, Z3T(60)
          <5>2. QED BY <4>1, <4>2, <5>1
        <4>4. r \in Nat /\ r < t
          BY <4>1, <4>2
        <4>5. Nearest(n, k) = Lesser(p * Hidden + q + Carry(q, r, t), Infinity)
          BY <3>1, <3>4, <4>2, <4>3, <4>4
        <4>6. Carry(q, r, t) \in Nat
          BY DEF Carry
        <4> DEFINE c == Carry(q, r, t)
        <4>7. p * Hidden + q + c \in Nat
          <5> HIDE DEF c
          <5>1. c \in Nat
            BY <4>6 DEF c
          <5>2. QED BY <3>2, <4>3, <5>1
        <4>8. QED BY <1>1, <4>5, <4>7 DEF Lesser
      <3>5. QED BY <3>1, <3>3, <3>4
    <2>3. QED BY <2>1, <2>2
  <1>3. Infinity < SignWeight /\ SignWeight \in Nat
    BY <1>1, Format
  <1>4. Nearest(n, k) \in 0 .. SignWeight - 1
    BY <1>1, <1>2, <1>3
  <1>5. QED BY <1>2, <1>4, SignedPattern

\* A number that a float is comes back as the value of its float.
LEMMA FloatOfExact ==
  ASSUME NEW n \in Int, Exact(IF n < 0 THEN -n ELSE n)
  PROVE  /\ Finite(FloatOf(n)) /\ V(FloatOf(n)) = n
         /\ SignBit(FloatOf(n)) = IF n < 0 THEN 1 ELSE 0
  <1> DEFINE s == IF n < 0 THEN 1 ELSE 0
             g == IF n < 0 THEN -n ELSE n
  <1>1. PICK a \in 0 .. Infinity - 1 : Mag(a) = g
    BY DEF Exact
  <1>2. a \in 0 .. SignWeight - 1 /\ a \in Nat /\ a < Infinity
    BY Format
  <1>3. a \in Patterns /\ AbsBits(a) = a
    BY <1>2, SignedPattern
  <1>4. ToNearest(g) = a
    <2>1. ToNearest(Mag(a)) = a
      BY <1>2, <1>3, NearestSig
    <2>2. QED BY <1>1, <2>1
  <1>5. FloatOf(n) = WithSign(s, a)
    <2>1. CASE n < 0
      BY <1>4, <2>1 DEF FloatOf
    <2>2. CASE ~(n < 0)
      <3>1. FloatOf(n) = a
        BY <1>4, <2>2 DEF FloatOf
      <3>2. WithSign(0, a) = a
        <4>1. 0 \in 0 .. 1 /\ 0 # 1
          OBVIOUS
        <4>2. QED BY <1>2, <4>1, SignedPattern
      <3>3. s = 0
        BY <2>2
      <3>4. QED BY <3>1, <3>2, <3>3
    <2>3. QED BY <2>1, <2>2
  <1> DEFINE z == WithSign(s, a)
  <1>6. z \in Patterns /\ SignBit(z) = s /\ AbsBits(z) = a
    <2>1. s \in 0 .. 1
      OBVIOUS
    <2> HIDE DEF s
    <2>2. QED BY <1>2, <2>1, SignedPattern
  <1> HIDE DEF z
  <1>7. Mag(z) = g
    <2>1. Mag(AbsBits(z)) = Mag(z)
      BY <1>6, MagIs
    <2>2. QED BY <1>1, <1>6, <2>1
  <1>8. V(z) = n
    <2>1. CASE n < 0
      <3>1. V(z) = -(-n)
        BY <1>6, <1>7, <2>1 DEF V
      <3>2. QED BY <3>1
    <2>2. CASE ~(n < 0)
      BY <1>6, <1>7, <2>2 DEF V
    <2>3. QED BY <2>1, <2>2
  <1>9. QED BY <1>2, <1>5, <1>6, <1>8 DEF Finite, z

\* The value of a finite float, and its sign.
LEMMA ValueIs ==
  ASSUME NEW x, Finite(x)
  PROVE  /\ x \in Patterns /\ V(x) \in Int /\ Mag(x) \in Nat
         /\ V(x) = IF SignBit(x) = 1 THEN -Mag(x) ELSE Mag(x)
         /\ SignBit(x) \in 0 .. 1
         /\ ~IsNaN(x) /\ AbsBits(x) # Infinity /\ AbsBits(x) \in 0 .. Infinity - 1
         /\ V(x) = 0 <=> AbsBits(x) = 0
         /\ (IF V(x) < 0 THEN -V(x) ELSE V(x)) = Mag(x)
  <1>1. x \in Patterns /\ AbsBits(x) < Infinity
    BY DEF Finite
  <1>2. AbsBits(x) \in 0 .. SignWeight - 1 /\ SignBit(x) \in 0 .. 1
    BY <1>1, PatternParts
  <1>3. Infinity \in Nat /\ SignWeight \in Nat
    BY Format
  <1>4. Mag(x) \in Nat /\ (Mag(x) = 0 <=> AbsBits(x) = 0)
    BY <1>1, MagIs
  <1>5. V(x) = IF SignBit(x) = 1 THEN -Mag(x) ELSE Mag(x)
    BY DEF V
  <1>6. ~IsNaN(x) /\ AbsBits(x) # Infinity /\ AbsBits(x) \in 0 .. Infinity - 1
    BY <1>1, <1>2, <1>3 DEF IsNaN
  <1> DEFINE v == V(x)  g == Mag(x)
  <1>7. g \in Nat /\ (v = g \/ v = -g) /\ v \in Int
    BY <1>4, <1>5
  <1> HIDE DEF v, g
  <1>8. (v = 0 <=> g = 0) /\ (IF v < 0 THEN -v ELSE v) = g
    BY <1>7
  <1>9. QED BY <1>1, <1>2, <1>4, <1>5, <1>6, <1>7, <1>8 DEF v, g

\* Two floats of one value are the same, except that zero has two.
LEMMA SameValue ==
  ASSUME NEW x, NEW y, Finite(x), Finite(y), V(x) = V(y),
         V(x) # 0 \/ SignBit(x) = SignBit(y)
  PROVE  x = y
  <1>1. /\ x \in Patterns /\ V(x) \in Int /\ Mag(x) \in Nat
        /\ V(x) = IF SignBit(x) = 1 THEN -Mag(x) ELSE Mag(x)
        /\ SignBit(x) \in 0 .. 1 /\ (V(x) = 0 <=> AbsBits(x) = 0)
        /\ (IF V(x) < 0 THEN -V(x) ELSE V(x)) = Mag(x)
    BY ValueIs
  <1>2. /\ y \in Patterns /\ V(y) \in Int /\ Mag(y) \in Nat
        /\ V(y) = IF SignBit(y) = 1 THEN -Mag(y) ELSE Mag(y)
        /\ SignBit(y) \in 0 .. 1 /\ (V(y) = 0 <=> AbsBits(y) = 0)
        /\ (IF V(y) < 0 THEN -V(y) ELSE V(y)) = Mag(y)
    BY ValueIs
  <1>3. Mag(x) = Mag(y)
    BY <1>1, <1>2
  <1>4. SignBit(x) = SignBit(y)
    <2> DEFINE v == V(x)  g == Mag(x)  s == SignBit(x)  t == SignBit(y)
    <2>1. v = (IF s = 1 THEN -g ELSE g) /\ v = (IF t = 1 THEN -g ELSE g) /\ g \in Nat
          /\ s \in 0 .. 1 /\ t \in 0 .. 1 /\ (v # 0 \/ s = t)
      BY <1>1, <1>2, <1>3
    <2> HIDE DEF v, g, s, t
    <2>2. s = t
      BY <2>1
    <2>3. QED BY <2>2 DEF s, t
  <1>5. AbsBits(x) = AbsBits(y)
    <2>1. AbsBits(x) < AbsBits(y) => Mag(x) < Mag(y)
      BY <1>1, <1>2, MagGrows
    <2>2. AbsBits(y) < AbsBits(x) => Mag(y) < Mag(x)
      BY <1>1, <1>2, MagGrows
    <2>3. AbsBits(x) \in Int /\ AbsBits(y) \in Int
      <3>1. SignWeight \in Nat
        BY Format
      <3>2. QED BY <1>1, <1>2, <3>1, PatternParts
    <2>4. QED BY <1>1, <1>2, <1>3, <2>1, <2>2, <2>3
  <1>6. x = WithSign(SignBit(x), AbsBits(x)) /\ y = WithSign(SignBit(y), AbsBits(y))
    BY <1>1, <1>2, PatternParts
  <1>7. QED BY <1>4, <1>5, <1>6

\* Negation turns the sign and nothing else.
LEMMA NegatedIs ==
  ASSUME NEW x \in Patterns
  PROVE  /\ Negated(x) \in Patterns /\ AbsBits(Negated(x)) = AbsBits(x)
         /\ SignBit(Negated(x)) = 1 - SignBit(x)
         /\ Negated(x) = WithSign(1 - SignBit(x), AbsBits(x))
         /\ Finite(x) => Finite(Negated(x)) /\ V(Negated(x)) = -V(x)
  <1>1. SignBit(x) \in 0 .. 1 /\ AbsBits(x) \in 0 .. SignWeight - 1
    BY PatternParts
  <1>2. 1 - SignBit(x) \in 0 .. 1
    BY <1>1
  <1>3. Negated(x) = WithSign(1 - SignBit(x), AbsBits(x))
    <2>1. AbsBits(AbsBits(x)) = AbsBits(x)
      BY <1>1, <1>2, SignedPattern
    <2>2. QED BY <2>1 DEF Negated, WithSign
  <1> DEFINE z == Negated(x)  s == 1 - SignBit(x)
  <1>4. z \in Patterns /\ AbsBits(z) = AbsBits(x) /\ SignBit(z) = s
    <2> HIDE DEF s
    <2>1. s \in 0 .. 1 /\ z = WithSign(s, AbsBits(x))
      BY <1>2, <1>3 DEF s
    <2> HIDE DEF z
    <2>2. QED BY <1>1, <2>1, SignedPattern
  <1>5. Mag(z) = Mag(x) /\ Mag(x) \in Nat
    <2>1. Mag(AbsBits(z)) = Mag(z) /\ Mag(AbsBits(x)) = Mag(x) /\ Mag(x) \in Nat
      <3> HIDE DEF z
      <3>1. QED BY <1>4, MagIs
    <2>2. QED BY <1>4, <2>1
  <1>6. V(z) = -V(x)
    <2> HIDE DEF z
    <2>1. QED BY <1>1, <1>4, <1>5 DEF V
  <1>7. QED BY <1>3, <1>4, <1>6 DEF Finite

\* What a float is worth, in 2 ^ c smallest subnormals.
LEMMA Scaling ==
  ASSUME NEW x \in Patterns, NEW c \in 0 .. Pow(x)
  PROVE  /\ Sig(x) * TwoTo[Pow(x) - c] \in Nat
         /\ (Sig(x) * TwoTo[Pow(x) - c]) * TwoTo[c] = Mag(x)
  <1> DEFINE s == Sig(x)  p == Pow(x)  d == p - c  D == TwoTo[d]  C == TwoTo[c]
  <1>1. s \in Nat /\ p \in Nat /\ c \in Nat /\ d \in Nat /\ p = d + c
    <2>1. Hidden \in Nat /\ ExpMax \in Nat
      BY Format
    <2>2. s \in 0 .. 2 * Hidden - 1 /\ p \in 0 .. ExpMax
      BY SigPow
    <2>3. QED BY <2>1, <2>2
  <1>2. TwoTo[p] = D * C /\ D \in Nat /\ C \in Nat
    <2> HIDE DEF p, d
    <2>1. QED BY <1>1, TwoToAdds, TwoToIs
  <1>3. Mag(x) = s * TwoTo[p]
    BY DEF Mag
  <1> HIDE DEF s, D, C, p
  <1>4. (s * D) * C = s * (D * C) /\ s * D \in Nat
    BY <1>1, <1>2, Z3T(60)
  <1>5. QED BY <1>2, <1>3, <1>4 DEF s, p, D, C

\* The processor's sum is the float nearest to the sum of the values.
LEMMA SumIs ==
  ASSUME NEW x, NEW y, Finite(x), Finite(y), NEW n, n = V(x) + V(y)
  PROVE  /\ n \in Int
         /\ n # 0 => Plus(x, y) = FloatOf(n)
         /\ n = 0 => Plus(x, y) = WithSign(IF SignBit(x) = 1 /\ SignBit(y) = 1 THEN 1 ELSE 0, 0)
  <1> DEFINE c == Lesser(Pow(x), Pow(y))
             C == TwoTo[c]
             X1 == Sig(x) * TwoTo[Pow(x) - c]
             Y1 == Sig(y) * TwoTo[Pow(y) - c]
             A == (IF SignBit(x) = 1 THEN -1 ELSE 1) * Sig(x) * TwoTo[Pow(x) - c]
             B == (IF SignBit(y) = 1 THEN -1 ELSE 1) * Sig(y) * TwoTo[Pow(y) - c]
             i == A + B
  <1>1. /\ x \in Patterns /\ V(x) = (IF SignBit(x) = 1 THEN -Mag(x) ELSE Mag(x))
        /\ V(x) \in Int /\ Mag(x) \in Nat /\ ~IsNaN(x) /\ AbsBits(x) # Infinity
    BY ValueIs
  <1>2. /\ y \in Patterns /\ V(y) = (IF SignBit(y) = 1 THEN -Mag(y) ELSE Mag(y))
        /\ V(y) \in Int /\ Mag(y) \in Nat /\ ~IsNaN(y) /\ AbsBits(y) # Infinity
    BY ValueIs
  <1>3. c \in 0 .. Pow(x) /\ c \in 0 .. Pow(y) /\ Sig(x) \in Nat /\ Sig(y) \in Nat /\ c \in Nat
        /\ Pow(x) - c \in Nat /\ Pow(y) - c \in Nat
    <2>1. Hidden \in Nat /\ ExpMax \in Nat
      BY Format
    <2>2. Pow(x) \in 0 .. ExpMax /\ Pow(y) \in 0 .. ExpMax
          /\ Sig(x) \in 0 .. 2 * Hidden - 1 /\ Sig(y) \in 0 .. 2 * Hidden - 1
      BY <1>1, <1>2, SigPow
    <2>3. QED BY <2>1, <2>2 DEF Lesser
  <1>4. C \in Nat \ {0}
    BY <1>3, TwoToIs
  <1>5. Plus(x, y) = IF i = 0 THEN WithSign(IF SignBit(x) = 1 /\ SignBit(y) = 1 THEN 1 ELSE 0, 0)
                    ELSE IF i < 0 THEN WithSign(1, Nearest(-i, c)) ELSE Nearest(i, c)
    BY <1>1, <1>2 DEF Plus
  <1>6. X1 \in Nat /\ X1 * C = Mag(x)
    <2> HIDE DEF c
    <2>1. QED BY <1>1, <1>3, Scaling
  <1>7. Y1 \in Nat /\ Y1 * C = Mag(y)
    <2> HIDE DEF c
    <2>1. QED BY <1>2, <1>3, Scaling
  <1>8. A = (IF SignBit(x) = 1 THEN -X1 ELSE X1) /\ B = (IF SignBit(y) = 1 THEN -Y1 ELSE Y1)
    <2> DEFINE S == Sig(x)  T == Sig(y)  P == TwoTo[Pow(x) - c]  Q == TwoTo[Pow(y) - c]
    <2>1. P \in Nat /\ Q \in Nat /\ S \in Nat /\ T \in Nat
      BY <1>3, TwoToIs
    <2> HIDE DEF S, T, P, Q
    <2>2. (-1) * S * P = -(S * P) /\ 1 * S * P = S * P
      BY <2>1, Z3T(60)
    <2>3. (-1) * T * Q = -(T * Q) /\ 1 * T * Q = T * Q
      BY <2>1, Z3T(60)
    <2>4. QED BY <2>2, <2>3 DEF S, T, P, Q
  <1> HIDE DEF C, X1, Y1, A, B
  <1>9. i \in Int /\ n \in Int /\ n = i * C
    <2>1. (-X1) * C = -(X1 * C) /\ (-Y1) * C = -(Y1 * C)
      BY <1>4, <1>6, <1>7, Z3T(60)
    <2>2. A \in Int /\ B \in Int
      BY <1>6, <1>7, <1>8
    <2>3. A * C = V(x) /\ B * C = V(y)
      BY <1>1, <1>2, <1>6, <1>7, <1>8, <2>1
    <2>4. (A + B) * C = A * C + B * C
      BY <1>4, <2>2, Z3T(60)
    <2>5. QED BY <1>1, <1>2, <2>2, <2>3, <2>4
  <1> HIDE DEF i, c
  <1>10. i = 0 <=> n = 0
    <2>1. i >= 1 => i * C >= C
      BY <1>4, <1>9, Z3T(60)
    <2>2. i <= -1 => i * C <= -C
      BY <1>4, <1>9, Z3T(60)
    <2>3. i = 0 => i * C = 0
      BY <1>4
    <2>4. QED BY <1>4, <1>9, <2>1, <2>2, <2>3
  <1>11. CASE i = 0
    BY <1>5, <1>9, <1>10, <1>11
  <1>12. CASE i < 0
    <2>1. -i \in Nat /\ -n = (-i) * C /\ n < 0
      <3>1. (-i) * C = -(i * C) /\ i * C <= -C
        BY <1>4, <1>9, <1>12, Z3T(60)
      <3>2. -i \in Nat
        BY <1>9, <1>12
      <3>3. QED BY <1>4, <1>9, <3>1, <3>2
    <2>2. Nearest(-i, c) = ToNearest((-i) * C)
      BY <1>3, <2>1, NearestUp DEF C
    <2>3. Plus(x, y) = WithSign(1, Nearest(-i, c))
      BY <1>5, <1>10, <1>12, <2>1
    <2>4. QED BY <1>9, <2>1, <2>2, <2>3 DEF FloatOf
  <1>13. CASE i > 0
    <2>1. i \in Nat /\ n > 0
      <3>1. i * C >= C
        BY <1>4, <1>9, <1>13, Z3T(60)
      <3>2. QED BY <1>4, <1>9, <1>13, <3>1
    <2>2. Nearest(i, c) = ToNearest(i * C)
      BY <1>3, <2>1, NearestUp DEF C
    <2>3. Plus(x, y) = Nearest(i, c)
      BY <1>5, <1>9, <1>13
    <2>4. QED BY <1>9, <2>1, <2>2, <2>3 DEF FloatOf
  <1>14. QED BY <1>9, <1>11, <1>12, <1>13

\* A sum that a float holds is exact.
LEMMA SumExact ==
  ASSUME NEW x, NEW y, Finite(x), Finite(y), NEW n, n = V(x) + V(y),
         Exact(IF n < 0 THEN -n ELSE n)
  PROVE  /\ Finite(Plus(x, y)) /\ V(Plus(x, y)) = n
         /\ n # 0 => SignBit(Plus(x, y)) = IF n < 0 THEN 1 ELSE 0
         /\ n = 0 => SignBit(Plus(x, y)) = IF SignBit(x) = 1 /\ SignBit(y) = 1 THEN 1 ELSE 0
  <1>1. /\ n \in Int
        /\ n # 0 => Plus(x, y) = FloatOf(n)
        /\ n = 0 => Plus(x, y) = WithSign(IF SignBit(x) = 1 /\ SignBit(y) = 1 THEN 1 ELSE 0, 0)
    BY SumIs
  <1>2. CASE n # 0
    <2>1. Finite(FloatOf(n)) /\ V(FloatOf(n)) = n
          /\ SignBit(FloatOf(n)) = IF n < 0 THEN 1 ELSE 0
      BY <1>1, FloatOfExact
    <2>2. QED BY <1>1, <1>2, <2>1
  <1>3. CASE n = 0
    <2> DEFINE s == IF SignBit(x) = 1 /\ SignBit(y) = 1 THEN 1 ELSE 0
               z == WithSign(s, 0)
    <2>1. 0 \in 0 .. SignWeight - 1 /\ 0 \in Patterns /\ AbsBits(0) = 0 /\ Mag(0) = 0
          /\ 0 \in 0 .. Infinity - 1
      <3>1. 0 \in 0 .. 2 * Hidden - 1
        BY Format
      <3>2. QED BY <3>1, SmallMag
    <2>2. s \in 0 .. 1
      OBVIOUS
    <2> HIDE DEF s
    <2>3. z \in Patterns /\ SignBit(z) = s /\ AbsBits(z) = 0
      BY <2>1, <2>2, SignedPattern
    <2> HIDE DEF z
    <2>4. Mag(z) = 0
      BY <2>1, <2>3, MagIs
    <2>5. V(z) = 0
      <3> DEFINE g == Mag(z)  v == V(z)
      <3>1. v = (IF SignBit(z) = 1 THEN -g ELSE g) /\ g \in Int /\ g <= 0 /\ g >= 0
        BY <2>4 DEF V
      <3> HIDE DEF g, v
      <3>2. v = 0
        BY <3>1
      <3>3. QED BY <3>2 DEF v
    <2>6. Finite(z)
      <3>1. Infinity \in Nat
        BY Format
      <3>2. QED BY <2>1, <2>3, <3>1 DEF Finite
    <2>7. Plus(x, y) = z
      BY <1>1, <1>3 DEF z, s
    <2>8. QED BY <1>3, <2>3, <2>5, <2>6, <2>7 DEF s
  <1>4. QED BY <1>2, <1>3

\* A difference that a float is exactly is what is returned.
LEMMA DifferenceExact ==
  ASSUME NEW x, NEW y, Finite(x), Finite(y), NEW n, n = V(x) - V(y),
         Exact(IF n < 0 THEN -n ELSE n)
  PROVE  /\ Finite(Difference(x, y)) /\ V(Difference(x, y)) = n
         /\ n # 0 => SignBit(Difference(x, y)) = IF n < 0 THEN 1 ELSE 0
         /\ n = 0 => SignBit(Difference(x, y)) =
                       IF SignBit(x) = 1 /\ SignBit(y) = 0 THEN 1 ELSE 0
  <1> DEFINE z == Negated(y)
  <1>1. y \in Patterns /\ ~IsNaN(y) /\ SignBit(y) \in 0 .. 1 /\ V(y) \in Int
    BY ValueIs
  <1>2. Finite(z) /\ V(z) = -V(y) /\ SignBit(z) = 1 - SignBit(y)
    BY <1>1, NegatedIs
  <1>3. Difference(x, y) = Plus(x, z)
    BY <1>1 DEF Difference
  <1> HIDE DEF z
  <1>4. V(x) \in Int
    BY ValueIs
  <1>5. n = V(x) + V(z)
    BY <1>1, <1>2, <1>4
  <1>6. SignBit(z) = 1 <=> SignBit(y) = 0
    BY <1>1, <1>2
  <1> DEFINE d == Plus(x, z)
  <1>7. /\ Finite(d) /\ V(d) = n
        /\ n # 0 => SignBit(d) = IF n < 0 THEN 1 ELSE 0
        /\ n = 0 => SignBit(d) = IF SignBit(x) = 1 /\ SignBit(z) = 1 THEN 1 ELSE 0
    BY <1>2, <1>5, SumExact
  <1> HIDE DEF d
  <1>8. QED BY <1>3, <1>6, <1>7 DEF d

\* Comparison is that of the values.
LEMMA BelowIs ==
  ASSUME NEW x, NEW y, Finite(x), Finite(y)
  PROVE  Below(x, y) <=> V(x) < V(y)
  <1> DEFINE a == AbsBits(x)  b == AbsBits(y)  s == SignBit(x)  t == SignBit(y)
             g == Mag(x)  f == Mag(y)
  <1>1. /\ x \in Patterns /\ V(x) = (IF s = 1 THEN -g ELSE g) /\ g \in Nat
        /\ s \in 0 .. 1 /\ ~IsNaN(x) /\ a \in 0 .. Infinity - 1
    BY ValueIs
  <1>2. /\ y \in Patterns /\ V(y) = (IF t = 1 THEN -f ELSE f) /\ f \in Nat
        /\ t \in 0 .. 1 /\ ~IsNaN(y) /\ b \in 0 .. Infinity - 1
    BY ValueIs
  <1>3. Infinity \in Nat
    BY Format
  <1>4. (a < b => g < f) /\ (b < a => f < g)
    BY <1>1, <1>2, MagGrows
  <1>5. (a = b => g = f) /\ (a = 0 <=> g = 0) /\ (b = 0 <=> f = 0)
    <2>1. Mag(a) = g /\ Mag(b) = f /\ (a = 0 <=> g = 0) /\ (b = 0 <=> f = 0)
      BY <1>1, <1>2, MagIs
    <2>2. QED BY <2>1
  <1>6. Key(x) = (IF s = 1 THEN -a ELSE a) /\ Key(y) = (IF t = 1 THEN -b ELSE b)
    <2>1. x = (IF s = 1 THEN SignWeight + a ELSE a) /\ y = (IF t = 1 THEN SignWeight + b ELSE b)
      BY <1>1, <1>2, PatternParts
    <2>2. QED BY <2>1 DEF Key
  <1>7. Below(x, y) <=> Key(x) < Key(y)
    BY <1>1, <1>2 DEF Below
  <1> HIDE DEF a, b, s, t, g, f
  <1>8. Key(x) < Key(y) <=> V(x) < V(y)
    <2>1. CASE s = 1 /\ t = 1
      BY <1>1, <1>2, <1>3, <1>4, <1>5, <1>6, <2>1
    <2>2. CASE s = 1 /\ t = 0
      BY <1>1, <1>2, <1>3, <1>4, <1>5, <1>6, <2>2
    <2>3. CASE s = 0 /\ t = 1
      BY <1>1, <1>2, <1>3, <1>4, <1>5, <1>6, <2>3
    <2>4. CASE s = 0 /\ t = 0
      BY <1>1, <1>2, <1>3, <1>4, <1>5, <1>6, <2>4
    <2>5. QED BY <1>1, <1>2, <2>1, <2>2, <2>3, <2>4
  <1>9. QED BY <1>7, <1>8

-----------------------------------------------------------------------------
(* Integers and the rest of a float.                                       *)

\* The units of 1 in a smallest subnormal.
OneUnits == TwoTo[UnitBits]

\* One, in smallest subnormals, and its multiples that floats are exactly.
LEMMA UnitsAre ==
  /\ UnitBits \in Nat \ {0} /\ UnitBits = Bias - 1 + MantBits
  /\ OneUnits \in Nat \ {0} /\ UnitBits < ExpMax - 1
  /\ \A j \in 0 .. 2 * Hidden : j * OneUnits \in Nat /\ Exact(j * OneUnits)
  <1>1. MantBits \in Nat \ {0} /\ Bias \in Nat /\ Bias >= 3 * MantBits + 6 /\ ExpMax = 2 * Bias + 1
        /\ Hidden \in Nat /\ Hidden >= 2
    BY Format
  <1>2. UnitBits \in Nat \ {0} /\ UnitBits = Bias - 1 + MantBits /\ UnitBits < ExpMax - 1
    BY <1>1 DEF UnitBits
  <1>3. OneUnits \in Nat \ {0}
    BY <1>2, TwoToIs DEF OneUnits
  <1>4. ASSUME NEW j \in 0 .. 2 * Hidden PROVE j * OneUnits \in Nat /\ Exact(j * OneUnits)
    <2> DEFINE h == Hidden  o == OneUnits  T == TwoTo[ExpMax - 1]
    <2>1. T \in Nat /\ 4 * o <= T
      <3>1. UnitBits + 1 < ExpMax - 1 /\ UnitBits + 1 \in Nat /\ ExpMax - 1 \in Nat
        BY <1>1, <1>2
      <3>2. 2 * TwoTo[UnitBits + 1] <= T /\ TwoTo[UnitBits + 1] = 2 * o
        BY <1>2, <3>1, TwoToGrows, TwoToIs DEF OneUnits
      <3>3. QED BY <1>3, <3>1, <3>2, TwoToIs
    <2>2. j \in 0 .. 2 * h
      OBVIOUS
    <2> HIDE DEF h, o, T
    <2>3. j * o <= (2 * h) * o /\ (2 * h) * o = h * (2 * o) /\ h * (2 * o) < h * (4 * o)
          /\ h * (4 * o) <= h * T
      BY <1>1, <1>3, <2>1, <2>2, Z3T(60) DEF h, o
    <2>4. j * o \in Nat /\ (2 * h) * o \in Nat /\ h * (4 * o) \in Nat /\ h * T \in Nat
      BY <1>1, <1>3, <2>1, <2>2, Z3T(60) DEF h, o
    <2>5. j * o < h * T
      BY <2>3, <2>4
    <2>6. j * TwoTo[UnitBits] < Hidden * TwoTo[ExpMax - 1]
      BY <2>5 DEF h, o, T, OneUnits
    <2>7. j * TwoTo[UnitBits] \in Nat /\ Exact(j * TwoTo[UnitBits])
      BY <1>2, <2>6, IsExact
    <2>8. QED BY <2>7 DEF OneUnits
  <1>5. QED BY <1>2, <1>3, <1>4

\* How a float below 2 ^ MantBits divides into integer and rest.
LEMMA Pieces ==
  ASSUME NEW x, Finite(x), Pow(x) < UnitBits,
         NEW u, u = UnitsIn(x), NEW i, i = IntPart(x), NEW r, r = Parts(x),
         NEW t, t = TwoTo[Pow(x)]
  PROVE  /\ u \in Nat \ {0} /\ i \in 0 .. Hidden - 1 /\ r \in 0 .. u - 1 /\ t \in Nat \ {0}
         /\ Sig(x) = u * i + r /\ u * t = OneUnits /\ Mag(x) = i * OneUnits + r * t
         /\ r * t \in 0 .. OneUnits - 1 /\ (r * t = 0 <=> r = 0)
         /\ u = 2 * (u \div 2) /\ u \div 2 \in Nat
         /\ Whole(x) <=> r = 0
  <1> DEFINE s == Sig(x)  p == Pow(x)  d == UnitBits - p  h == Hidden  o == OneUnits
  <1>1. x \in Patterns /\ ~IsNaN(x)
    BY ValueIs
  <1>2. h \in Nat /\ h >= 2 /\ s \in 0 .. 2 * h - 1 /\ p \in Nat /\ d \in Nat \ {0} /\ UnitBits = d + p
    <2>1. ExpMax \in Nat /\ h \in Nat /\ h >= 2
      BY Format
    <2>2. s \in 0 .. 2 * h - 1 /\ p \in 0 .. ExpMax
      BY <1>1, SigPow
    <2>3. QED BY <2>1, <2>2, UnitsAre
  <1>3. u = TwoTo[d] /\ t = TwoTo[p] /\ u \in Nat \ {0} /\ t \in Nat \ {0}
    BY <1>2, TwoToIs DEF UnitsIn
  <1>4. u * t = o
    <2> HIDE DEF d, p
    <2>1. TwoTo[d + p] = TwoTo[d] * TwoTo[p]
      BY <1>2, TwoToAdds
    <2>2. QED BY <1>2, <1>3, <2>1 DEF OneUnits
  <1>5. \E c \in Nat \ {0} : u = 2 * c
    BY <1>2, <1>3, TwoToTwice
  <1>6. u = 2 * (u \div 2) /\ u \div 2 \in Nat
    <2>1. PICK c \in Nat \ {0} : u = 2 * c
      BY <1>5
    <2>2. QED BY <2>1
  <1>7. i \in Int /\ r \in 0 .. u - 1 /\ s = u * i + r
    <2>1. i = s \div u /\ r = s % u
      BY DEF IntPart, Parts
    <2>2. s \in Int
      BY <1>2
    <2> HIDE DEF s
    <2>3. QED BY <1>3, <2>1, <2>2, DivInt
  <1>8. Mag(x) = s * t
    BY <1>3 DEF Mag
  <1>9. Whole(x) <=> r = 0
    <2>1. ~(Pow(x) >= UnitBits)
      BY <1>2
    <2>2. QED BY <1>1, <2>1 DEF Whole, Parts
  <1>10. o \in Nat
    BY UnitsAre
  <1> HIDE DEF s, h, o
  <1>11. i \in 0 .. h - 1
    <2>1. i <= -1 => u * i <= -u
      BY <1>3, <1>7, Z3T(60)
    <2>2. i >= h => u * i >= u * h
      BY <1>2, <1>3, <1>7, Z3T(60)
    <2>3. u * h >= 2 * h
      <3>1. u >= 2
        BY <1>5
      <3>2. QED BY <1>2, <1>3, <3>1, Z3T(60)
    <2>4. u * h \in Nat /\ u * i \in Int
      BY <1>2, <1>3, <1>7, Z3T(60)
    <2>5. QED BY <1>2, <1>3, <1>7, <2>1, <2>2, <2>3, <2>4
  <1>12. s * t = i * o + r * t
    <2>1. (u * i + r) * t = i * (u * t) + r * t
      BY <1>3, <1>7, Z3T(60)
    <2>2. QED BY <1>4, <1>7, <2>1
  <1>13. r * t \in 0 .. o - 1 /\ (r * t = 0 <=> r = 0)
    <2>1. r * t <= (u - 1) * t /\ (u - 1) * t = u * t - t /\ r * t \in Nat
      BY <1>3, <1>7, Z3T(60)
    <2>2. r >= 1 => r * t >= t
      BY <1>3, <1>7, Z3T(60)
    <2>3. r = 0 => r * t = 0
      BY <1>3
    <2>4. QED BY <1>3, <1>4, <1>7, <1>10, <2>1, <2>2, <2>3
  <1>14. QED BY <1>3, <1>4, <1>6, <1>7, <1>8, <1>9, <1>11, <1>12, <1>13 DEF s, h, o

\* The float of an integer: sign s, magnitude j.
IntegerFloat(s, j) == WithSign(s, Nearest(j, UnitBits))

\* The float of an integer up to the last that is exact.
LEMMA IntegerFloatIs ==
  ASSUME NEW s \in 0 .. 1, NEW j \in 0 .. Hidden
  PROVE  /\ Finite(IntegerFloat(s, j)) /\ SignBit(IntegerFloat(s, j)) = s
         /\ V(IntegerFloat(s, j)) = (IF s = 1 THEN -(j * OneUnits) ELSE j * OneUnits)
         /\ Mag(IntegerFloat(s, j)) = j * OneUnits /\ j * OneUnits \in Nat
  <1> DEFINE n == j * OneUnits
  <1>1. j \in 0 .. 2 * Hidden /\ j \in Nat
    BY Format
  <1>2. n \in Nat /\ Exact(n) /\ UnitBits \in Nat
    BY <1>1, UnitsAre
  <1>3. Nearest(j, UnitBits) = ToNearest(n)
    BY <1>1, <1>2, NearestUp DEF OneUnits
  <1> HIDE DEF n
  <1>4. PICK a \in 0 .. Infinity - 1 : Mag(a) = n
    BY <1>2 DEF Exact
  <1>5. a \in 0 .. SignWeight - 1 /\ a \in Nat /\ a < Infinity
    BY Format
  <1>6. a \in Patterns /\ AbsBits(a) = a
    BY <1>5, SignedPattern
  <1>7. ToNearest(n) = a
    <2>1. ToNearest(Mag(a)) = a
      BY <1>5, <1>6, NearestSig
    <2>2. QED BY <1>4, <2>1
  <1> DEFINE z == WithSign(s, a)
  <1>8. z \in Patterns /\ SignBit(z) = s /\ AbsBits(z) = a
    BY <1>5, SignedPattern
  <1>9. IntegerFloat(s, j) = z
    BY <1>3, <1>7 DEF IntegerFloat
  <1> HIDE DEF z
  <1>10. Mag(z) = n
    <2>1. Mag(AbsBits(z)) = Mag(z)
      BY <1>8, MagIs
    <2>2. QED BY <1>4, <1>8, <2>1
  <1>11. V(z) = IF s = 1 THEN -n ELSE n
    BY <1>8, <1>10 DEF V
  <1>12. QED BY <1>2, <1>5, <1>8, <1>9, <1>10, <1>11 DEF Finite, n

\* An exponent and a mantissa of zeros.
LEMMA PowerFloat ==
  ASSUME NEW e \in 1 .. ExpMax - 1
  PROVE  /\ Finite(e * Hidden) /\ SignBit(e * Hidden) = 0 /\ AbsBits(e * Hidden) = e * Hidden
         /\ Exponent(e * Hidden) = e /\ Mantissa(e * Hidden) = 0
         /\ Sig(e * Hidden) = Hidden /\ Pow(e * Hidden) = e - 1
         /\ Mag(e * Hidden) = Hidden * TwoTo[e - 1] /\ V(e * Hidden) = Mag(e * Hidden)
  <1> DEFINE h == Hidden  x == ExpMax  a == e * h
  <1>1. h \in Nat /\ h >= 2 /\ x \in Nat /\ Infinity = h * x
    BY Format
  <1>2. e \in 1 .. x - 1
    OBVIOUS
  <1> HIDE DEF h, x
  <1>3. a = h * e + 0 /\ a < h * x
    <2>1. e * h = h * e /\ h * e <= h * (x - 1) /\ h * (x - 1) = h * x - h /\ h * e \in Nat
      BY <1>1, <1>2, Z3T(60)
    <2>2. QED BY <1>1, <2>1
  <1>4. e \in 0 .. x /\ 0 \in 0 .. h - 1
    BY <1>1, <1>2
  <1>5. h * e + 0 \in 0 .. SignWeight - 1 /\ h * e + 0 \in Patterns
        /\ Exponent(h * e + 0) = e /\ Mantissa(h * e + 0) = 0
    <2> DEFINE m == 0
    <2>1. m \in 0 .. h - 1
      BY <1>4
    <2> HIDE DEF m
    <2>2. h * e + m \in 0 .. SignWeight - 1 /\ h * e + m \in Patterns
          /\ Exponent(h * e + m) = e /\ Mantissa(h * e + m) = m
      BY <1>4, <2>1, FromParts DEF h, x
    <2>3. QED BY <2>2 DEF m
  <1>6. a \in 0 .. SignWeight - 1 /\ a \in Patterns /\ Exponent(a) = e /\ Mantissa(a) = 0
    BY <1>3, <1>5
  <1>7. a < Infinity
    BY <1>1, <1>3
  <1> HIDE DEF a
  <1>8. SignBit(a) = 0 /\ AbsBits(a) = a
    BY <1>6, SignedPattern
  <1>9. Sig(a) = h /\ Pow(a) = e - 1
    <2>1. e # 0 /\ h + 0 = h
      BY <1>1, <1>2
    <2>2. QED BY <1>6, <2>1 DEF Sig, Pow, h
  <1>10. Mag(a) = h * TwoTo[e - 1] /\ V(a) = Mag(a)
    <2>1. 0 # 1
      OBVIOUS
    <2>2. QED BY <1>8, <1>9, <2>1 DEF Mag, V
  <1>11. QED BY <1>6, <1>7, <1>8, <1>9, <1>10 DEF Finite, a, h

\* The constants of the code.
LEMMA FixedFloats ==
  /\ Finite(Zero) /\ V(Zero) = 0 /\ SignBit(Zero) = 0 /\ Mag(Zero) = 0
  /\ Finite(One) /\ V(One) = OneUnits /\ SignBit(One) = 0 /\ AbsBits(One) = One
  /\ Finite(Half) /\ 2 * V(Half) = OneUnits /\ SignBit(Half) = 0 /\ AbsBits(Half) = Half
  /\ Finite(toint) /\ V(toint) = Hidden * OneUnits /\ SignBit(toint) = 0
  /\ AbsBits(toint) = toint
  <1>1. Bias \in Nat /\ Bias >= 3 * MantBits + 6 /\ ExpMax = 2 * Bias + 1 /\ MantBits \in Nat \ {0}
        /\ Hidden \in Nat
    BY Format
  <1>2. Bias \in 1 .. ExpMax - 1 /\ Bias - 1 \in 1 .. ExpMax - 1
        /\ Bias + MantBits \in 1 .. ExpMax - 1
    BY <1>1
  <1>3. Hidden * TwoTo[Bias - 1] = OneUnits
    <2>1. TwoTo[MantBits + (Bias - 1)] = TwoTo[MantBits] * TwoTo[Bias - 1]
      <3>1. Bias - 1 \in Nat /\ MantBits \in Nat
        BY <1>1
      <3>2. QED BY <3>1, TwoToAdds
    <2>2. UnitBits = MantBits + (Bias - 1)
      BY <1>1, UnitsAre
    <2>3. QED BY <2>1, <2>2 DEF OneUnits, Hidden
  <1>4. 2 * (Hidden * TwoTo[(Bias - 1) - 1]) = OneUnits
    <2> DEFINE T == TwoTo[(Bias - 1) - 1]  h == Hidden
    <2>1. TwoTo[Bias - 1] = 2 * T /\ T \in Nat
      <3>1. Bias - 1 \in Nat \ {0}
        BY <1>1
      <3>2. QED BY <3>1, TwoToTwice
    <2> HIDE DEF T, h
    <2>2. h * (2 * T) = 2 * (h * T)
      BY <1>1, <2>1, Z3T(60) DEF h
    <2>3. h * TwoTo[Bias - 1] = OneUnits
      BY <1>3 DEF h
    <2>4. 2 * (h * T) = OneUnits
      BY <2>1, <2>2, <2>3
    <2>5. QED BY <2>4 DEF h, T
  <1>5. Finite(Zero) /\ V(Zero) = 0 /\ SignBit(Zero) = 0 /\ Mag(Zero) = 0
    <2>1. 0 \in 0 .. 2 * Hidden - 1
      BY Format
    <2>2. 0 \in 0 .. Infinity - 1 /\ 0 \in Patterns /\ 0 \in 0 .. SignWeight - 1
          /\ AbsBits(0) = 0 /\ Mag(0) = 0
      BY <2>1, SmallMag
    <2>3. SignBit(0) = 0
      BY <2>2, SignedPattern
    <2>4. 0 # 1 /\ Infinity \in Nat
      BY Format
    <2>5. 0 < Infinity
      BY <2>2, <2>4
    <2>6. QED BY <2>2, <2>3, <2>4, <2>5 DEF Zero, Finite, V
  <1>6. Finite(One) /\ V(One) = OneUnits /\ SignBit(One) = 0 /\ AbsBits(One) = One
    BY <1>2, <1>3, PowerFloat DEF One
  <1>7. Finite(Half) /\ 2 * V(Half) = OneUnits /\ SignBit(Half) = 0 /\ AbsBits(Half) = Half
    BY <1>2, <1>4, PowerFloat DEF Half
  <1>8. Finite(toint) /\ V(toint) = Hidden * OneUnits /\ SignBit(toint) = 0
        /\ AbsBits(toint) = toint
    <2>1. (Bias + MantBits) - 1 = UnitBits
      BY <1>1, UnitsAre
    <2>2. QED BY <1>2, <2>1, PowerFloat DEF toint, OneUnits
  <1>9. QED BY <1>5, <1>6, <1>7, <1>8

-----------------------------------------------------------------------------
(* The integer neighbour that adding 2 ^ MantBits finds.                   *)

\* toint moved by j.
LEMMA ShiftedFloat ==
  ASSUME NEW j \in 0 .. Hidden
  PROVE  /\ toint + j \in 0 .. Infinity - 1
         /\ Mag(toint + j) = (Hidden + j) * OneUnits
         /\ (UnitBits * Hidden + Hidden) + j = toint + j
  <1> DEFINE h == Hidden  b == Bias + MantBits  x == ExpMax  o == OneUnits
  <1>1. /\ b \in Nat /\ b - 1 \in Nat /\ b + 1 \in 1 .. x - 1 /\ b \in 1 .. x - 1 /\ x \in Nat
        /\ b - 1 = UnitBits /\ h \in Nat /\ h >= 2
        /\ Infinity = h * x /\ Infinity \in Nat /\ o \in Nat /\ toint = b * h
    <2>1. Bias \in Nat /\ Bias >= 3 * MantBits + 6 /\ x = 2 * Bias + 1 /\ MantBits \in Nat \ {0}
          /\ h \in Nat /\ h >= 2 /\ Infinity = h * x /\ Infinity \in Nat
      BY Format
    <2>2. QED BY <2>1, UnitsAre DEF toint
  <1>2. j \in 0 .. h
    OBVIOUS
  <1>3. CASE j < h
    <2> DEFINE a == h * b + j
    <2>1. b \in 0 .. x /\ j \in 0 .. h - 1
      BY <1>1, <1>2, <1>3
    <2>2. a \in 0 .. SignWeight - 1 /\ a \in Patterns /\ Exponent(a) = b /\ Mantissa(a) = j
      <3> HIDE DEF b
      <3>1. QED BY <2>1, FromParts DEF h, x
    <2>3. Sig(a) = h + j /\ Pow(a) = b - 1
      <3> HIDE DEF a
      <3>1. b # 0
        BY <1>1
      <3>2. QED BY <2>2, <3>1 DEF Sig, Pow, h
    <2>4. Mag(a) = (h + j) * o
      <3> HIDE DEF a
      <3>1. QED BY <1>1, <2>3 DEF Mag, OneUnits, o
    <2>5. a = toint + j /\ a \in 0 .. Infinity - 1 /\ (UnitBits * h + h) + j = toint + j
      <3> HIDE DEF h, b, x
      <3>1. h * b = b * h /\ h * b <= h * (x - 1) /\ h * (x - 1) = h * x - h /\ h * b \in Nat
            /\ (b - 1) * h + h = b * h
        BY <1>1, Z3T(60)
      <3>2. QED BY <1>1, <1>2, <1>3, <3>1
    <2> HIDE DEF a
    <2>6. QED BY <2>4, <2>5
  <1>4. CASE j = h
    <2> DEFINE c == b + 1  a == c * h
    <2>1. Finite(a) /\ Mag(a) = h * TwoTo[c - 1] /\ a = AbsBits(a)
      <3> HIDE DEF c
      <3>1. c \in 1 .. ExpMax - 1
        BY <1>1 DEF c
      <3>2. QED BY <3>1, PowerFloat
    <2>2. a \in 0 .. Infinity - 1
      <3> HIDE DEF a
      <3>1. QED BY <2>1, ValueIs
    <2>3. TwoTo[c - 1] = 2 * o
      <3>1. c - 1 = UnitBits + 1 /\ UnitBits \in Nat
        BY <1>1
      <3>2. QED BY <3>1, TwoToIs DEF OneUnits
    <2>4. a = toint + j /\ (UnitBits * h + h) + j = toint + j
      <3> HIDE DEF h, b, x
      <3>1. (b + 1) * h = b * h + h /\ b * h \in Nat /\ (b - 1) * h + h = b * h
        BY <1>1, Z3T(60)
      <3>2. QED BY <1>1, <1>4, <3>1
    <2>5. Mag(a) = (h + j) * o
      <3> HIDE DEF h, a, o
      <3>1. h * (2 * o) = (h + h) * o
        BY <1>1, Z3T(60)
      <3>2. QED BY <1>4, <2>1, <2>3, <3>1
    <2> HIDE DEF a
    <2>6. QED BY <2>2, <2>4, <2>5
  <1>5. QED BY <1>1, <1>2, <1>3, <1>4

\* Half to even.
Even(x) == IntPart(x) + Carry(IntPart(x), Parts(x), UnitsIn(x))

\* Rounding to even is rounding up when the rest is more than half.
LEMMA CarryIs ==
  ASSUME NEW q \in Nat, NEW r \in Nat, NEW t \in Nat
  PROVE  /\ Carry(q, r, t) \in 0 .. 1
         /\ Carry(q, r, t) = 1 => 2 * r >= t
         /\ Carry(q, r, t) = 0 => 2 * r <= t
         /\ Carry(q, r, t) = IF 2 * r > t \/ (2 * r = t /\ q % 2 = 1) THEN 1 ELSE 0
  BY DEF Carry

\* The sum of the magnitude of x and toint, rounded.
LEMMA ShiftRounds ==
  ASSUME NEW x, Finite(x), Pow(x) < UnitBits
  PROVE  /\ Even(x) \in 0 .. Hidden
         /\ ToNearest(Mag(x) + Hidden * OneUnits) = toint + Even(x)
  <1> DEFINE u == UnitsIn(x)  i == IntPart(x)  r == Parts(x)  t == TwoTo[Pow(x)]
             h == Hidden  o == OneUnits  k == Pow(x)  d == UnitBits - k
             n == u * (h + i) + r
  <1>1. /\ u \in Nat \ {0} /\ i \in 0 .. h - 1 /\ r \in 0 .. u - 1 /\ t \in Nat \ {0}
        /\ u * t = o /\ Mag(x) = i * o + r * t
    BY Pieces
  <1>2. /\ h \in Nat /\ h >= 2 /\ h = 2 * TwoTo[MantBits - 1] /\ TwoTo[MantBits - 1] \in Nat
        /\ MantBits \in Nat \ {0} /\ Infinity \in Nat /\ o \in Nat /\ UnitBits \in Nat \ {0}
    <2>1. MantBits \in Nat \ {0} /\ h \in Nat /\ h >= 2 /\ Infinity \in Nat
          /\ h = 2 * TwoTo[MantBits - 1]
      BY Format
    <2>2. TwoTo[MantBits - 1] \in Nat
      BY <2>1, TwoToTwice
    <2>3. QED BY <2>1, <2>2, UnitsAre
  <1>3. k \in Nat /\ d \in Nat \ {0} /\ u = TwoTo[d]
    <2>1. k \in 0 .. ExpMax /\ ExpMax \in Nat
      <3>1. x \in Patterns
        BY ValueIs
      <3>2. QED BY <3>1, SigPow, Format
    <2>2. QED BY <1>2, <2>1 DEF UnitsIn
  <1>4. n \in Nat \ {0} /\ BitLength(n) = MantBits + 1 + d
    <2>1. TwoTo[MantBits + d] = h * u /\ TwoTo[(MantBits + 1) + d] = (2 * h) * u
      <3> HIDE DEF d, u
      <3>1. TwoTo[MantBits + d] = TwoTo[MantBits] * TwoTo[d]
            /\ TwoTo[(MantBits + 1) + d] = TwoTo[MantBits + 1] * TwoTo[d]
        <4>1. MantBits \in Nat /\ MantBits + 1 \in Nat /\ d \in Nat
          BY <1>2, <1>3
        <4>2. QED BY <4>1, TwoToAdds
      <3>2. TwoTo[MantBits + 1] = 2 * TwoTo[MantBits]
        BY <1>2, TwoToIs
      <3>3. QED BY <1>3, <3>1, <3>2 DEF Hidden
    <2> DEFINE l == (MantBits + 1) + d
    <2>2. l \in Nat \ {0} /\ l - 1 = MantBits + d
      BY <1>2, <1>3
    <2> HIDE DEF u, i, r, h, d
    <2>3. h * u <= n /\ n < (2 * h) * u /\ n \in Nat
      <3>1. u * (h + i) >= u * h /\ u * h = h * u
        BY <1>1, <1>2, Z3T(60)
      <3>2. u * (h + i) <= u * (2 * h - 1) /\ u * (2 * h - 1) = (2 * h) * u - u
        BY <1>1, <1>2, Z3T(60)
      <3>3. u * h \in Nat /\ (2 * h) * u \in Nat /\ u * (h + i) \in Nat
        BY <1>1, <1>2, Z3T(60)
      <3>4. QED BY <1>1, <3>1, <3>2, <3>3
    <2>4. h * u \in Nat \ {0}
      BY <1>1, <1>2, Z3T(60)
    <2>5. n \in Nat \ {0}
      BY <2>3, <2>4
    <2> HIDE DEF n
    <2>6. TwoTo[l - 1] <= n /\ n < TwoTo[l]
      BY <2>1, <2>2, <2>3
    <2> HIDE DEF l
    <2>7. BitLength(n) = l
      BY <2>2, <2>5, <2>6, LengthBits
    <2>8. QED BY <2>5, <2>7 DEF l
  <1>5. Mag(x) + h * o = n * t
    <2> HIDE DEF u, i, r, h, t, o
    <2>1. (u * (h + i) + r) * t = (h + i) * (u * t) + r * t
      BY <1>1, <1>2, Z3T(60)
    <2>2. (h + i) * o = h * o + i * o /\ h * o \in Nat /\ i * o \in Nat /\ r * t \in Nat
      BY <1>1, <1>2, Z3T(60)
    <2>3. QED BY <1>1, <2>1, <2>2
  <1>6. ToNearest(n * t) = Nearest(n, k)
    <2> HIDE DEF n, k
    <2>1. QED BY <1>3, <1>4, NearestUp DEF k
  <1> DEFINE q == h + i
  <1>7. LastPlace(n, k) = UnitBits /\ UnitBits > k /\ UnitBits - k = d
    <2> HIDE DEF n, k
    <2>1. LastPlace(n, k) = IF k + BitLength(n) - (MantBits + 1) > 0
                            THEN k + BitLength(n) - (MantBits + 1) ELSE 0
      BY DEF LastPlace, Greater
    <2>2. QED BY <1>2, <1>3, <1>4, <2>1
  <1>8. Nearest(n, k) = Lesser(UnitBits * h + q + Carry(q, r, u), Infinity)
    <2>1. q \in Nat /\ r \in Nat /\ r < u /\ n = u * q + r
      BY <1>1, <1>2
    <2>2. n \in Nat \ {0} /\ k \in Int /\ u = TwoTo[UnitBits - k]
      BY <1>3, <1>4, <1>7
    <2> HIDE DEF n, k, q, r, u, h, d
    <2>3. UnitBits > k => \A qq \in Nat, rr \in Nat :
            n = TwoTo[UnitBits - k] * qq + rr /\ rr < TwoTo[UnitBits - k] =>
              Nearest(n, k) = Lesser(UnitBits * Hidden + qq + Carry(qq, rr, TwoTo[UnitBits - k]), Infinity)
      BY <1>7, <2>2, NearestIs, ZenonT(40)
    <2>4. Nearest(n, k) = Lesser(UnitBits * Hidden + q + Carry(q, r, TwoTo[UnitBits - k]), Infinity)
      BY <1>7, <2>1, <2>2, <2>3
    <2>5. QED BY <2>2, <2>4 DEF h
  <1> DEFINE c == Carry(i, r, u)
  <1>9. Carry(q, r, u) = c /\ c \in 0 .. 1
    <2>1. q % 2 = i % 2
      <3> DEFINE e == TwoTo[MantBits - 1]
      <3> HIDE DEF i, e, h
      <3>1. q = 2 * e + i /\ e \in Nat /\ i \in Nat
        BY <1>1, <1>2 DEF e
      <3> HIDE DEF q
      <3>2. QED BY <3>1
    <2>2. i \in Nat /\ r \in Nat /\ u \in Nat /\ q \in Nat
      BY <1>1, <1>2
    <2> HIDE DEF i, q, r, u
    <2>3. QED BY <2>1, <2>2, CarryIs DEF Carry
  <1>10. i + c \in 0 .. h /\ Even(x) = i + c
    <2> HIDE DEF c
    <2>1. QED BY <1>1, <1>2, <1>9 DEF Even, c
  <1>11. toint + Even(x) \in 0 .. Infinity - 1 /\ (UnitBits * h + h) + Even(x) = toint + Even(x)
    BY <1>10, ShiftedFloat
  <1>12. UnitBits * h + q + c = toint + Even(x)
    <2> HIDE DEF i, c, h
    <2>1. UnitBits * h \in Nat
      BY <1>2, Z3T(60)
    <2>2. UnitBits * h + (h + i) + c = (UnitBits * h + h) + (i + c)
      BY <1>1, <1>2, <1>9, <2>1
    <2>3. QED BY <1>10, <1>11, <2>2
  <1> DEFINE w == toint + Even(x)
  <1>13. Lesser(w, Infinity) = w
    <2> HIDE DEF w
    <2>1. w \in 0 .. Infinity - 1
      BY <1>11 DEF w
    <2>2. QED BY <1>2, <2>1 DEF Lesser
  <1>14. ToNearest(Mag(x) + h * o) = w
    <2> HIDE DEF n, t, q, c, h, o, k
    <2>1. QED BY <1>5, <1>6, <1>8, <1>9, <1>12, <1>13
  <1>15. QED BY <1>10, <1>14 DEF h, o, w

\* Adding 1/EPS and taking it away rounds to the nearest even integer.
LEMMA NeighbourIs ==
  ASSUME NEW x, Finite(x), Pow(x) < UnitBits
  PROVE  /\ Even(x) \in 0 .. Hidden /\ Even(x) * OneUnits \in Nat
         /\ Finite(Neighbour(x))
         /\ V(Neighbour(x)) = IF SignBit(x) = 1 THEN -(Even(x) * OneUnits) ELSE Even(x) * OneUnits
         /\ Even(x) # 0 => SignBit(Neighbour(x)) = SignBit(x) /\ V(Neighbour(x)) # 0
         /\ Even(x) = 0 => SignBit(Neighbour(x)) = 0
  <1> DEFINE h == Hidden  o == OneUnits  j == Even(x)  s == SignBit(x)  g == Mag(x)
             t == WithSign(s, toint)
             a == toint + j
             z == WithSign(s, a)
             v == j * o
  <1>1. j \in 0 .. h /\ ToNearest(g + h * o) = a
    BY ShiftRounds
  <1>2. a \in 0 .. Infinity - 1 /\ Mag(a) = (h + j) * o
    BY <1>1, ShiftedFloat
  <1>3. s \in 0 .. 1 /\ g \in Nat /\ V(x) = (IF s = 1 THEN -g ELSE g) /\ x \in Patterns
    BY ValueIs
  <1>4. h \in Nat /\ h >= 2 /\ o \in Nat \ {0} /\ Infinity \in Nat /\ SignWeight = Infinity + h
    BY Format, UnitsAre
  <1>5. Finite(toint) /\ V(toint) = h * o /\ SignBit(toint) = 0 /\ AbsBits(toint) = toint
    BY FixedFloats
  <1>6. toint \in 0 .. Infinity - 1 /\ Mag(toint) = h * o
    BY <1>5, ValueIs
  <1> HIDE DEF j, a
  <1>7. \A b \in 0 .. Infinity - 1 :
          Finite(WithSign(s, b)) /\ SignBit(WithSign(s, b)) = s
          /\ V(WithSign(s, b)) = IF s = 1 THEN -Mag(b) ELSE Mag(b)
    <2> SUFFICES ASSUME NEW b \in 0 .. Infinity - 1
                 PROVE  Finite(WithSign(s, b)) /\ SignBit(WithSign(s, b)) = s
                        /\ V(WithSign(s, b)) = IF s = 1 THEN -Mag(b) ELSE Mag(b)
      OBVIOUS
    <2> DEFINE y == WithSign(s, b)
    <2>1. b \in 0 .. SignWeight - 1 /\ b < Infinity
      BY <1>4
    <2>2. y \in Patterns /\ SignBit(y) = s /\ AbsBits(y) = b /\ b \in Patterns /\ AbsBits(b) = b
      <3> HIDE DEF s
      <3>1. QED BY <1>3, <2>1, SignedPattern
    <2> HIDE DEF y
    <2>3. Mag(y) = Mag(b)
      BY <2>2, MagIs
    <2>4. QED BY <2>1, <2>2, <2>3 DEF Finite, V, y
  <1>8. Finite(t) /\ SignBit(t) = s /\ V(t) = IF s = 1 THEN -(h * o) ELSE h * o
    BY <1>6, <1>7
  <1>9. Finite(z) /\ SignBit(z) = s /\ V(z) = IF s = 1 THEN -((h + j) * o) ELSE (h + j) * o
    BY <1>2, <1>7
  <1>10. h * o \in Nat \ {0} /\ v \in Nat /\ (h + j) * o = h * o + v /\ (j # 0 => v # 0)
         /\ (j = 0 => v = 0)
    <2> HIDE DEF h, o
    <2>1. h * o \in Nat \ {0} /\ v \in Nat /\ (h + j) * o = h * o + v
      BY <1>1, <1>4, Z3T(60)
    <2>2. j >= 1 => j * o >= o
      BY <1>1, <1>4, Z3T(60)
    <2>3. j = 0 => j * o = 0
      BY <1>4
    <2>4. QED BY <1>1, <1>4, <2>1, <2>2, <2>3
  <1>11. Plus(x, t) = z
    <2> DEFINE H == h * o  n == V(x) + V(t)
    <2>1. n = (IF s = 1 THEN -(g + H) ELSE g + H) /\ H \in Nat \ {0}
      <3> HIDE DEF H, s, g
      <3>1. V(t) = (IF s = 1 THEN -H ELSE H) /\ H \in Nat \ {0}
        BY <1>8, <1>10 DEF H, s
      <3>2. V(x) = (IF s = 1 THEN -g ELSE g) /\ g \in Nat
        BY <1>3 DEF s, g
      <3> HIDE DEF t
      <3>3. QED BY <3>1, <3>2
    <2>2. n # 0 => Plus(x, t) = FloatOf(n)
      <3> HIDE DEF t
      <3>1. QED BY <1>8, SumIs
    <2>3. a = WithSign(0, a)
      <3>1. a \in 0 .. SignWeight - 1 /\ 0 \in 0 .. 1 /\ 0 # 1
        BY <1>2, <1>4
      <3>2. QED BY <3>1, SignedPattern
    <2> HIDE DEF n, g, s, H
    <2>4. CASE s = 1
      <3>1. n < 0 /\ -n = g + H
        BY <1>3, <2>1, <2>4 DEF g
      <3>2. ToNearest(-n) = a
        BY <1>1, <3>1 DEF H
      <3>3. FloatOf(n) = WithSign(1, a)
        BY <3>1, <3>2 DEF FloatOf
      <3>4. QED BY <2>2, <2>4, <3>1, <3>3
    <2>5. CASE s # 1
      <3>1. n > 0 /\ n = g + H /\ n \in Nat /\ s = 0
        BY <1>3, <2>1, <2>5 DEF g, s
      <3>2. ToNearest(n) = a /\ ~(n < 0) /\ n # 0
        BY <1>1, <3>1 DEF H
      <3>3. FloatOf(n) = a
        BY <3>2 DEF FloatOf
      <3>4. QED BY <2>2, <2>3, <3>1, <3>2, <3>3
    <2>6. QED BY <2>4, <2>5
  <1>12. Neighbour(x) = Difference(z, t)
    BY <1>11 DEF Neighbour
  <1> DEFINE d == Difference(z, t)
             m == V(z) - V(t)
  <1>13. m = IF s = 1 THEN -v ELSE v
    <2> DEFINE H == h * o  G == (h + j) * o
    <2> HIDE DEF v, z, t, H, G, s
    <2>1. V(t) = (IF s = 1 THEN -H ELSE H) /\ V(z) = (IF s = 1 THEN -G ELSE G)
          /\ H \in Nat /\ v \in Nat /\ G = H + v
      BY <1>8, <1>9, <1>10 DEF H, G, v
    <2>2. QED BY <2>1
  <1>14. Exact(IF m < 0 THEN -m ELSE m)
    <2>1. Exact(v)
      <3>1. j \in 0 .. 2 * Hidden
        BY <1>1, <1>4
      <3>2. QED BY <3>1, UnitsAre
    <2> HIDE DEF v, m
    <2>2. (IF m < 0 THEN -m ELSE m) = v
      BY <1>10, <1>13 DEF v
    <2>3. QED BY <2>1, <2>2
  <1> HIDE DEF z, t
  <1>15. /\ Finite(d) /\ V(d) = m
         /\ m # 0 => SignBit(d) = IF m < 0 THEN 1 ELSE 0
         /\ m = 0 => SignBit(d) = IF SignBit(z) = 1 /\ SignBit(t) = 0 THEN 1 ELSE 0
    <2> DEFINE mm == m
    <2> HIDE DEF mm
    <2>1. mm = V(z) - V(t) /\ Exact(IF mm < 0 THEN -mm ELSE mm)
      BY <1>14 DEF mm
    <2>2. /\ Finite(d) /\ V(d) = mm
          /\ mm # 0 => SignBit(d) = IF mm < 0 THEN 1 ELSE 0
          /\ mm = 0 => SignBit(d) = IF SignBit(z) = 1 /\ SignBit(t) = 0 THEN 1 ELSE 0
      BY <1>8, <1>9, <2>1, DifferenceExact
    <2>3. QED BY <2>2 DEF mm
  <1> HIDE DEF d, m, v, s
  <1>16. j # 0 => m # 0 /\ (m < 0 <=> s = 1)
    BY <1>10, <1>13 DEF v
  <1>17. j = 0 => m = 0
    BY <1>10, <1>13 DEF v
  <1>18. SignBit(z) = s /\ SignBit(t) = s /\ s \in 0 .. 1
    BY <1>3, <1>8, <1>9 DEF s
  <1>19. j # 0 => SignBit(d) = s
    BY <1>15, <1>16, <1>18
  <1>20. j = 0 => SignBit(d) = 0
    BY <1>15, <1>17, <1>18
  <1>21. Neighbour(x) = d
    BY <1>12 DEF d
  <1>22. QED BY <1>1, <1>10, <1>13, <1>15, <1>16, <1>19, <1>20, <1>21 DEF j, v, s, h, o

-----------------------------------------------------------------------------
(* Rounding to an integer.                                                 *)

\* From 1/EPS on every float is an integer.
LEMMA BelowLimit ==
  ASSUME NEW x \in Patterns
  PROVE  /\ Exponent(x) < Bias + MantBits => Finite(x) /\ Pow(x) < UnitBits
         /\ Exponent(x) >= Bias + MantBits => Whole(x)
  <1>1. /\ Bias \in Nat /\ Bias >= 3 * MantBits + 6 /\ ExpMax = 2 * Bias + 1
        /\ MantBits \in Nat \ {0} /\ UnitBits = Bias - 1 + MantBits /\ Infinity \in Nat
    BY Format, UnitsAre
  <1>2. Exponent(x) \in 0 .. ExpMax /\ AbsBits(x) \in 0 .. SignWeight - 1 /\ SignWeight \in Nat
    BY MagnitudeParts, PatternParts, Format
  <1>3. AbsBits(x) >= Infinity <=> Exponent(x) = ExpMax
    BY Kinds
  <1>4. /\ Exponent(x) = 0 => Pow(x) = 0
        /\ Exponent(x) # 0 => Pow(x) = Exponent(x) - 1
    BY SigPow
  <1>5. Exponent(x) < Bias + MantBits => Finite(x)
    <2>1. Exponent(x) < Bias + MantBits => AbsBits(x) < Infinity
      BY <1>1, <1>2, <1>3
    <2>2. QED BY <2>1 DEF Finite
  <1>6. Exponent(x) < Bias + MantBits => Pow(x) < UnitBits
    BY <1>1, <1>2, <1>4
  <1>7. Exponent(x) >= Bias + MantBits => Pow(x) >= UnitBits
    BY <1>1, <1>2, <1>4
  <1>8. QED BY <1>5, <1>6, <1>7 DEF Whole

\* What follows is about the rest g = Parts(x) * 2 ^ Pow(x), in parts of OneUnits.
Rest(x) == Parts(x) * TwoTo[Pow(x)]

\* The integer and the rest of a float, in smallest subnormals.
LEMMA Parting ==
  ASSUME NEW x, Finite(x), Pow(x) < UnitBits
  PROVE  /\ IntPart(x) \in 0 .. Hidden - 1 /\ IntPart(x) * OneUnits \in Nat
         /\ (IntPart(x) + 1) * OneUnits = IntPart(x) * OneUnits + OneUnits
         /\ Rest(x) \in 0 .. OneUnits - 1
         /\ Mag(x) = IntPart(x) * OneUnits + Rest(x)
         /\ Whole(x) <=> Rest(x) = 0
         /\ 2 * Parts(x) >= UnitsIn(x) <=> 2 * Rest(x) >= OneUnits
         /\ 2 * Parts(x) > UnitsIn(x) <=> 2 * Rest(x) > OneUnits
         /\ Even(x) = IntPart(x) \/ Even(x) = IntPart(x) + 1
         /\ Even(x) = IntPart(x) => 2 * Rest(x) <= OneUnits
         /\ Even(x) = IntPart(x) + 1 => 2 * Rest(x) >= OneUnits
         /\ Even(x) = IntPart(x) + (IF \/ 2 * Parts(x) > UnitsIn(x)
                                       \/ 2 * Parts(x) = UnitsIn(x) /\ IntPart(x) % 2 = 1
                                    THEN 1 ELSE 0)
  <1> DEFINE u == UnitsIn(x)  i == IntPart(x)  r == Parts(x)  t == TwoTo[Pow(x)]
             o == OneUnits  g == r * t  c == Carry(i, r, u)
  <1>1. /\ u \in Nat \ {0} /\ i \in 0 .. Hidden - 1 /\ r \in 0 .. u - 1 /\ t \in Nat \ {0}
        /\ u * t = o /\ Mag(x) = i * o + g
        /\ g \in 0 .. o - 1 /\ (g = 0 <=> r = 0)
        /\ (Whole(x) <=> r = 0)
    BY Pieces
  <1>2. Hidden \in Nat /\ o \in Nat \ {0}
    BY Format, UnitsAre
  <1>3. Even(x) = i + c
    BY DEF Even
  <1>4. i \in Nat /\ r \in Nat /\ u \in Nat
    BY <1>1, <1>2
  <1>5. /\ c \in 0 .. 1 /\ (c = 1 => 2 * r >= u) /\ (c = 0 => 2 * r <= u)
        /\ c = IF 2 * r > u \/ (2 * r = u /\ i % 2 = 1) THEN 1 ELSE 0
    <2> HIDE DEF i, r, u
    <2>1. QED BY <1>4, CarryIs
  <1> HIDE DEF u, i, r, t, o, c
  <1>6. i * o \in Nat /\ (i + 1) * o = i * o + o
    BY <1>2, <1>4, Z3T(60)
  <1>7. (2 * r >= u <=> 2 * g >= o) /\ (2 * r > u <=> 2 * g > o)
    <2> DEFINE a == 2 * r
    <2>1. a \in Nat
      BY <1>4
    <2>2. 2 * g = a * t
      BY <1>1, <1>4, Z3T(60)
    <2> HIDE DEF a
    <2>3. a > u => a * t > u * t
      BY <1>1, <2>1, Z3T(60)
    <2>4. a < u => a * t < u * t
      BY <1>1, <2>1, Z3T(60)
    <2>5. a * t \in Nat
      BY <1>1, <2>1, Z3T(60)
    <2>6. (a >= u <=> a * t >= u * t) /\ (a > u <=> a * t > u * t)
      BY <1>1, <1>2, <2>1, <2>3, <2>4, <2>5
    <2>7. QED BY <1>1, <2>2, <2>6 DEF a
  <1>8. c = 0 \/ c = 1
    BY <1>5
  <1>9. g \in Nat
    BY <1>1, <1>2
  <1> HIDE DEF g
  <1>10. (c = 0 => 2 * g <= o) /\ (c = 1 => 2 * g >= o)
    BY <1>1, <1>2, <1>4, <1>5, <1>7, <1>9
  <1>11. (Even(x) = i => c = 0) /\ (Even(x) = i + 1 => c = 1) /\ (Even(x) = i \/ Even(x) = i + 1)
    BY <1>3, <1>4, <1>8
  <1>12. Rest(x) = g
    BY DEF Rest, g, r, t
  <1>13. QED BY <1>1, <1>3, <1>5, <1>6, <1>7, <1>10, <1>11, <1>12 DEF u, i, r, o

\* A float with the sign of x and the value that f rounds to is what C says.
LEMMA IsIntegral ==
  ASSUME NEW x, Finite(x), Pow(x) < UnitBits, NEW f, NEW z, Finite(z), SignBit(z) = SignBit(x),
         NEW j, j = IF Rest(x) = 0 THEN IntPart(x)
                    ELSE IntPart(x) + (IF RoundsUp(f, x) THEN 1 ELSE 0),
         V(z) = IF SignBit(x) = 1 THEN -(j * OneUnits) ELSE j * OneUnits
  PROVE  z = Integral(f, x)
  <1> DEFINE s == SignBit(x)  i == IntPart(x)  o == OneUnits  g == Rest(x)
  <1>1. /\ i \in 0 .. Hidden - 1 /\ i * o \in Nat /\ g \in 0 .. o - 1 /\ Mag(x) = i * o + g
        /\ (Whole(x) <=> g = 0)
    BY Parting
  <1>2. s \in 0 .. 1 /\ V(x) = (IF s = 1 THEN -Mag(x) ELSE Mag(x))
    BY ValueIs
  <1>3. Hidden \in Nat
    BY Format
  <1>4. CASE g = 0
    <2>1. Integral(f, x) = x
      BY <1>1, <1>4 DEF Integral
    <2>2. Mag(x) = j * o
      BY <1>1, <1>4
    <2>3. V(x) = V(z)
      BY <1>2, <2>2
    <2>4. QED BY <2>1, <2>3, SameValue
  <1>5. CASE g # 0
    <2>1. Integral(f, x) = IntegerFloat(s, j)
      BY <1>1, <1>5 DEF Integral, IntegerFloat
    <2>2. j \in 0 .. Hidden
      <3>1. j = i \/ j = i + 1
        BY <1>1, <1>3, <1>5
      <3>2. QED BY <1>1, <1>3, <3>1
    <2> DEFINE y == IntegerFloat(s, j)
    <2>3. Finite(y) /\ SignBit(y) = s /\ V(y) = IF s = 1 THEN -(j * o) ELSE j * o
      BY <1>2, <2>2, IntegerFloatIs
    <2> HIDE DEF y
    <2>4. y = z
      BY <2>3, SameValue
    <2>5. QED BY <2>1, <2>4 DEF y
  <1>6. QED BY <1>4, <1>5

\* rint rounds to the nearest integer, to the even one of two.
LEMMA RintIs ==
  ASSUME NEW x \in Patterns
  PROVE  rint(x) = Integral("rint", x)
  <1>1. Exponent(x) \in 0 .. ExpMax /\ ExpMax \in Nat /\ Bias \in Nat /\ MantBits \in Nat
    BY MagnitudeParts, Format
  <1>2. CASE Exponent(x) >= Bias + MantBits
    <2>1. Whole(x)
      BY <1>2, BelowLimit
    <2>2. QED BY <1>2, <2>1 DEF rint, Integral
  <1>3. CASE ~(Exponent(x) >= Bias + MantBits)
    <2>1. Finite(x) /\ Pow(x) < UnitBits
      BY <1>1, <1>3, BelowLimit
    <2> DEFINE z == Neighbour(x)  j == Even(x)  s == SignBit(x)  o == OneUnits
               y == IF IsZero(z) THEN WithSign(s, Zero) ELSE z
    <2>2. /\ j \in 0 .. Hidden /\ j * o \in Nat /\ Finite(z)
          /\ V(z) = (IF s = 1 THEN -(j * o) ELSE j * o)
          /\ (j # 0 => SignBit(z) = s /\ V(z) # 0)
      BY <2>1, NeighbourIs
    <2>3. rint(x) = y
      BY <1>3 DEF rint
    <2>4. IsZero(z) <=> V(z) = 0
      <3> HIDE DEF z
      <3>1. V(z) = 0 <=> AbsBits(z) = 0
        BY <2>2, ValueIs
      <3>2. QED BY <3>1 DEF IsZero
    <2>5. s \in 0 .. 1 /\ j \in Nat
      BY <2>1, <2>2, ValueIs, Format
    <2>6. Finite(y) /\ SignBit(y) = s /\ V(y) = (IF s = 1 THEN -(j * o) ELSE j * o)
      <3>1. CASE j = 0
        <4> DEFINE w == WithSign(s, Zero)
        <4>1. 0 * o = 0 /\ 0 \in 0 .. Hidden
          BY UnitsAre, Format
        <4>2. Nearest(0, UnitBits) = 0
          BY DEF Nearest
        <4>3. w = IntegerFloat(s, 0)
          BY <4>2 DEF IntegerFloat, Zero
        <4>4. Finite(w) /\ SignBit(w) = s /\ V(w) = IF s = 1 THEN -(0 * o) ELSE 0 * o
          <5> HIDE DEF w
          <5>1. QED BY <2>5, <4>1, <4>3, IntegerFloatIs
        <4>5. V(z) = 0
          <5> DEFINE v == V(z)  c == j * o
          <5>1. v = (IF s = 1 THEN -c ELSE c) /\ c \in Nat /\ c <= 0
            BY <2>2, <3>1, <4>1
          <5> HIDE DEF v, c
          <5>2. v = 0
            BY <5>1
          <5>3. QED BY <5>2 DEF v
        <4>6. y = w
          BY <2>4, <4>5
        <4>7. QED BY <3>1, <4>4, <4>6
      <3>2. CASE j # 0
        BY <2>2, <2>4, <3>2
      <3>3. QED BY <3>1, <3>2
    <2>7. j = IF Rest(x) = 0 THEN IntPart(x)
              ELSE IntPart(x) + (IF RoundsUp("rint", x) THEN 1 ELSE 0)
      <3> DEFINE i == IntPart(x)  g == Rest(x)
                 b == \/ 2 * Parts(x) > UnitsIn(x)
                      \/ 2 * Parts(x) = UnitsIn(x) /\ i % 2 = 1
      <3>1. /\ i \in 0 .. Hidden - 1 /\ g \in 0 .. o - 1 /\ j = i + (IF b THEN 1 ELSE 0)
            /\ (j = i + 1 => 2 * g >= o)
        BY <2>1, Parting
      <3>2. RoundsUp("rint", x) <=> b
        BY DEF RoundsUp
      <3>3. g = 0 => j = i
        <4> HIDE DEF g, i, j, b, o
        <4>1. o \in Nat \ {0}
          BY UnitsAre DEF o
        <4>2. i \in Nat
          BY <3>1, Format
        <4>3. QED BY <3>1, <4>1, <4>2
      <3> HIDE DEF b, g, i, j
      <3>4. QED BY <3>1, <3>2, <3>3 DEF g, i
    <2>8. y = Integral("rint", x)
      <3> HIDE DEF y, j
      <3>1. QED BY <2>1, <2>6, <2>7, IsIntegral
    <2>9. QED BY <2>3, <2>8
  <1>4. QED BY <1>2, <1>3

\* Few bits and no more than one make a float.
LEMMA ExactBelow ==
  ASSUME NEW j \in 0 .. 2 * Hidden, NEW d \in Nat, NEW n, n = j * TwoTo[d], n <= OneUnits
  PROVE  n \in Nat /\ Exact(n)
  <1> DEFINE h == Hidden  o == OneUnits  e == TwoTo[ExpMax - 1]  t == TwoTo[d]
  <1>1. h \in Nat /\ h >= 2 /\ o \in Nat \ {0} /\ ExpMax \in Nat /\ UnitBits \in Nat
        /\ UnitBits < ExpMax - 1
    BY Format, UnitsAre
  <1>2. ExpMax - 1 \in Nat
    BY <1>1
  <1>3. o <= e /\ e \in Nat /\ t \in Nat
    <2>1. UnitBits <= ExpMax - 1
      BY <1>1
    <2>2. TwoTo[UnitBits] <= TwoTo[ExpMax - 1]
      BY <1>1, <1>2, <2>1, TwoToGrows
    <2>3. QED BY <1>2, <2>2, TwoToIs DEF OneUnits
  <1> HIDE DEF h, o, e, t
  <1>4. o < h * e
    <2>1. h * e >= 2 * e
      BY <1>1, <1>3, Z3T(60)
    <2>2. h * e \in Nat
      BY <1>1, <1>3, Z3T(60)
    <2>3. QED BY <1>1, <1>3, <2>1, <2>2
  <1>5. n \in Nat
    <2>1. j \in Nat
      BY <1>1 DEF h
    <2>2. j * t \in Nat
      BY <1>3, <2>1, Z3T(60)
    <2>3. QED BY <2>2 DEF t
  <1>6. n < h * e
    <2> DEFINE p == h * e
    <2>1. p \in Nat
      BY <1>1, <1>3, Z3T(60)
    <2>2. n <= o /\ o < p
      BY <1>4 DEF o
    <2> HIDE DEF p
    <2>3. n < p
      BY <1>1, <1>5, <2>1, <2>2
    <2>4. QED BY <2>3 DEF p
  <1>7. QED BY <1>6, IsExact DEF h, e

\* Integers as multiples of OneUnits.
LEMMA SignedUnits ==
  ASSUME NEW k \in -(2 * Hidden) .. 2 * Hidden
  PROVE  /\ k * OneUnits \in Int
         /\ k * OneUnits < 0 <=> k < 0
         /\ k * OneUnits = 0 <=> k = 0
         /\ (-k) * OneUnits = -(k * OneUnits)
         /\ (k + 1) * OneUnits = k * OneUnits + OneUnits
         /\ (k - 1) * OneUnits = k * OneUnits - OneUnits
         /\ Exact(IF k * OneUnits < 0 THEN -(k * OneUnits) ELSE k * OneUnits)
  <1> DEFINE o == OneUnits  h == Hidden
  <1>1. o \in Nat \ {0} /\ h \in Nat
    BY UnitsAre, Format
  <1>2. k \in Int /\ k >= -(2 * h) /\ k <= 2 * h
    BY <1>1
  <1> HIDE DEF o, h
  <1>3. k * o \in Int /\ (-k) * o = -(k * o) /\ (k + 1) * o = k * o + o /\ (k - 1) * o = k * o - o
    BY <1>1, <1>2, Z3T(60)
  <1>4. (k < 0 => k * o < 0) /\ (k > 0 => k * o > 0) /\ (k = 0 => k * o = 0)
    <2>1. k < 0 => k * o < 0
      BY <1>1, <1>2, Z3T(60)
    <2>2. k > 0 => k * o > 0
      BY <1>1, <1>2, Z3T(60)
    <2>3. 0 * o = 0
      BY <1>1
    <2>4. QED BY <2>1, <2>2, <2>3
  <1>5. (k * o < 0 <=> k < 0) /\ (k * o = 0 <=> k = 0)
    <2> DEFINE p == k * o
    <2> HIDE DEF p
    <2>1. p \in Int /\ (k < 0 => p < 0) /\ (k > 0 => p > 0) /\ (k = 0 => p = 0)
      BY <1>3, <1>4 DEF p
    <2>2. (p < 0 <=> k < 0) /\ (p = 0 <=> k = 0)
      BY <1>2, <2>1
    <2>3. QED BY <2>2 DEF p
  <1>6. Exact(IF k * o < 0 THEN -(k * o) ELSE k * o)
    <2> DEFINE a == IF k < 0 THEN -k ELSE k
    <2>1. a \in 0 .. 2 * h
      BY <1>1, <1>2
    <2>2. Exact(a * o)
      <3> HIDE DEF a
      <3>1. QED BY <2>1, UnitsAre DEF o, h
    <2>3. a * o = IF k * o < 0 THEN -(k * o) ELSE k * o
      <3>1. CASE k < 0
        <4>1. a = -k /\ k * o < 0
          BY <1>5, <3>1
        <4>2. QED BY <1>3, <4>1
      <3>2. CASE ~(k < 0)
        <4>1. a = k /\ ~(k * o < 0)
          BY <1>5, <3>2
        <4>2. QED BY <4>1
      <3>3. QED BY <3>1, <3>2
    <2>4. QED BY <2>2, <2>3
  <1>7. QED BY <1>3, <1>5, <1>6 DEF o

\* Exponents tell a float's integer part from one, and its magnitude from a half.
LEMMA AgainstOne ==
  ASSUME NEW x, Finite(x), Pow(x) < UnitBits
  PROVE  /\ Exponent(x) >= Bias => IntPart(x) >= 1
         /\ Exponent(x) < Bias => IntPart(x) = 0 /\ Rest(x) = Mag(x)
         /\ Exponent(x) >= Bias - 1 => 2 * Mag(x) >= OneUnits
         /\ Exponent(x) < Bias - 1 => 2 * Mag(x) < OneUnits
  <1> DEFINE o == OneUnits  i == IntPart(x)  g == Rest(x)  m == Mag(x)  a == AbsBits(x)
             e == Exponent(x)
  <1>1. Bias \in Nat /\ Bias >= 9 /\ ExpMax = 2 * Bias + 1 /\ MantBits \in Nat \ {0} /\ Hidden \in Nat
    <2>1. Bias \in Nat /\ ExpMax = 2 * Bias + 1 /\ MantBits \in Nat \ {0} /\ Bias >= 3 * MantBits + 6
          /\ Hidden \in Nat
      BY Format
    <2>2. QED BY <2>1
  <1>2. i \in 0 .. Hidden - 1 /\ i * o \in Nat /\ (i + 1) * o = i * o + o /\ g \in 0 .. o - 1
        /\ m = i * o + g
    BY Parting
  <1>3. x \in Patterns /\ m \in Nat /\ a \in 0 .. Infinity - 1
    BY ValueIs
  <1>4. e \in 0 .. ExpMax
    BY <1>3, MagnitudeParts
  <1>5. o \in Nat \ {0}
    BY UnitsAre
  <1>6. /\ One \in Patterns /\ AbsBits(One) = One /\ Mag(One) = o
        /\ Half \in Patterns /\ AbsBits(Half) = Half /\ 2 * Mag(Half) = o
        /\ Mag(One) \in Nat /\ Mag(Half) \in Nat
    <2>1. Finite(One) /\ V(One) = o /\ SignBit(One) = 0 /\ AbsBits(One) = One
          /\ Finite(Half) /\ 2 * V(Half) = o /\ SignBit(Half) = 0 /\ AbsBits(Half) = Half
      BY FixedFloats
    <2>2. \A y : Finite(y) /\ SignBit(y) = 0 => V(y) = Mag(y) /\ y \in Patterns /\ Mag(y) \in Nat
      <3> SUFFICES ASSUME NEW y, Finite(y), SignBit(y) = 0
                   PROVE V(y) = Mag(y) /\ y \in Patterns /\ Mag(y) \in Nat
        OBVIOUS
      <3>1. QED BY ValueIs
    <2> HIDE DEF o
    <2>3. QED BY <2>1, <2>2
  <1>7. (e >= Bias <=> a >= One) /\ (e >= Bias - 1 <=> a >= Half)
    <2>1. Bias \in 0 .. ExpMax /\ Bias - 1 \in 0 .. ExpMax
      BY <1>1
    <2>2. (e >= Bias <=> a >= Hidden * Bias) /\ (e >= Bias - 1 <=> a >= Hidden * (Bias - 1))
      <3> HIDE DEF e, a
      <3>1. QED BY <1>3, <2>1, ExponentBounds DEF e, a
    <2>3. Hidden * Bias = One /\ Hidden * (Bias - 1) = Half
      <3> DEFINE h == Hidden  b == Bias
      <3>1. h \in Nat /\ b \in Nat
        BY <1>1
      <3> HIDE DEF h, b
      <3>2. h * b = b * h /\ h * (b - 1) = (b - 1) * h
        BY <3>1, Z3T(60)
      <3>3. QED BY <3>2 DEF One, Half, h, b
    <2>4. QED BY <2>2, <2>3
  <1>8. \A y \in Patterns : AbsBits(y) = y =>
          /\ a >= y => m >= Mag(y)
          /\ a < y => m < Mag(y)
    <2> SUFFICES ASSUME NEW y \in Patterns, AbsBits(y) = y
                 PROVE  (a >= y => m >= Mag(y)) /\ (a < y => m < Mag(y))
      OBVIOUS
    <2>1. a < y => m < Mag(y)
      BY <1>3, MagGrows
    <2>2. y < a => Mag(y) < m
      BY <1>3, MagGrows
    <2>3. y = a => Mag(y) = m
      BY <1>3, MagIs
    <2>4. Mag(y) \in Nat /\ y \in Int /\ a \in Int
      BY <1>3, MagIs, PatternParts, Format DEF Patterns
    <2> HIDE DEF a, m
    <2>5. QED BY <1>3, <2>1, <2>2, <2>3, <2>4
  <1>9. One \in Int /\ Half \in Int /\ a \in Int
    BY <1>1, <1>3, <1>6, Format DEF Patterns
  <1> HIDE DEF a, e, m, i, g, o
  <1>10. (e >= Bias => m >= o) /\ (e < Bias => m < o)
    <2> DEFINE p == Mag(One)
    <2>1. (a >= One => m >= p) /\ (a < One => m < p) /\ p = o
      BY <1>6, <1>8
    <2>2. QED BY <1>1, <1>4, <1>7, <1>9, <2>1
  <1>11. (e >= Bias - 1 => 2 * m >= o) /\ (e < Bias - 1 => 2 * m < o)
    <2> DEFINE p == Mag(Half)
    <2>1. (a >= Half => m >= p) /\ (a < Half => m < p) /\ 2 * p = o /\ p \in Nat
      BY <1>6, <1>8
    <2> HIDE DEF p
    <2>2. (a >= Half => 2 * m >= o) /\ (a < Half => 2 * m < o)
      BY <1>3, <1>5, <2>1
    <2>3. QED BY <1>1, <1>4, <1>7, <1>9, <2>2
  <1>12. m >= o => i >= 1
    <2>1. i = 0 => i * o = 0
      BY <1>5
    <2>2. QED BY <1>1, <1>2, <1>5, <2>1
  <1>13. m < o => i = 0
    <2>1. i >= 1 => i * o >= o
      BY <1>1, <1>2, <1>5, Z3T(60)
    <2>2. QED BY <1>1, <1>2, <1>5, <2>1
  <1>14. i = 0 => g = m
    <2>1. i = 0 => i * o = 0
      BY <1>5
    <2>2. QED BY <1>2, <1>3, <1>5, <2>1
  <1>15. QED BY <1>10, <1>11, <1>12, <1>13, <1>14 DEF e, m, i, g, o

\* The way from a float to its integer neighbour is exact, and the two of them add up to it.
LEMMA GapIs ==
  ASSUME NEW x, Finite(x), Pow(x) < UnitBits, Exponent(x) >= Bias - 1,
         NEW y, y = Difference(Neighbour(x), x),
         NEW k, k = IF SignBit(x) = 1 THEN -Even(x) ELSE Even(x),
         NEW z \in {Plus(x, y), Plus(y, x)}
  PROVE  /\ Finite(y)
         /\ V(y) = IF SignBit(x) = 1
                   THEN IF Even(x) = IntPart(x) THEN Rest(x) ELSE Rest(x) - OneUnits
                   ELSE IF Even(x) = IntPart(x) THEN -Rest(x) ELSE OneUnits - Rest(x)
         /\ k \in -Hidden .. Hidden
         /\ Finite(z) /\ V(z) = k * OneUnits
         /\ k # 0 => SignBit(z) = IF k < 0 THEN 1 ELSE 0
         /\ SignBit(x) = 0 => SignBit(z) = 0
  <1> DEFINE h == Hidden  o == OneUnits  j == Even(x)  i == IntPart(x)  g == Rest(x)
             s == SignBit(x)  m == Mag(x)  t == TwoTo[Pow(x)]  u == UnitsIn(x)  r == Parts(x)
             c == IF j = i THEN r ELSE u - r
             w == IF s = 1 THEN IF j = i THEN g ELSE g - o ELSE IF j = i THEN -g ELSE o - g
  <1>1. /\ i \in 0 .. h - 1 /\ i * o \in Nat /\ (i + 1) * o = i * o + o /\ g \in 0 .. o - 1
        /\ m = i * o + g /\ (j = i \/ j = i + 1)
        /\ (j = i => 2 * g <= o) /\ (j = i + 1 => 2 * g >= o)
    BY Parting
  <1>2. /\ j \in 0 .. h /\ Finite(Neighbour(x))
        /\ V(Neighbour(x)) = (IF s = 1 THEN -(j * o) ELSE j * o)
        /\ (j = 0 => SignBit(Neighbour(x)) = 0)
    BY NeighbourIs
  <1>3. s \in 0 .. 1 /\ V(x) = (IF s = 1 THEN -m ELSE m) /\ m \in Nat /\ x \in Patterns
    BY ValueIs
  <1>4. h \in Nat /\ h >= 2 /\ o \in Nat \ {0} /\ MantBits \in Nat \ {0} /\ Bias \in Nat
        /\ Bias >= 9 /\ UnitBits \in Nat /\ UnitBits = Bias - 1 + MantBits
    <2>1. h \in Nat /\ h >= 2 /\ o \in Nat \ {0} /\ MantBits \in Nat \ {0} /\ Bias \in Nat
          /\ Bias >= 3 * MantBits + 6 /\ UnitBits \in Nat /\ UnitBits = Bias - 1 + MantBits
      BY Format, UnitsAre
    <2>2. QED BY <2>1
  <1>5. u \in Nat \ {0} /\ r \in 0 .. u - 1 /\ t \in Nat \ {0} /\ u * t = o /\ g = r * t
    BY Pieces DEF Rest
  <1>6. u <= 2 * h
    <2>1. Exponent(x) \in Nat /\ Exponent(x) # 0 /\ Pow(x) = Exponent(x) - 1
      <3>1. Exponent(x) \in 0 .. ExpMax /\ ExpMax \in Nat
        BY <1>3, MagnitudeParts, Format
      <3>2. Exponent(x) \in Nat /\ Exponent(x) # 0
        BY <1>4, <3>1
      <3>3. QED BY <1>3, <3>2, SigPow
    <2>2. UnitBits - Pow(x) <= MantBits + 1 /\ UnitBits - Pow(x) \in Nat /\ MantBits + 1 \in Nat
      BY <1>4, <2>1
    <2>3. TwoTo[UnitBits - Pow(x)] <= TwoTo[MantBits + 1]
      BY <2>2, TwoToGrows
    <2>4. TwoTo[MantBits + 1] = 2 * TwoTo[MantBits]
      BY <1>4, TwoToIs
    <2>5. QED BY <2>3, <2>4 DEF UnitsIn, Hidden
  <1>7. c \in 0 .. 2 * h /\ c * t = (IF j = i THEN g ELSE o - g) /\ c * t <= o
    <2>1. c \in 0 .. 2 * h
      <3> HIDE DEF u, r, h
      <3>1. QED BY <1>4, <1>5, <1>6
    <2>2. (u - r) * t = o - g
      <3> HIDE DEF u, r, h, t, o, g
      <3>1. u \in Nat /\ r \in Nat /\ t \in Nat /\ u * t = o /\ r * t = g
        BY <1>5
      <3>2. (u - r) * t = u * t - r * t
        BY <3>1, Z3T(60)
      <3>3. QED BY <3>1, <3>2
    <2>3. g <= o /\ o - g <= o
      BY <1>1, <1>4
    <2>4. CASE j = i
      BY <1>5, <2>1, <2>3, <2>4
    <2>5. CASE j # i
      BY <2>1, <2>2, <2>3, <2>5
    <2>6. QED BY <2>4, <2>5
  <1>8. c * t \in Nat /\ Exact(c * t)
    <2> DEFINE n == c * t
    <2> HIDE DEF c, n
    <2>1. c \in 0 .. 2 * Hidden /\ n = c * TwoTo[Pow(x)] /\ n <= OneUnits /\ Pow(x) \in Nat
      <3>1. Pow(x) \in Nat
        BY <1>3, SigPow, Format
      <3>2. QED BY <1>7, <3>1 DEF n
    <2>2. QED BY <2>1, ExactBelow DEF n
  <1> HIDE DEF c, u, r, t
  <1>9. (j = i => j * o = i * o) /\ (j = i + 1 => j * o = i * o + o)
    BY <1>1
  <1>10. w = V(Neighbour(x)) - V(x) /\ (IF w < 0 THEN -w ELSE w) = c * t
    <2> DEFINE a == j * o  b == i * o  n == c * t
    <2> HIDE DEF a, b, n
    <2>1. /\ b \in Nat /\ g \in 0 .. o - 1 /\ m = b + g /\ (j = i => a = b) /\ (j = i + 1 => a = b + o)
          /\ n = (IF j = i THEN g ELSE o - g) /\ n \in Nat
          /\ V(Neighbour(x)) = (IF s = 1 THEN -a ELSE a) /\ V(x) = (IF s = 1 THEN -m ELSE m)
      BY <1>1, <1>2, <1>3, <1>7, <1>8, <1>9 DEF a, b, n
    <2> HIDE DEF g, o, j, i, s, m
    <2>2. o \in Nat \ {0} /\ (j = i \/ j = i + 1)
      BY <1>1, <1>4 DEF o
    <2>3. QED BY <2>1, <2>2 DEF n
  <1>11. Finite(y) /\ V(y) = w
    <2> DEFINE n == w
    <2> HIDE DEF n
    <2>1. n = V(Neighbour(x)) - V(x) /\ Exact(IF n < 0 THEN -n ELSE n)
      BY <1>8, <1>10 DEF n
    <2>2. QED BY <1>2, <2>1, DifferenceExact DEF n
  <1>12. k \in -h .. h /\ k \in -(2 * h) .. 2 * h /\ (k < 0 => s = 1) /\ (k # 0 <=> j # 0)
    <2>1. k = IF s = 1 THEN -j ELSE j
      OBVIOUS
    <2> HIDE DEF h, j, s
    <2>2. QED BY <1>2, <1>3, <1>4, <2>1
  <1>13. V(x) + V(y) = k * o /\ V(y) + V(x) = k * o
    <2>1. V(Neighbour(x)) = k * o
      <3>1. (-j) * o = -(j * o)
        <4> HIDE DEF j, o
        <4>1. j \in Nat /\ o \in Nat
          BY <1>2, <1>4
        <4>2. QED BY <4>1, Z3T(60)
      <3>2. CASE s = 1
        BY <1>2, <3>1, <3>2
      <3>3. CASE s # 1
        BY <1>2, <3>3
      <3>4. QED BY <3>2, <3>3
    <2>2. V(Neighbour(x)) \in Int /\ V(x) \in Int
      BY <1>2, ValueIs
    <2> HIDE DEF w, o
    <2>3. QED BY <1>10, <1>11, <2>1, <2>2
  <1>14. /\ Exact(IF k * o < 0 THEN -(k * o) ELSE k * o)
         /\ (k * o < 0 <=> k < 0) /\ (k * o = 0 <=> k = 0)
    BY <1>12, SignedUnits
  <1> DEFINE p == k * o
  <1> HIDE DEF w, p, o, j, i, g, s, m, h
  <1>15. p = V(x) + V(y) /\ p = V(y) + V(x) /\ Exact(IF p < 0 THEN -p ELSE p)
    BY <1>13, <1>14 DEF p
  <1>16. Finite(z) /\ V(z) = p /\ (p # 0 => SignBit(z) = IF p < 0 THEN 1 ELSE 0)
         /\ (p = 0 => SignBit(z) = 0 \/ SignBit(x) = 1)
    <2>1. CASE z = Plus(x, y)
      BY <1>11, <1>15, <2>1, SumExact
    <2>2. CASE z = Plus(y, x)
      BY <1>11, <1>15, <2>2, SumExact
    <2>3. QED BY <2>1, <2>2
  <1>17. (p < 0 <=> k < 0) /\ (p = 0 <=> k = 0)
    BY <1>14 DEF p
  <1>18. SignBit(x) = 0 => SignBit(z) = 0
    <2>1. SignBit(x) = 0 => ~(k < 0)
      BY <1>12 DEF s
    <2>2. QED BY <1>16, <1>17, <2>1
  <1>19. QED BY <1>11, <1>12, <1>16, <1>17, <1>18 DEF w, p, o, j, i, g, s, h

\* A step of one between integers.
LEMMA OneStep ==
  ASSUME NEW k \in -Hidden .. Hidden, NEW z, Finite(z), V(z) = k * OneUnits
  PROVE  /\ Finite(Difference(z, One)) /\ V(Difference(z, One)) = (k - 1) * OneUnits
         /\ k # 1 => SignBit(Difference(z, One)) = IF k - 1 < 0 THEN 1 ELSE 0
         /\ Finite(Plus(z, One)) /\ V(Plus(z, One)) = (k + 1) * OneUnits
         /\ k # -1 => SignBit(Plus(z, One)) = IF k + 1 < 0 THEN 1 ELSE 0
  <1> DEFINE o == OneUnits  h == Hidden
             a == (k - 1) * o  b == (k + 1) * o  c == k * o
  <1>1. o \in Nat \ {0} /\ h \in Nat /\ h >= 2 /\ Finite(One) /\ V(One) = o /\ SignBit(One) = 0
    BY UnitsAre, Format, FixedFloats
  <1>2. k \in Int /\ k \in -(2 * h) .. 2 * h /\ k - 1 \in -(2 * h) .. 2 * h
        /\ k + 1 \in -(2 * h) .. 2 * h
    <2> HIDE DEF h
    <2>1. k \in -h .. h
      BY DEF h
    <2>2. QED BY <1>1, <2>1
  <1>3. b = c + o /\ a = c - o /\ c \in Int
    BY <1>2, SignedUnits
  <1>4. \A i \in -(2 * h) .. 2 * h :
          /\ (i * o < 0 <=> i < 0) /\ (i * o = 0 <=> i = 0)
          /\ Exact(IF i * o < 0 THEN -(i * o) ELSE i * o)
    BY SignedUnits
  <1>5. /\ (a < 0 <=> k - 1 < 0) /\ (a = 0 <=> k - 1 = 0) /\ Exact(IF a < 0 THEN -a ELSE a)
        /\ (b < 0 <=> k + 1 < 0) /\ (b = 0 <=> k + 1 = 0) /\ Exact(IF b < 0 THEN -b ELSE b)
    BY <1>2, <1>4
  <1>6. a = V(z) - V(One) /\ b = V(z) + V(One)
    BY <1>1, <1>3
  <1> HIDE DEF a, b, o, h, c
  <1>7. Finite(Difference(z, One)) /\ V(Difference(z, One)) = a
        /\ (a # 0 => SignBit(Difference(z, One)) = IF a < 0 THEN 1 ELSE 0)
    BY <1>1, <1>5, <1>6, DifferenceExact
  <1>8. Finite(Plus(z, One)) /\ V(Plus(z, One)) = b
        /\ (b # 0 => SignBit(Plus(z, One)) = IF b < 0 THEN 1 ELSE 0)
    BY <1>1, <1>5, <1>6, SumExact
  <1>9. (k # 1 => k - 1 # 0) /\ (k # -1 => k + 1 # 0)
    BY <1>2
  <1>10. QED BY <1>5, <1>7, <1>8, <1>9 DEF a, b, o

\* The same for a signed number of units.
LEMMA IsRounded ==
  ASSUME NEW x, Finite(x), Pow(x) < UnitBits, NEW f, NEW z, Finite(z),
         NEW i \in 0 .. Hidden - 1, i = IntPart(x),
         NEW j, j = IF Rest(x) = 0 THEN i ELSE i + (IF RoundsUp(f, x) THEN 1 ELSE 0),
         NEW k \in Int, k = IF SignBit(x) = 1 THEN -j ELSE j, V(z) = k * OneUnits,
         SignBit(z) = SignBit(x)
  PROVE  z = Integral(f, x)
  <1> DEFINE o == OneUnits  s == SignBit(x)
  <1>1. o \in Nat \ {0} /\ j \in Int /\ Hidden \in Nat
    BY UnitsAre, Format
  <1>2. (-j) * o = -(j * o)
    <2> HIDE DEF o
    <2>1. QED BY <1>1, Z3T(60)
  <1>3. V(z) = IF s = 1 THEN -(j * o) ELSE j * o
    <2>1. CASE s = 1
      BY <1>2, <2>1
    <2>2. CASE s # 1
      BY <2>2
    <2>3. QED BY <2>1, <2>2
  <1>4. j = IF Rest(x) = 0 THEN IntPart(x)
            ELSE IntPart(x) + (IF RoundsUp(f, x) THEN 1 ELSE 0)
    OBVIOUS
  <1>5. QED BY <1>3, <1>4, IsIntegral

\* A zero is an integer.
LEMMA ZeroIsWhole ==
  ASSUME NEW x, Finite(x), Pow(x) < UnitBits
  PROVE  /\ IsZero(x) => Whole(x)
         /\ ~IsZero(x) => Mag(x) \in Nat \ {0}
  <1>1. Mag(x) \in Nat /\ (Mag(x) = 0 <=> AbsBits(x) = 0)
    BY ValueIs, MagIs
  <1>2. /\ IntPart(x) * OneUnits \in Nat /\ Rest(x) \in 0 .. OneUnits - 1
        /\ Mag(x) = IntPart(x) * OneUnits + Rest(x) /\ (Whole(x) <=> Rest(x) = 0)
        /\ OneUnits \in Nat
    BY Parting, UnitsAre
  <1> DEFINE a == IntPart(x) * OneUnits  g == Rest(x)  m == Mag(x)
  <1> HIDE DEF a, g, m
  <1>3. m = 0 => g = 0
    <2>1. a \in Nat /\ g \in Nat /\ m = a + g
      BY <1>2 DEF a, g, m
    <2>2. QED BY <2>1
  <1>4. QED BY <1>1, <1>2, <1>3 DEF IsZero, g, m

\* floor rounds down, whatever neighbour 1/EPS gave.
LEMMA FloorIs ==
  ASSUME NEW x \in Patterns
  PROVE  floor(x) = Integral("floor", x)
  <1> DEFINE s == SignBit(x)  o == OneUnits  i == IntPart(x)  g == Rest(x)  j == Even(x)
             y == Difference(Neighbour(x), x)
             t == IF g = 0 THEN i ELSE i + (IF s = 1 THEN 1 ELSE 0)
             k == IF s = 1 THEN -t ELSE t
  <1>1. Exponent(x) \in 0 .. ExpMax /\ ExpMax \in Nat /\ Bias \in Nat /\ MantBits \in Nat
        /\ Hidden \in Nat /\ o \in Nat \ {0} /\ Hidden >= 2
    BY MagnitudeParts, Format, UnitsAre
  <1>2. CASE Exponent(x) >= Bias + MantBits \/ IsZero(x)
    <2>1. Whole(x)
      BY <1>1, <1>2, BelowLimit, ZeroIsWhole
    <2>2. QED BY <1>2, <2>1 DEF floor, Integral
  <1>3. ASSUME ~(Exponent(x) >= Bias + MantBits \/ IsZero(x)) PROVE floor(x) = Integral("floor", x)
    <2>1. Finite(x) /\ Pow(x) < UnitBits
      BY <1>1, <1>3, BelowLimit
    <2>2. /\ i \in 0 .. Hidden - 1 /\ g \in 0 .. o - 1
          /\ (j = i \/ j = i + 1) /\ (j = i + 1 => 2 * g >= o)
      BY <2>1, Parting
    <2>3. s \in 0 .. 1 /\ Mag(x) \in Nat \ {0}
      BY <1>3, <2>1, ValueIs, ZeroIsWhole
    <2>4. RoundsUp("floor", x) <=> s = 1
      BY DEF RoundsUp
    <2>5. ASSUME NEW z, Finite(z), SignBit(z) = s, V(z) = k * o, k \in Int PROVE z = Integral("floor", x)
      <3>1. t = IF Rest(x) = 0 THEN i ELSE i + (IF RoundsUp("floor", x) THEN 1 ELSE 0)
        BY <2>4
      <3>2. k = IF SignBit(x) = 1 THEN -t ELSE t
        OBVIOUS
      <3> HIDE DEF t, k
      <3>3. QED BY <2>1, <2>2, <2>5, <3>1, <3>2, IsRounded
    <2>6. CASE Exponent(x) <= Bias - 1
      <3>1. i = 0 /\ g # 0
        BY <1>1, <2>1, <2>3, <2>6, AgainstOne
      <3> DEFINE z == IF s = 1 THEN Negated(One) ELSE Zero
      <3>2. floor(x) = z
        BY <1>3, <2>6 DEF floor
      <3>3. /\ Finite(One) /\ V(One) = o /\ SignBit(One) = 0 /\ One \in Patterns
            /\ Finite(Zero) /\ V(Zero) = 0 /\ SignBit(Zero) = 0
        BY FixedFloats, ValueIs
      <3>4. Finite(z) /\ SignBit(z) = s /\ V(z) = IF s = 1 THEN -o ELSE 0
        <4>1. Finite(Negated(One)) /\ V(Negated(One)) = -V(One) /\ SignBit(Negated(One)) = 1
          BY <3>3, NegatedIs
        <4>2. QED BY <2>3, <3>3, <4>1
      <3>5. k = (IF s = 1 THEN -1 ELSE 0) /\ (-1) * o = -o /\ 0 * o = 0
        BY <1>1, <2>3, <3>1
      <3> HIDE DEF z, k, o
      <3>6. V(z) = k * o
        BY <2>3, <3>4, <3>5
      <3>7. k \in Int
        BY <3>5
      <3>8. QED BY <2>5, <3>2, <3>4, <3>6, <3>7
    <2>7. CASE ~(Exponent(x) <= Bias - 1)
      <3> DEFINE p == Plus(x, y)
                 n == IF s = 1 THEN -j ELSE j
                 z == IF Below(Zero, y) THEN Difference(p, One) ELSE p
      <3>1. floor(x) = z
        BY <1>3, <2>7 DEF floor
      <3>2. i >= 1
        BY <1>1, <2>1, <2>7, AgainstOne
      <3>3. /\ Finite(y)
            /\ V(y) = (IF s = 1 THEN IF j = i THEN g ELSE g - o ELSE IF j = i THEN -g ELSE o - g)
            /\ n \in -Hidden .. Hidden
            /\ Finite(p) /\ V(p) = n * o
            /\ (n # 0 => SignBit(p) = IF n < 0 THEN 1 ELSE 0)
        <4>1. Exponent(x) >= Bias - 1 /\ p \in {Plus(x, y), Plus(y, x)}
          BY <1>1, <2>7
        <4>2. n = IF SignBit(x) = 1 THEN -Even(x) ELSE Even(x)
          OBVIOUS
        <4> HIDE DEF n, p
        <4>3. QED BY <2>1, <4>1, <4>2, GapIs
      <3>4. /\ Finite(Difference(p, One)) /\ V(Difference(p, One)) = (n - 1) * o
            /\ (n # 1 => SignBit(Difference(p, One)) = IF n - 1 < 0 THEN 1 ELSE 0)
        <4> HIDE DEF n, p
        <4>1. QED BY <3>3, OneStep
      <3>5. Below(Zero, y) <=> 0 < V(y)
        <4>1. Finite(Zero) /\ V(Zero) = 0
          BY FixedFloats
        <4>2. QED BY <3>3, <4>1, BelowIs
      <3> HIDE DEF y, p
      <3>6. i \in Nat /\ j \in Nat /\ g \in Nat
        BY <1>1, <2>2
      <3> HIDE DEF o, g, i, j
      <3>7. (0 < V(y) => n - 1 = k) /\ (~(0 < V(y)) => n = k) /\ k \in Int
        <4>1. CASE s = 1
          <5>1. n = -j /\ k = -t /\ V(y) = (IF j = i THEN g ELSE g - o)
                /\ t = IF g = 0 THEN i ELSE i + 1
            BY <3>3, <4>1
          <5> HIDE DEF n, k, t
          <5>2. QED BY <1>1, <2>2, <3>6, <5>1 DEF o, g, i, j
        <4>2. CASE s = 0
          <5>1. n = j /\ k = t /\ V(y) = (IF j = i THEN -g ELSE o - g) /\ t = i
            BY <3>3, <3>6, <4>2
          <5> HIDE DEF n, k, t
          <5>2. QED BY <1>1, <2>2, <3>6, <5>1 DEF o, g, i, j
        <4>3. QED BY <2>3, <4>1, <4>2
      <3>8. k < 0 <=> s = 1
        BY <2>3, <3>2, <3>6
      <3>9. k # 0 /\ n # 0
        BY <2>2, <2>3, <3>2, <3>6
      <3> HIDE DEF k, n
      <3>10. CASE Below(Zero, y)
        <4>1. z = Difference(p, One) /\ n - 1 = k
          BY <3>5, <3>7, <3>10
        <4>2. n # 1
          BY <3>9, <4>1
        <4>3. Finite(z) /\ V(z) = k * o /\ SignBit(z) = IF k < 0 THEN 1 ELSE 0
          BY <3>4, <4>1, <4>2
        <4>4. SignBit(z) = s
          BY <2>3, <3>8, <4>3
        <4> HIDE DEF z
        <4>5. QED BY <2>5, <3>1, <3>7, <4>3, <4>4 DEF o
      <3>11. CASE ~Below(Zero, y)
        <4>1. z = p /\ n = k
          BY <3>5, <3>7, <3>11
        <4>2. Finite(z) /\ V(z) = k * o /\ SignBit(z) = IF k < 0 THEN 1 ELSE 0
          BY <3>3, <3>9, <4>1
        <4>3. SignBit(z) = s
          BY <2>3, <3>8, <4>2
        <4> HIDE DEF z
        <4>4. QED BY <2>5, <3>1, <3>7, <4>2, <4>3 DEF o
      <3>12. QED BY <3>10, <3>11
    <2>8. QED BY <2>6, <2>7
  <1>4. QED BY <1>2, <1>3

\* ceil rounds up.
LEMMA CeilIs ==
  ASSUME NEW x \in Patterns
  PROVE  ceil(x) = Integral("ceil", x)
  <1> DEFINE s == SignBit(x)  o == OneUnits  i == IntPart(x)  g == Rest(x)  j == Even(x)
             y == Difference(Neighbour(x), x)
             t == IF g = 0 THEN i ELSE i + (IF s = 0 THEN 1 ELSE 0)
             k == IF s = 1 THEN -t ELSE t
  <1>1. Exponent(x) \in 0 .. ExpMax /\ ExpMax \in Nat /\ Bias \in Nat /\ MantBits \in Nat
        /\ Hidden \in Nat /\ o \in Nat \ {0} /\ Hidden >= 2
    BY MagnitudeParts, Format, UnitsAre
  <1>2. CASE Exponent(x) >= Bias + MantBits \/ IsZero(x)
    <2>1. Whole(x)
      BY <1>1, <1>2, BelowLimit, ZeroIsWhole
    <2>2. QED BY <1>2, <2>1 DEF ceil, Integral
  <1>3. ASSUME ~(Exponent(x) >= Bias + MantBits \/ IsZero(x)) PROVE ceil(x) = Integral("ceil", x)
    <2>1. Finite(x) /\ Pow(x) < UnitBits
      BY <1>1, <1>3, BelowLimit
    <2>2. /\ i \in 0 .. Hidden - 1 /\ g \in 0 .. o - 1
          /\ (j = i \/ j = i + 1) /\ (j = i + 1 => 2 * g >= o)
      BY <2>1, Parting
    <2>3. s \in 0 .. 1 /\ Mag(x) \in Nat \ {0}
      BY <1>3, <2>1, ValueIs, ZeroIsWhole
    <2>4. RoundsUp("ceil", x) <=> s = 0
      BY DEF RoundsUp
    <2>5. ASSUME NEW z, Finite(z), SignBit(z) = s, V(z) = k * o, k \in Int PROVE z = Integral("ceil", x)
      <3>1. t = IF Rest(x) = 0 THEN i ELSE i + (IF RoundsUp("ceil", x) THEN 1 ELSE 0)
        BY <2>4
      <3>2. k = IF SignBit(x) = 1 THEN -t ELSE t
        OBVIOUS
      <3> HIDE DEF t, k
      <3>3. QED BY <2>1, <2>2, <2>5, <3>1, <3>2, IsRounded
    <2>6. CASE Exponent(x) <= Bias - 1
      <3>1. i = 0 /\ g # 0
        BY <1>1, <2>1, <2>3, <2>6, AgainstOne
      <3> DEFINE z == IF s = 1 THEN Negated(Zero) ELSE One
      <3>2. ceil(x) = z
        BY <1>3, <2>6 DEF ceil
      <3>3. /\ Finite(One) /\ V(One) = o /\ SignBit(One) = 0 /\ One \in Patterns
            /\ Finite(Zero) /\ V(Zero) = 0 /\ SignBit(Zero) = 0 /\ Zero \in Patterns
        BY FixedFloats, ValueIs
      <3>4. Finite(z) /\ SignBit(z) = s /\ V(z) = IF s = 1 THEN 0 ELSE o
        <4>1. Finite(Negated(Zero)) /\ V(Negated(Zero)) = 0 /\ SignBit(Negated(Zero)) = 1
          BY <3>3, NegatedIs
        <4>2. QED BY <2>3, <3>3, <4>1
      <3>5. k = (IF s = 1 THEN 0 ELSE 1) /\ 1 * o = o /\ 0 * o = 0
        BY <1>1, <2>3, <3>1
      <3> HIDE DEF z, k, o
      <3>6. V(z) = k * o
        BY <2>3, <3>4, <3>5
      <3>7. k \in Int
        BY <3>5
      <3>8. QED BY <2>5, <3>2, <3>4, <3>6, <3>7
    <2>7. CASE ~(Exponent(x) <= Bias - 1)
      <3> DEFINE p == Plus(x, y)
                 n == IF s = 1 THEN -j ELSE j
                 z == IF Below(y, Zero) THEN Plus(p, One) ELSE p
      <3>1. ceil(x) = z
        BY <1>3, <2>7 DEF ceil
      <3>2. i >= 1
        BY <1>1, <2>1, <2>7, AgainstOne
      <3>3. /\ Finite(y)
            /\ V(y) = (IF s = 1 THEN IF j = i THEN g ELSE g - o ELSE IF j = i THEN -g ELSE o - g)
            /\ n \in -Hidden .. Hidden
            /\ Finite(p) /\ V(p) = n * o
            /\ (n # 0 => SignBit(p) = IF n < 0 THEN 1 ELSE 0)
        <4>1. Exponent(x) >= Bias - 1 /\ p \in {Plus(x, y), Plus(y, x)}
          BY <1>1, <2>7
        <4>2. n = IF SignBit(x) = 1 THEN -Even(x) ELSE Even(x)
          OBVIOUS
        <4> HIDE DEF n, p
        <4>3. QED BY <2>1, <4>1, <4>2, GapIs
      <3>4. /\ Finite(Plus(p, One)) /\ V(Plus(p, One)) = (n + 1) * o
            /\ (n # -1 => SignBit(Plus(p, One)) = IF n + 1 < 0 THEN 1 ELSE 0)
        <4> HIDE DEF n, p
        <4>1. QED BY <3>3, OneStep
      <3>5. Below(y, Zero) <=> V(y) < 0
        <4>1. Finite(Zero) /\ V(Zero) = 0
          BY FixedFloats
        <4>2. QED BY <3>3, <4>1, BelowIs
      <3> HIDE DEF y, p
      <3>6. i \in Nat /\ j \in Nat /\ g \in Nat
        BY <1>1, <2>2
      <3> HIDE DEF o, g, i, j
      <3>7. (V(y) < 0 => n + 1 = k) /\ (~(V(y) < 0) => n = k) /\ k \in Int
        <4>1. CASE s = 1
          <5>1. n = -j /\ k = -t /\ V(y) = (IF j = i THEN g ELSE g - o)
                /\ t = i
            BY <3>3, <3>6, <4>1
          <5> HIDE DEF n, k, t
          <5>2. QED BY <1>1, <2>2, <3>6, <5>1 DEF o, g, i, j
        <4>2. CASE s = 0
          <5>1. n = j /\ k = t /\ V(y) = (IF j = i THEN -g ELSE o - g) /\ t = IF g = 0 THEN i ELSE i + 1
            BY <3>3, <3>6, <4>2
          <5> HIDE DEF n, k, t
          <5>2. QED BY <1>1, <2>2, <3>6, <5>1 DEF o, g, i, j
        <4>3. QED BY <2>3, <4>1, <4>2
      <3>8. k < 0 <=> s = 1
        BY <2>3, <3>2, <3>6
      <3>9. k # 0 /\ n # 0
        BY <2>2, <2>3, <3>2, <3>6
      <3> HIDE DEF k, n
      <3>10. CASE Below(y, Zero)
        <4>1. z = Plus(p, One) /\ n + 1 = k
          BY <3>5, <3>7, <3>10
        <4>2. n # -1
          BY <3>9, <4>1
        <4>3. Finite(z) /\ V(z) = k * o /\ SignBit(z) = IF k < 0 THEN 1 ELSE 0
          BY <3>4, <4>1, <4>2
        <4>4. SignBit(z) = s
          BY <2>3, <3>8, <4>3
        <4> HIDE DEF z
        <4>5. QED BY <2>5, <3>1, <3>7, <4>3, <4>4 DEF o
      <3>11. CASE ~Below(y, Zero)
        <4>1. z = p /\ n = k
          BY <3>5, <3>7, <3>11
        <4>2. Finite(z) /\ V(z) = k * o /\ SignBit(z) = IF k < 0 THEN 1 ELSE 0
          BY <3>3, <3>9, <4>1
        <4>3. SignBit(z) = s
          BY <2>3, <3>8, <4>2
        <4> HIDE DEF z
        <4>4. QED BY <2>5, <3>1, <3>7, <4>2, <4>3 DEF o
      <3>12. QED BY <3>10, <3>11
    <2>8. QED BY <2>6, <2>7
  <1>4. QED BY <1>2, <1>3

\* The bits of a float's fraction, and the float without them.
LEMMA ClearedIs ==
  ASSUME NEW x, Finite(x), Pow(x) < UnitBits, Exponent(x) >= Bias
  PROVE  /\ TwoTo[MantBits - (Exponent(x) - Bias)] = UnitsIn(x)
         /\ x % UnitsIn(x) = Parts(x)
         /\ Finite(x - Parts(x)) /\ SignBit(x - Parts(x)) = SignBit(x)
         /\ Mag(x - Parts(x)) = IntPart(x) * OneUnits
  <1> DEFINE u == UnitsIn(x)  r == Parts(x)  i == IntPart(x)  h == Hidden  w == SignWeight
             e == Exponent(x) - Bias  f == TwoTo[e]  s == SignBit(x)  c == Exponent(x) - 1
             m == Mantissa(x)  t == TwoTo[Pow(x)]  d == ExpMax + 1
             a == AbsBits(x) - r
  <1>1. /\ Bias \in Nat /\ Bias >= 9 /\ ExpMax = 2 * Bias + 1 /\ MantBits \in Nat \ {0}
        /\ h \in Nat /\ h >= 2 /\ UnitBits = Bias - 1 + MantBits /\ w = h * d /\ w \in Nat
        /\ d \in Nat /\ Infinity \in Nat /\ w = Infinity + h
    <2>1. /\ Bias \in Nat /\ ExpMax = 2 * Bias + 1 /\ MantBits \in Nat \ {0}
          /\ Bias >= 3 * MantBits + 6 /\ UnitBits = Bias - 1 + MantBits
      BY Format, UnitsAre
    <2>2. /\ h \in Nat /\ h >= 2 /\ w = h * d /\ w \in Nat /\ Infinity \in Nat /\ w = Infinity + h
      BY Format
    <2> HIDE DEF w, h
    <2>3. QED BY <2>1, <2>2
  <1>2. /\ x \in Patterns /\ Exponent(x) \in 0 .. ExpMax /\ m \in 0 .. h - 1
        /\ AbsBits(x) = h * Exponent(x) + m /\ AbsBits(x) \in 0 .. Infinity - 1 /\ s \in 0 .. 1
        /\ x = IF s = 1 THEN w + AbsBits(x) ELSE AbsBits(x)
    BY ValueIs, MagnitudeParts, PatternParts
  <1>3. Exponent(x) # 0 /\ Pow(x) = c /\ Sig(x) = h + m /\ c \in Nat /\ e \in Nat
    <2>1. Exponent(x) # 0 /\ c \in Nat /\ e \in Nat
      BY <1>1, <1>2
    <2>2. QED BY <1>2, <2>1, SigPow
  <1>4. /\ u \in Nat \ {0} /\ r \in 0 .. u - 1 /\ i \in Nat
        /\ Sig(x) = u * i + r /\ u * t = OneUnits /\ t \in Nat \ {0}
    <2>1. i \in 0 .. Hidden - 1
      BY Pieces
    <2>2. i \in Nat
      BY <1>1, <2>1
    <2> HIDE DEF i
    <2>3. QED BY <2>2, Pieces DEF i
  <1>5. MantBits - e \in Nat /\ UnitBits - Pow(x) = MantBits - e
    <2> DEFINE b == Exponent(x)
    <2>1. b \in Int /\ e = b - Bias /\ Pow(x) = b - 1 /\ Pow(x) < UnitBits
      BY <1>1, <1>2, <1>3
    <2> HIDE DEF e, b
    <2>2. QED BY <1>1, <1>3, <2>1
  <1>6. TwoTo[MantBits - e] = u
    BY <1>5 DEF UnitsIn
  <1>7. h = u * f /\ f \in Nat \ {0}
    <2>1. (MantBits - e) + e = MantBits
      BY <1>1, <1>3
    <2>2. TwoTo[(MantBits - e) + e] = TwoTo[MantBits - e] * TwoTo[e]
      BY <1>3, <1>5, TwoToAdds
    <2>3. QED BY <1>3, <1>6, <2>1, <2>2, TwoToIs DEF Hidden
  <1>8. AbsBits(x) = u * (f * c + i) + r
    <2>1. AbsBits(x) = h * c + (u * i + r)
      <3> DEFINE b == Exponent(x)
      <3>1. h * b = h * c + h
        <4>1. b \in Int /\ c = b - 1
          BY <1>2
        <4> HIDE DEF h, c, b
        <4>2. QED BY <1>1, <4>1, Z3T(60)
      <3> HIDE DEF h, u, i, r, c, m
      <3>2. h * c \in Int
        BY <1>1, <1>3, Z3T(60)
      <3>3. u * i \in Int /\ r \in Int /\ m \in Int /\ h \in Int
        <4>1. u * i \in Nat
          BY <1>4, Z3T(60)
        <4>2. QED BY <1>1, <1>2, <1>4, <4>1
      <3>4. h + m = u * i + r
        BY <1>3, <1>4
      <3> HIDE DEF b
      <3>5. AbsBits(x) = h * b + m
        BY <1>2 DEF b
      <3> DEFINE hb == h * b  hc == h * c  ui == u * i
      <3>6. hb = hc + h /\ hc \in Int /\ ui \in Int /\ AbsBits(x) = hb + m /\ h + m = ui + r
        BY <3>1, <3>2, <3>3, <3>4, <3>5
      <3> HIDE DEF hb, hc, ui
      <3>7. AbsBits(x) = hc + (ui + r)
        BY <3>3, <3>6
      <3>8. QED BY <3>7 DEF hc, ui
    <2> HIDE DEF h, u, i, r, c, f
    <2>2. h * c = u * (f * c) /\ u * (f * c + i) = u * (f * c) + u * i
      <3>1. h * c = u * (f * c)
        BY <1>3, <1>4, <1>7, Z3T(60)
      <3>2. f * c \in Nat
        BY <1>3, <1>7, Z3T(60)
      <3> DEFINE fc == f * c
      <3> HIDE DEF fc
      <3>3. u * (fc + i) = u * fc + u * i
        BY <1>4, <3>2, Z3T(60) DEF fc
      <3>4. QED BY <3>1, <3>3 DEF fc
    <2>3. u * (f * c) \in Int /\ u * i \in Int /\ r \in Int
      <3>1. f * c \in Nat
        BY <1>3, <1>7, Z3T(60)
      <3> DEFINE fc == f * c
      <3> HIDE DEF fc
      <3>2. u * fc \in Nat /\ u * i \in Nat
        BY <1>4, <3>1, Z3T(60) DEF fc
      <3>3. QED BY <1>4, <3>2 DEF fc
    <2>4. QED BY <2>1, <2>2, <2>3
  <1>9. x % u = r
    <2> DEFINE b == f * c + i
               q == IF s = 1 THEN f * d + b ELSE b
    <2>1. b \in Nat /\ f * d \in Nat /\ u * (f * d) = w /\ u * (f * d + b) = u * (f * d) + u * b
      <3> HIDE DEF h, u, i, c, f, d, w
      <3>1. f * c \in Nat /\ f * d \in Nat
        BY <1>1, <1>3, <1>7, Z3T(60)
      <3>2. b \in Nat
        BY <1>4, <3>1
      <3>3. u * (f * d) = w
        BY <1>1, <1>4, <1>7, Z3T(60)
      <3> DEFINE fd == f * d
      <3> HIDE DEF b, fd
      <3>4. u * (fd + b) = u * fd + u * b
        BY <1>4, <3>1, <3>2, Z3T(60) DEF fd
      <3>5. QED BY <3>1, <3>2, <3>3, <3>4 DEF fd
    <2>2. q \in Int /\ x \in Int /\ x = u * q + r
      <3> HIDE DEF b
      <3> DEFINE fd == f * d
      <3>1. b \in Nat /\ fd \in Nat /\ u * fd = w /\ u * (fd + b) = w + u * b
        BY <2>1
      <3>2. q = IF s = 1 THEN fd + b ELSE b
        OBVIOUS
      <3> HIDE DEF fd, q, u, r, w, s
      <3>3. AbsBits(x) = u * b + r
        BY <1>8 DEF b
      <3>4. u * b \in Nat /\ r \in Nat
        <4>1. u * b \in Nat
          BY <1>4, <3>1, Z3T(60)
        <4>2. QED BY <1>4, <4>1
      <3> DEFINE ub == u * b
      <3> HIDE DEF ub
      <3>5. CASE s = 1
        <4>1. q = fd + b /\ x = w + AbsBits(x)
          BY <1>2, <3>2, <3>5
        <4>2. u * q = w + ub /\ AbsBits(x) = ub + r /\ ub \in Nat
          BY <3>1, <3>3, <3>4, <4>1 DEF ub
        <4>3. x = (w + ub) + r /\ x \in Int /\ q \in Int
          BY <1>1, <3>1, <3>4, <4>1, <4>2
        <4>4. QED BY <4>2, <4>3
      <3>6. CASE s # 1
        <4>1. q = b /\ x = AbsBits(x)
          BY <1>2, <3>2, <3>6
        <4>2. x = ub + r /\ ub \in Nat
          BY <3>3, <3>4, <4>1 DEF ub
        <4>3. QED BY <3>1, <3>4, <4>1, <4>2 DEF ub
      <3>7. QED BY <3>5, <3>6
    <2> HIDE DEF q, u, r
    <2>3. \E p \in Int : x = u * p + r
      BY <2>2
    <2>4. QED BY <1>4, <2>2, <2>3, DivUnique
  <1> DEFINE n == m - r
  <1>10. n \in 0 .. h - 1 /\ h + n = u * i
    <2> HIDE DEF h, u, i, r, f, m
    <2>1. i >= f
      <3>1. i < f => u * i <= u * f - u
        <4>1. i < f => i <= f - 1
          BY <1>4, <1>7
        <4>2. i <= f - 1 => u * i <= u * (f - 1)
          BY <1>4, <1>7, Z3T(60)
        <4>3. u * (f - 1) = u * f - u
          BY <1>4, <1>7, Z3T(60)
        <4>4. QED BY <4>1, <4>2, <4>3
      <3>2. u * i \in Nat
        BY <1>4, Z3T(60)
      <3> DEFINE ui == u * i
      <3> HIDE DEF ui
      <3>3. ui + r = h + m /\ ui \in Nat /\ (i < f => ui <= h - u)
        BY <1>3, <1>4, <1>7, <3>1, <3>2 DEF ui
      <3>4. QED BY <1>1, <1>2, <1>4, <1>7, <3>3
    <2>2. u * i >= u * f /\ u * i \in Nat
      BY <1>4, <1>7, <2>1, Z3T(60)
    <2> DEFINE ui == u * i
    <2> HIDE DEF ui
    <2>3. ui >= h /\ ui \in Nat /\ h + m = ui + r
      BY <1>3, <1>4, <1>7, <2>2 DEF ui
    <2>4. n \in 0 .. h - 1 /\ h + n = ui
      BY <1>1, <1>2, <1>4, <2>3
    <2>5. QED BY <2>4 DEF ui
  <1>11. a = h * Exponent(x) + n /\ a \in 0 .. Infinity - 1
    <2> DEFINE he == h * Exponent(x)
    <2>1. he \in Nat
      <3> DEFINE b == Exponent(x)
      <3>1. b \in Nat
        BY <1>1, <1>2
      <3> HIDE DEF h, b
      <3>2. h * b \in Nat
        BY <1>1, <3>1, Z3T(60)
      <3>3. QED BY <3>2 DEF b
    <2> HIDE DEF h, he, r, m
    <2>2. AbsBits(x) = he + m /\ m \in Nat /\ r \in Nat
      BY <1>1, <1>2, <1>4 DEF he
    <2>3. a = he + n /\ a \in 0 .. Infinity - 1
      BY <1>1, <1>2, <1>10, <2>1, <2>2
    <2>4. QED BY <2>3 DEF he
  <1>12. a \in 0 .. w - 1 /\ a \in Patterns /\ Exponent(a) = Exponent(x) /\ Mantissa(a) = n
    <2>1. a \in Patterns /\ Exponent(a) = Exponent(x) /\ Mantissa(a) = n
      <3> HIDE DEF n
      <3>1. n \in 0 .. Hidden - 1 /\ a = Hidden * Exponent(x) + n
        BY <1>10, <1>11
      <3> HIDE DEF a
      <3>2. QED BY <1>2, <3>1, FromParts
    <2> HIDE DEF a, w
    <2>2. a \in 0 .. w - 1
      BY <1>1, <1>11
    <2>3. QED BY <2>1, <2>2
  <1>13. Mag(a) = i * OneUnits
    <2>1. Sig(a) = h + n /\ Pow(a) = c
      <3> HIDE DEF a, n
      <3>1. QED BY <1>3, <1>12, SigPow
    <2>2. Mag(a) = (u * i) * t
      BY <1>3, <1>10, <2>1 DEF Mag
    <2> HIDE DEF u, i, t, a
    <2>3. (u * i) * t = i * (u * t)
      BY <1>4, Z3T(60)
    <2>4. QED BY <1>4, <2>2, <2>3
  <1>14. x - r = WithSign(s, a)
    <2>1. WithSign(s, a) = IF s = 1 THEN SignWeight + a ELSE a
      <3> HIDE DEF a, s
      <3>1. QED BY <1>2, <1>12, SignedPattern DEF s
    <2>2. w \in Int /\ AbsBits(x) \in Int /\ r \in Int
      BY <1>1, <1>2, <1>4
    <2> HIDE DEF s, r
    <2>3. QED BY <1>2, <2>1, <2>2
  <1> DEFINE z == WithSign(s, a)
  <1>15. z \in Patterns /\ SignBit(z) = s /\ AbsBits(z) = a
    <2> HIDE DEF a, s
    <2>1. QED BY <1>2, <1>12, SignedPattern DEF s
  <1>16. Finite(z)
    <2> HIDE DEF z, a
    <2>1. QED BY <1>1, <1>11, <1>15 DEF Finite
  <1>17. Mag(z) = Mag(a)
    <2> HIDE DEF z, a
    <2>1. QED BY <1>15, MagIs
  <1> HIDE DEF z, a, s, r, i, u
  <1>18. QED BY <1>6, <1>9, <1>13, <1>14, <1>15, <1>16, <1>17 DEF z, e, u, r, s, i

\* trunc clears the bits of the fraction, which rounds towards zero.
LEMMA TruncIs ==
  ASSUME NEW x \in Patterns
  PROVE  trunc(x) = Integral("trunc", x)
  <1> DEFINE s == SignBit(x)  o == OneUnits  i == IntPart(x)  e == Exponent(x) - Bias
             k == IF s = 1 THEN -i ELSE i
             c == TwoTo[IF e < 0 THEN ExpBits + MantBits ELSE MantBits - e]
             z == x - (x % c)
  <1>1. Exponent(x) \in 0 .. ExpMax /\ ExpMax \in Nat /\ Bias \in Nat /\ MantBits \in Nat
        /\ Hidden \in Nat
    BY MagnitudeParts, Format
  <1>2. e >= MantBits <=> Exponent(x) >= Bias + MantBits
    BY <1>1
  <1>3. trunc(x) = IF e >= MantBits THEN x ELSE z
    BY DEF trunc
  <1>4. CASE e >= MantBits
    <2>1. Whole(x)
      BY <1>2, <1>4, BelowLimit
    <2>2. QED BY <1>3, <1>4, <2>1 DEF Integral
  <1>5. CASE ~(e >= MantBits)
    <2>1. Finite(x) /\ Pow(x) < UnitBits
      BY <1>1, <1>2, <1>5, BelowLimit
    <2>2. i \in 0 .. Hidden - 1 /\ i \in Int
      <3>1. i \in 0 .. Hidden - 1
        BY <2>1, Parting
      <3>2. QED BY <1>1, <3>1
    <2>3. s \in 0 .. 1
      BY <2>1, ValueIs
    <2>4. Finite(z) /\ SignBit(z) = s /\ V(z) = k * o
      <3>1. CASE e < 0
        <4>1. i = 0
          BY <1>1, <2>1, <3>1, AgainstOne
        <4>2. c = SignWeight
          BY <3>1 DEF SignWeight
        <4>3. x % c = AbsBits(x)
          BY <4>2 DEF AbsBits
        <4>4. z = WithSign(s, 0)
          <5>1. x = (IF s = 1 THEN SignWeight + AbsBits(x) ELSE AbsBits(x)) /\ AbsBits(x) \in Int
                /\ SignWeight \in Int /\ SignWeight >= 1
            BY PatternParts, Format
          <5>2. WithSign(s, 0) = IF s = 1 THEN SignWeight + 0 ELSE 0
            <6>1. 0 \in 0 .. SignWeight - 1
              BY <5>1
            <6> HIDE DEF s
            <6>2. QED BY <2>3, <6>1, SignedPattern
          <5>3. z = x - AbsBits(x)
            BY <4>3
          <5> HIDE DEF s, z
          <5>4. QED BY <5>1, <5>2, <5>3
        <4>5. WithSign(s, 0) = IntegerFloat(s, 0)
          <5>1. Nearest(0, UnitBits) = 0
            BY DEF Nearest
          <5>2. QED BY <5>1 DEF IntegerFloat
        <4>6. 0 \in 0 .. Hidden
          BY <1>1
        <4>7. /\ Finite(IntegerFloat(s, 0)) /\ SignBit(IntegerFloat(s, 0)) = s
              /\ V(IntegerFloat(s, 0)) = (IF s = 1 THEN -(0 * OneUnits) ELSE 0 * OneUnits)
          BY <2>3, <4>6, IntegerFloatIs
        <4>8. 0 * o = 0 /\ k = 0
          <5>1. o \in Nat
            BY UnitsAre
          <5> HIDE DEF i, o
          <5>2. i <= 0 /\ i >= 0 /\ i \in Int
            BY <4>1
          <5>3. k = 0
            BY <5>2
          <5>4. QED BY <5>1, <5>3
        <4> HIDE DEF k, o, z
        <4>9. -(0 * o) = k * o /\ 0 * o = k * o
          BY <4>8
        <4>10. QED BY <4>4, <4>5, <4>7, <4>9 DEF o
      <3>2. CASE ~(e < 0)
        <4>1. Exponent(x) >= Bias
          BY <1>1, <3>2
        <4>2. c = UnitsIn(x) /\ z = x - Parts(x)
          <5>1. c = TwoTo[MantBits - e]
            BY <3>2
          <5>2. QED BY <2>1, <4>1, <5>1, ClearedIs
        <4>3. Finite(z) /\ SignBit(z) = s /\ Mag(z) = i * o
          BY <2>1, <4>1, <4>2, ClearedIs
        <4>4. V(z) = IF s = 1 THEN -(i * o) ELSE i * o
          <5> HIDE DEF z
          <5>1. QED BY <4>3, ValueIs
        <4>5. (-i) * o = -(i * o)
          <5>1. o \in Nat
            BY UnitsAre
          <5> HIDE DEF o, i
          <5>2. QED BY <2>2, <5>1, Z3T(60)
        <4>6. V(z) = k * o
          <5> HIDE DEF z
          <5>1. CASE s = 1
            BY <4>4, <4>5, <5>1
          <5>2. CASE s # 1
            BY <4>4, <5>2
          <5>3. QED BY <5>1, <5>2
        <4>7. QED BY <4>3, <4>6
      <3>3. QED BY <3>1, <3>2
    <2>5. i = IF Rest(x) = 0 THEN i ELSE i + (IF RoundsUp("trunc", x) THEN 1 ELSE 0)
      <3>1. ~RoundsUp("trunc", x)
        BY DEF RoundsUp
      <3>2. QED BY <2>2, <3>1
    <2>6. k = (IF SignBit(x) = 1 THEN -i ELSE i) /\ k \in Int /\ i = IntPart(x)
      BY <2>2
    <2> HIDE DEF z, k, i
    <2>7. z = Integral("trunc", x)
      BY <2>1, <2>2, <2>4, <2>5, <2>6, IsRounded
    <2>8. QED BY <1>3, <1>5, <2>7
  <1>6. QED BY <1>4, <1>5

\* The magnitude of a float has its parts.
LEMMA MagnitudeAlike ==
  ASSUME NEW x, Finite(x)
  PROVE  /\ Finite(AbsBits(x)) /\ SignBit(AbsBits(x)) = 0
         /\ Sig(AbsBits(x)) = Sig(x) /\ Pow(AbsBits(x)) = Pow(x)
         /\ Exponent(AbsBits(x)) = Exponent(x)
         /\ IntPart(AbsBits(x)) = IntPart(x) /\ Rest(AbsBits(x)) = Rest(x)
  <1>1. x \in Patterns /\ AbsBits(x) \in 0 .. Infinity - 1
    BY ValueIs
  <1>2. AbsBits(x) \in 0 .. SignWeight - 1
    BY <1>1, PatternParts
  <1>3. AbsBits(x) \in Patterns /\ SignBit(AbsBits(x)) = 0 /\ AbsBits(AbsBits(x)) = AbsBits(x)
    <2> DEFINE a == AbsBits(x)
    <2> HIDE DEF a
    <2>1. a \in 0 .. SignWeight - 1
      BY <1>2 DEF a
    <2>2. SignBit(a) = 0 /\ AbsBits(a) = a /\ a \in Patterns
      <3>1. 0 \in 0 .. 1
        OBVIOUS
      <3>2. QED BY <2>1, <3>1, SignedPattern
    <2>3. QED BY <2>2 DEF a
  <1>4. Sig(AbsBits(x)) = Sig(x) /\ Pow(AbsBits(x)) = Pow(x) /\ Exponent(AbsBits(x)) = Exponent(x)
    BY <1>1, SigPow, MagnitudeParts
  <1>5. IntPart(AbsBits(x)) = IntPart(x) /\ Rest(AbsBits(x)) = Rest(x)
    BY <1>4 DEF IntPart, Rest, Parts, UnitsIn
  <1>6. Finite(AbsBits(x))
    BY <1>3 DEF Finite
  <1>7. QED BY <1>3, <1>4, <1>5, <1>6

\* round away from the float's neighbour only when a tie went down.
LEMMA RoundedMagnitude ==
  ASSUME NEW a, Finite(a), Pow(a) < UnitBits, SignBit(a) = 0, Exponent(a) >= Bias - 1,
         NEW y, y = Difference(Neighbour(a), a),
         NEW n, n = IF Below(Half, y) THEN Difference(Plus(y, a), One)
                    ELSE IF ~Below(Negated(Half), y) THEN Plus(Plus(y, a), One)
                    ELSE Plus(y, a),
         NEW j, j = IntPart(a) + (IF 2 * Rest(a) >= OneUnits THEN 1 ELSE 0)
  PROVE  /\ Finite(n) /\ SignBit(n) = 0 /\ V(n) = j * OneUnits
         /\ IntPart(a) \in 0 .. Hidden - 1 /\ j \in 0 .. Hidden
  <1> DEFINE o == OneUnits  i == IntPart(a)  g == Rest(a)  k == Even(a)  p == Plus(y, a)
             h == V(Half)  w == V(y)
  <1>1. /\ i \in 0 .. Hidden - 1 /\ g \in 0 .. o - 1
        /\ (k = i \/ k = i + 1) /\ (k = i => 2 * g <= o) /\ (k = i + 1 => 2 * g >= o)
    BY Parting
  <1>2. Hidden \in Nat /\ Hidden >= 2 /\ o \in Nat \ {0}
    BY Format, UnitsAre
  <1>3. /\ Finite(y) /\ w = (IF k = i THEN -g ELSE o - g)
        /\ k \in -Hidden .. Hidden /\ Finite(p) /\ V(p) = k * o /\ SignBit(p) = 0
    <2>1. p \in {Plus(a, y), Plus(y, a)}
      OBVIOUS
    <2>2. k = IF SignBit(a) = 1 THEN -Even(a) ELSE Even(a)
      OBVIOUS
    <2> HIDE DEF p, k
    <2>3. QED BY <2>1, <2>2, GapIs DEF k
  <1>4. /\ Finite(Plus(p, One)) /\ V(Plus(p, One)) = (k + 1) * o
        /\ (k # -1 => SignBit(Plus(p, One)) = IF k + 1 < 0 THEN 1 ELSE 0)
    <2> HIDE DEF p, k
    <2>1. QED BY <1>3, OneStep
  <1>5. Finite(Half) /\ 2 * h = o /\ Half \in Patterns /\ h \in Int
    BY FixedFloats, ValueIs
  <1>6. Finite(Negated(Half)) /\ V(Negated(Half)) = -h
    BY <1>5, NegatedIs
  <1>7. (Below(Half, y) <=> h < w) /\ (Below(Negated(Half), y) <=> -h < w)
    BY <1>3, <1>5, <1>6, BelowIs
  <1>8. i \in Nat /\ g \in Nat /\ j = i + (IF 2 * g >= o THEN 1 ELSE 0)
    BY <1>1, <1>2
  <1> HIDE DEF o, i, g, k, p, h, w
  <1>9. ~(h < w) /\ (~(-h < w) => k = i /\ 2 * g >= o) /\ (-h < w => k = j)
    <2>1. CASE k = i
      <3>1. w = -g /\ 2 * g <= o
        BY <1>1, <1>3, <2>1
      <3>2. (-h < w <=> 2 * g < o) /\ ~(h < w)
        BY <1>2, <1>5, <1>8, <3>1
      <3>3. 2 * g < o => k = j
        BY <1>2, <1>8, <2>1
      <3>4. QED BY <1>2, <1>8, <2>1, <3>2, <3>3
    <2>2. CASE k = i + 1
      <3>1. w = o - g /\ 2 * g >= o
        <4>1. k # i
          BY <1>8, <2>2
        <4>2. QED BY <1>1, <1>3, <2>2, <4>1
      <3>2. -h < w /\ ~(h < w) /\ k = j
        BY <1>1, <1>2, <1>5, <1>8, <2>2, <3>1
      <3>3. QED BY <3>2
    <2>3. QED BY <1>1, <2>1, <2>2
  <1>10. j \in 0 .. Hidden
    BY <1>1, <1>2, <1>8
  <1>11. CASE -h < w
    <2>1. n = p /\ k = j
      BY <1>7, <1>9, <1>11 DEF p
    <2>2. QED BY <1>1, <1>3, <1>10, <2>1 DEF o, i
  <1>12. CASE ~(-h < w)
    <2>1. n = Plus(p, One)
      BY <1>7, <1>9, <1>12 DEF p
    <2>2. k + 1 = j /\ k # -1 /\ ~(k + 1 < 0)
      BY <1>8, <1>9, <1>12
    <2>3. V(n) = j * o /\ SignBit(n) = 0 /\ Finite(n)
      BY <1>4, <2>1, <2>2
    <2>4. QED BY <1>1, <1>10, <2>3 DEF o, i
  <1>13. QED BY <1>11, <1>12

\* round rounds halves away from zero.
LEMMA RoundIs ==
  ASSUME NEW x \in Patterns
  PROVE  round(x) = Integral("round", x)
  <1> DEFINE s == SignBit(x)  o == OneUnits  i == IntPart(x)  g == Rest(x)  a == AbsBits(x)
             y == Difference(Neighbour(a), a)
             n == IF Below(Half, y) THEN Difference(Plus(y, a), One)
                  ELSE IF ~Below(Negated(Half), y) THEN Plus(Plus(y, a), One)
                  ELSE Plus(y, a)
             j == i + (IF 2 * g >= o THEN 1 ELSE 0)
             z == IF Exponent(x) < Bias - 1 THEN WithSign(s, Zero)
                  ELSE IF s = 1 THEN Negated(n) ELSE n
  <1>1. Exponent(x) \in 0 .. ExpMax /\ ExpMax \in Nat /\ Bias \in Nat /\ MantBits \in Nat
        /\ Hidden \in Nat /\ o \in Nat \ {0}
    BY MagnitudeParts, Format, UnitsAre
  <1>2. round(x) = IF Exponent(x) >= Bias + MantBits THEN x ELSE z
    BY DEF round
  <1>3. CASE Exponent(x) >= Bias + MantBits
    <2>1. Whole(x)
      BY <1>3, BelowLimit
    <2>2. QED BY <1>2, <1>3, <2>1 DEF Integral
  <1>4. CASE ~(Exponent(x) >= Bias + MantBits)
    <2>1. Finite(x) /\ Pow(x) < UnitBits
      BY <1>1, <1>4, BelowLimit
    <2>2. s \in 0 .. 1
      BY <2>1, ValueIs
    <2>3. i \in 0 .. Hidden - 1 /\ i * o \in Nat /\ g \in 0 .. o - 1 /\ Mag(x) = i * o + g
          /\ (2 * Parts(x) >= UnitsIn(x) <=> 2 * g >= o)
      BY <2>1, Parting
    <2>4. j \in 0 .. Hidden /\ Finite(z) /\ SignBit(z) = s /\ V(z) = IF s = 1 THEN -(j * o) ELSE j * o
      <3>1. CASE Exponent(x) < Bias - 1
        <4>1. i = 0 /\ g = Mag(x) /\ 2 * Mag(x) < o
          BY <1>1, <2>1, <3>1, AgainstOne
        <4>2. j = 0
          <5> HIDE DEF i, g, o
          <5>1. 2 * g < o /\ g \in Nat
            BY <1>1, <2>3, <4>1
          <5>2. ~(2 * g >= o)
            BY <1>1, <5>1
          <5>3. QED BY <4>1, <5>2
        <4>3. z = IntegerFloat(s, 0)
          <5>1. Nearest(0, UnitBits) = 0
            BY DEF Nearest
          <5>2. QED BY <3>1, <5>1 DEF IntegerFloat, Zero
        <4>4. 0 \in 0 .. Hidden
          BY <1>1
        <4> HIDE DEF j, z, s
        <4>5. QED BY <2>2, <4>2, <4>3, <4>4, IntegerFloatIs
      <3>2. CASE ~(Exponent(x) < Bias - 1)
        <4>1. Finite(a) /\ SignBit(a) = 0 /\ Pow(a) = Pow(x) /\ Exponent(a) = Exponent(x)
              /\ IntPart(a) = i /\ Rest(a) = g
          BY <2>1, MagnitudeAlike
        <4>2. Exponent(a) >= Bias - 1 /\ Pow(a) < UnitBits
          BY <1>1, <2>1, <3>2, <4>1
        <4>3. j = IntPart(a) + (IF 2 * Rest(a) >= OneUnits THEN 1 ELSE 0)
          BY <4>1
        <4>4. Finite(n) /\ SignBit(n) = 0 /\ V(n) = j * o /\ j \in 0 .. Hidden
          <5> DEFINE nn == n  yy == y
          <5>1. /\ yy = Difference(Neighbour(a), a)
                /\ nn = IF Below(Half, yy) THEN Difference(Plus(yy, a), One)
                        ELSE IF ~Below(Negated(Half), yy) THEN Plus(Plus(yy, a), One)
                        ELSE Plus(yy, a)
            OBVIOUS
          <5> HIDE DEF nn, yy, a, j
          <5>2. Finite(nn) /\ SignBit(nn) = 0 /\ V(nn) = j * OneUnits /\ j \in 0 .. Hidden
            BY <4>1, <4>2, <4>3, <5>1, RoundedMagnitude
          <5>3. QED BY <5>2 DEF nn
        <4> HIDE DEF n, j
        <4>5. n \in Patterns
          BY <4>4 DEF Finite
        <4>6. Finite(Negated(n)) /\ V(Negated(n)) = -V(n) /\ SignBit(Negated(n)) = 1
          BY <4>4, <4>5, NegatedIs
        <4>7. z = IF s = 1 THEN Negated(n) ELSE n
          BY <3>2
        <4> HIDE DEF z, s
        <4>8. QED BY <2>2, <4>4, <4>6, <4>7
      <3>3. QED BY <3>1, <3>2
    <2>5. j = IF Rest(x) = 0 THEN IntPart(x)
              ELSE IntPart(x) + (IF RoundsUp("round", x) THEN 1 ELSE 0)
      <3>1. RoundsUp("round", x) <=> 2 * g >= o
        BY <2>3 DEF RoundsUp
      <3>2. g = 0 => j = i
        <4> HIDE DEF g, o, i
        <4>1. i \in Int
          BY <1>1, <2>3
        <4>2. QED BY <1>1, <4>1
      <3>3. QED BY <3>1, <3>2
    <2> HIDE DEF z, j
    <2>6. z = Integral("round", x)
      BY <2>1, <2>4, <2>5, IsIntegral
    <2>7. QED BY <1>2, <1>4, <2>6
  <1>5. QED BY <1>3, <1>4

\* What modf returns.
SplitInC(x) ==
  <<IF IsNaN(x) THEN x
    ELSE WithSign(SignBit(x), IF Whole(x) THEN Zero ELSE Nearest(Parts(x), Pow(x))),
    Integral("trunc", x)>>

\* modf splits a float into that of trunc and an exact rest.
LEMMA ModfIs ==
  ASSUME NEW x \in Patterns
  PROVE  modf(x) = SplitInC(x)
  <1> DEFINE s == SignBit(x)  e == Exponent(x) - Bias  none == WithSign(s, Zero)
             c == TwoTo[MantBits - e]  f == x % c  o == OneUnits
  <1>1. Exponent(x) \in 0 .. ExpMax /\ ExpMax \in Nat /\ Bias \in Nat /\ MantBits \in Nat
        /\ Hidden \in Nat /\ ExpMax = 2 * Bias + 1 /\ Bias >= 3 * MantBits + 6 /\ Hidden >= 2
    BY MagnitudeParts, Format
  <1>2. e >= MantBits <=> Exponent(x) >= Bias + MantBits
    BY <1>1
  <1>3. trunc(x) = Integral("trunc", x)
    BY TruncIs
  <1>4. modf(x) = IF e >= MantBits
                    THEN <<IF e = Bias + 1 /\ Mantissa(x) # 0 THEN x ELSE none, x>>
                  ELSE IF e < 0 THEN <<x, none>>
                  ELSE IF f = 0 THEN <<none, x>>
                  ELSE <<Difference(x, x - f), x - f>>
    BY DEF modf
  <1>5. CASE e >= MantBits
    <2>1. Whole(x)
      BY <1>2, <1>5, BelowLimit
    <2>2. Integral("trunc", x) = x
      BY <2>1 DEF Integral
    <2>3. IsNaN(x) <=> e = Bias + 1 /\ Mantissa(x) # 0
      <3>1. e = Bias + 1 <=> Exponent(x) = ExpMax
        BY <1>1
      <3>2. QED BY <3>1, Kinds
    <2> HIDE DEF e
    <2>4. QED BY <1>4, <1>5, <2>1, <2>2, <2>3 DEF SplitInC
  <1>6. ASSUME ~(e >= MantBits) PROVE modf(x) = SplitInC(x)
    <2>1. Finite(x) /\ Pow(x) < UnitBits
      BY <1>1, <1>2, <1>6, BelowLimit
    <2>2. ~IsNaN(x) /\ s \in 0 .. 1
      BY <2>1, ValueIs
    <2>3. CASE e < 0
      <3>1. modf(x) = <<x, none>>
        BY <1>4, <1>6, <2>3
      <3>2. IntPart(x) = 0 /\ Rest(x) = Mag(x)
        BY <1>1, <2>1, <2>3, AgainstOne
      <3>3. Integral("trunc", x) = none
        <4>1. TwoTo[IF e < 0 THEN ExpBits + MantBits ELSE MantBits - e] = SignWeight
          BY <2>3 DEF SignWeight
        <4>2. trunc(x) = x - AbsBits(x)
          BY <1>6, <4>1 DEF trunc, AbsBits
        <4>3. x = (IF s = 1 THEN SignWeight + AbsBits(x) ELSE AbsBits(x)) /\ AbsBits(x) \in Int
              /\ SignWeight \in Int /\ SignWeight >= 1
          BY PatternParts, Format
        <4>4. none = IF s = 1 THEN SignWeight + 0 ELSE 0
          <5>1. 0 \in 0 .. SignWeight - 1
            BY <4>3
          <5> HIDE DEF s
          <5>2. QED BY <2>2, <5>1, SignedPattern DEF Zero
        <4>5. x - AbsBits(x) = none
          <5> HIDE DEF s, none
          <5>1. QED BY <4>3, <4>4
        <4>6. QED BY <1>3, <4>2, <4>5
      <3>4. CASE Whole(x)
        <4>1. Rest(x) = 0
          BY <2>1, <3>4, Parting
        <4>2. AbsBits(x) = 0
          BY <3>2, <4>1, <2>1, MagIs, ValueIs
        <4>3. x = none
          BY PatternParts, <4>2 DEF Zero
        <4>4. QED BY <2>2, <3>1, <3>3, <3>4, <4>3 DEF SplitInC
      <3>5. CASE ~Whole(x)
        <4>1. Parts(x) = Sig(x)
          <5>1. Sig(x) = UnitsIn(x) * IntPart(x) + Parts(x) /\ UnitsIn(x) \in Nat \ {0}
                /\ Parts(x) \in 0 .. UnitsIn(x) - 1
            BY <2>1, Pieces
          <5> DEFINE u == UnitsIn(x)  r == Parts(x)  i == IntPart(x)
          <5> HIDE DEF u, r, i
          <5>2. u \in Nat \ {0} /\ r \in 0 .. u - 1 /\ i = 0 /\ Sig(x) = u * i + r
            BY <3>2, <5>1 DEF u, r, i
          <5>3. u * i = 0
            BY <5>2
          <5>4. Sig(x) = r
            BY <5>2, <5>3
          <5>5. QED BY <5>4 DEF r
        <4>2. Nearest(Parts(x), Pow(x)) = AbsBits(x)
          BY <2>1, <4>1, NearestSig DEF Finite
        <4>3. WithSign(s, Nearest(Parts(x), Pow(x))) = x
          BY <4>2, PatternParts
        <4>4. QED BY <2>2, <3>1, <3>3, <3>5, <4>3 DEF SplitInC
      <3>6. QED BY <3>4, <3>5
    <2>4. CASE ~(e < 0)
      <3>1. Exponent(x) >= Bias
        BY <1>1, <2>4
      <3>2. f = Parts(x)
        BY <2>1, <3>1, ClearedIs
      <3>3. modf(x) = IF f = 0 THEN <<none, x>> ELSE <<Difference(x, x - f), x - f>>
        BY <1>4, <1>6, <2>4
      <3>4. Whole(x) <=> f = 0
        BY <2>1, <3>2, Pieces
      <3>5. CASE f = 0
        <4>1. Integral("trunc", x) = x
          BY <3>4, <3>5 DEF Integral
        <4>2. QED BY <2>2, <3>3, <3>4, <3>5, <4>1 DEF SplitInC
      <3>6. CASE f # 0
        <4> DEFINE z == x - f  r == Parts(x)  t == TwoTo[Pow(x)]  g == r * t  i == IntPart(x)
                   d == Difference(x, z)
                   n == IF s = 1 THEN -g ELSE g
        <4>1. Integral("trunc", x) = z
          <5>1. TwoTo[IF e < 0 THEN ExpBits + MantBits ELSE MantBits - e] = c
            BY <2>4
          <5>2. trunc(x) = z
            <6> HIDE DEF c
            <6>1. trunc(x) = x - (x % c)
              BY <1>6, <5>1 DEF trunc, c
            <6>2. QED BY <6>1
          <5>3. QED BY <1>3, <5>2
        <4>2. Finite(z) /\ SignBit(z) = s /\ Mag(z) = i * o
          BY <2>1, <3>1, <3>2, ClearedIs
        <4>3. /\ r \in Nat /\ r # 0 /\ t \in Nat \ {0} /\ g \in 0 .. o - 1 /\ g # 0
              /\ Mag(x) = i * o + g /\ UnitsIn(x) \in Nat /\ r < UnitsIn(x) /\ i * o \in Nat
              /\ o \in Nat
          <5>1. /\ UnitsIn(x) \in Nat \ {0} /\ r \in 0 .. UnitsIn(x) - 1 /\ t \in Nat \ {0}
                /\ g \in 0 .. o - 1 /\ (g = 0 <=> r = 0) /\ Mag(x) = i * o + g
            BY <2>1, Pieces
          <5>2. i * o \in Nat /\ r # 0 /\ o \in Nat
            BY <2>1, <3>2, <3>6, Parting, UnitsAre
          <5> HIDE DEF r, t, g, i, o
          <5>3. QED BY <5>1, <5>2
        <4>4. Exact(g) /\ g \in Nat
          <5>1. UnitsIn(x) <= Hidden
            <6>1. Pow(x) = Exponent(x) - 1
              <7>1. Exponent(x) # 0
                BY <1>1, <3>1
              <7>2. QED BY <7>1, SigPow
            <6>2. UnitBits - Pow(x) <= MantBits /\ UnitBits - Pow(x) \in Nat
              <7>1. UnitBits = Bias - 1 + MantBits
                BY UnitsAre
              <7>2. QED BY <1>1, <2>1, <3>1, <6>1, <7>1
            <6>3. QED BY <1>1, <6>2, TwoToGrows DEF UnitsIn, Hidden
          <5>2. r \in 0 .. 2 * Hidden
            <6> HIDE DEF r
            <6>1. QED BY <1>1, <4>3, <5>1
          <5>3. g <= OneUnits /\ Pow(x) \in Nat
            <6>1. Pow(x) \in Nat
              BY SigPow, <1>1
            <6> HIDE DEF g
            <6>2. QED BY <4>3, <6>1
          <5> DEFINE gg == g
          <5>4. gg = r * TwoTo[Pow(x)]
            OBVIOUS
          <5> HIDE DEF gg, r
          <5>5. QED BY <5>2, <5>3, <5>4, ExactBelow DEF gg
        <4>5. n = V(x) - V(z) /\ (IF n < 0 THEN -n ELSE n) = g /\ n # 0 /\ (n < 0 <=> s = 1)
          <5>1. V(x) = (IF s = 1 THEN -Mag(x) ELSE Mag(x)) /\ V(z) = IF s = 1 THEN -Mag(z) ELSE Mag(z)
            BY <2>1, <4>2, ValueIs
          <5> DEFINE b == i * o
          <5>2. Mag(x) = b + g /\ Mag(z) = b /\ b \in Nat /\ g \in Nat /\ g # 0
            BY <4>2, <4>3, <4>4
          <5>3. n = IF s = 1 THEN -g ELSE g
            OBVIOUS
          <5> HIDE DEF b, g, n, z, s
          <5>4. CASE s = 1
            BY <5>1, <5>2, <5>3, <5>4
          <5>5. CASE s # 1
            BY <5>1, <5>2, <5>3, <5>5
          <5>6. QED BY <5>4, <5>5
        <4>6. Finite(d) /\ V(d) = n /\ SignBit(d) = IF n < 0 THEN 1 ELSE 0
          <5> HIDE DEF n, z, g
          <5>1. n = V(x) - V(z) /\ Exact(IF n < 0 THEN -n ELSE n) /\ n # 0
            BY <4>4, <4>5
          <5>2. QED BY <2>1, <4>2, <5>1, DifferenceExact
        <4>7. SignBit(d) = s
          <5> HIDE DEF n, d, s
          <5>1. QED BY <2>2, <4>5, <4>6 DEF s
        <4>8. Mag(d) = g
          <5> HIDE DEF n, d, g
          <5>1. (IF V(d) < 0 THEN -V(d) ELSE V(d)) = Mag(d)
            BY <4>6, ValueIs
          <5>2. QED BY <4>5, <4>6, <5>1
        <4>9. Nearest(r, Pow(x)) = AbsBits(d)
          <5>1. Pow(x) \in Nat
            BY SigPow, <1>1
          <5>2. Nearest(r, Pow(x)) = ToNearest(g)
            <6> HIDE DEF r
            <6>1. QED BY <4>3, <5>1, NearestUp
          <5> HIDE DEF d, g
          <5>3. ToNearest(Mag(d)) = AbsBits(d)
            BY <4>6, NearestSig DEF Finite
          <5>4. QED BY <4>8, <5>2, <5>3
        <4>10. d = WithSign(s, AbsBits(d))
          <5> HIDE DEF d
          <5>1. d \in Patterns
            BY <4>6 DEF Finite
          <5>2. QED BY <4>7, <5>1, PatternParts
        <4>11. modf(x) = <<d, z>>
          BY <3>3, <3>6
        <4> HIDE DEF d, z, f
        <4>12. ~Whole(x)
          BY <3>4, <3>6
        <4>13. QED BY <2>2, <4>1, <4>9, <4>10, <4>11, <4>12 DEF SplitInC
      <3>7. QED BY <3>5, <3>6
    <2>5. QED BY <2>3, <2>4
  <1>7. QED BY <1>5, <1>6

-----------------------------------------------------------------------------
(* Scaling by powers of two.                                               *)

\* A float's bits moved up stay as they are, until they leave the range.
LEMMA SigMovedUp ==
  ASSUME NEW n \in 1 .. 2 * Hidden - 1, NEW k \in Nat, NEW p, p = LastPlace(n, k),
         NEW S, S = n * TwoTo[k - p], NEW a, a = Nearest(n, k)
  PROVE  /\ p \in 0 .. k /\ S \in 1 .. 2 * Hidden - 1 /\ (p > 0 => S >= Hidden)
         /\ p = IF k + BitLength(n) > MantBits + 1 THEN k + BitLength(n) - (MantBits + 1) ELSE 0
         /\ BitLength(n) \in 1 .. MantBits + 1
         /\ p <= ExpMax - 2 => a < Infinity /\ a \in Patterns /\ Sig(a) = S /\ Pow(a) = p
         /\ p > ExpMax - 2 => a = Infinity
  <1> DEFINE h == Hidden  M == MantBits  b == BitLength(n)  B == TwoTo[b]  C == TwoTo[b - 1]
             t == TwoTo[k - p]
  <1>1. h \in Nat /\ h >= 2 /\ M \in Nat \ {0} /\ ExpMax \in Nat /\ Infinity = h * ExpMax
        /\ Infinity \in Nat /\ ExpMax >= 3
    <2>1. ExpMax = 2 * Bias + 1 /\ Bias \in Nat /\ Bias >= 3 * MantBits + 6
      BY Format
    <2>2. h \in Nat /\ h >= 2 /\ M \in Nat \ {0} /\ ExpMax \in Nat /\ Infinity = h * ExpMax
          /\ Infinity \in Nat
      BY Format
    <2> HIDE DEF h
    <2>3. QED BY <2>1, <2>2
  <1>2. n \in Nat \ {0} /\ n < 2 * h
    BY <1>1
  <1>3. b \in Nat \ {0} /\ n < B /\ C <= n /\ B \in Nat /\ C \in Nat
    <2>1. b \in 1 .. n /\ n < B /\ C <= n
      BY <1>2, BitLengthIs
    <2>2. b \in Nat \ {0}
      BY <1>2, <2>1
    <2>3. QED BY <2>1, <2>2, TwoToTwice
  <1>4. TwoTo[M + 1] = 2 * h /\ TwoTo[M] = h
    BY <1>1, TwoToIs DEF Hidden
  <1>5. b <= M + 1
    <2>1. M + 1 <= b - 1 => TwoTo[M + 1] <= C
      BY <1>1, <1>3, TwoToGrows
    <2>2. QED BY <1>1, <1>2, <1>3, <1>4, <2>1
  <1>6. p = IF k + b > M + 1 THEN k + b - (M + 1) ELSE 0
    <2>1. p = IF k + b - (M + 1) > 0 THEN k + b - (M + 1) ELSE 0
      BY DEF LastPlace, Greater
    <2>2. QED BY <1>1, <1>3, <2>1
  <1>7. p \in 0 .. k /\ k - p \in Nat
    BY <1>1, <1>3, <1>5, <1>6
  <1>8. t \in Nat \ {0} /\ n * t < B * t /\ C * t <= n * t /\ n * t \in Nat /\ n * t >= 1
    <2>1. t \in Nat \ {0}
      BY <1>7, TwoToIs
    <2> HIDE DEF t, B, C
    <2>2. QED BY <1>2, <1>3, <2>1, Z3T(60)
  <1>9. B * t = TwoTo[b + (k - p)] /\ C * t = TwoTo[(b - 1) + (k - p)]
    <2>1. b \in Nat /\ b - 1 \in Nat
      BY <1>3
    <2>2. QED BY <1>7, <2>1, TwoToAdds
  <1>10. S < 2 * h
    <2>1. b + (k - p) <= M + 1 /\ b + (k - p) \in Nat /\ M + 1 \in Nat
      BY <1>1, <1>3, <1>6, <1>7
    <2>2. TwoTo[b + (k - p)] <= TwoTo[M + 1]
      BY <2>1, TwoToGrows
    <2>3. B * t <= 2 * h /\ B * t \in Nat
      BY <1>4, <1>9, <2>1, <2>2, TwoToIs
    <2> DEFINE bt == B * t
    <2> HIDE DEF bt
    <2>4. S < bt /\ bt <= 2 * h /\ bt \in Nat /\ S \in Nat
      BY <1>8, <2>3 DEF bt
    <2>5. QED BY <1>1, <2>4
  <1>11. p > 0 => S >= h
    <2>1. p > 0 => (b - 1) + (k - p) = M
      BY <1>1, <1>3, <1>6, <1>7
    <2>2. p > 0 => C * t = h
      BY <1>4, <1>9, <2>1
    <2>3. QED BY <1>8, <2>2
  <1>12. S \in 1 .. 2 * h - 1 /\ S \in Nat
    BY <1>1, <1>8, <1>10
  <1> HIDE DEF t, B, C, b, h
  <1>13. a = Lesser(p * Hidden + S, Infinity)
    <2>1. p <= k /\ k \in Int
      BY <1>7
    <2>2. QED BY <1>2, <2>1, NearestIs
  <1> DEFINE c == p * h + S
  <1>14. c \in Nat /\ (a = IF c < Infinity THEN c ELSE Infinity)
    <2>1. p * h \in Nat
      BY <1>1, <1>7, Z3T(60)
    <2>2. c \in Nat
      BY <1>12, <2>1
    <2>3. QED BY <1>13, <2>2 DEF Lesser, h
  <1>15. ASSUME p <= ExpMax - 2
         PROVE  c < Infinity /\ c \in Patterns /\ Sig(c) = S /\ Pow(c) = p
    <2>1. CASE p = 0
      <3>1. c = S
        <4>1. 0 * h = 0
          BY <1>1
        <4>2. QED BY <1>12, <2>1, <4>1
      <3>2. S \in 0 .. 2 * Hidden - 1
        BY <1>1, <1>12 DEF h
      <3>3. S \in 0 .. Infinity - 1 /\ S \in Patterns /\ Sig(S) = S /\ Pow(S) = 0
        BY <3>2, SmallMag
      <3>4. QED BY <1>1, <2>1, <3>1, <3>3
    <2>2. CASE p # 0
      <3> DEFINE e == p + 1  m == S - h
      <3>1. e \in 0 .. ExpMax /\ m \in 0 .. h - 1 /\ e # 0 /\ e # ExpMax /\ S >= h
        BY <1>1, <1>7, <1>11, <1>12, <1>15, <2>2
      <3>2. h * e + m = c
        <4>1. h * (p + 1) = p * h + h /\ p * h \in Nat
          BY <1>1, <1>7, Z3T(60)
        <4> DEFINE q == p * h
        <4> HIDE DEF q
        <4>2. h * e = q + h /\ q \in Nat
          BY <4>1 DEF q
        <4>3. (q + h) + m = q + S
          BY <1>1, <1>12, <4>2
        <4>4. QED BY <4>2, <4>3 DEF q
      <3> HIDE DEF c, e, m
      <3>3. c \in Patterns /\ Exponent(c) = e /\ Mantissa(c) = m /\ c \in 0 .. SignWeight - 1
        BY <3>1, <3>2, FromParts DEF h
      <3>4. AbsBits(c) = c
        <4>1. 0 \in 0 .. 1
          OBVIOUS
        <4>2. QED BY <3>3, <4>1, SignedPattern
      <3>5. c < Infinity
        BY <1>1, <1>14, <3>1, <3>3, <3>4, Kinds
      <3>6. Sig(c) = h + m /\ Pow(c) = e - 1
        BY <3>1, <3>3, SigPow DEF h
      <3>7. h + m = S /\ e - 1 = p
        BY <1>1, <1>7, <1>12 DEF m, e
      <3>8. QED BY <3>3, <3>5, <3>6, <3>7
    <2>3. QED BY <2>1, <2>2
  <1>16. p > ExpMax - 2 => a = Infinity
    <2>1. p > ExpMax - 2 => p >= ExpMax - 1 /\ S >= h
      BY <1>1, <1>7, <1>11
    <2>2. p >= ExpMax - 1 => p * h >= (ExpMax - 1) * h
      BY <1>1, <1>7, Z3T(60)
    <2>3. (ExpMax - 1) * h = h * ExpMax - h /\ p * h \in Nat
      BY <1>1, <1>7, Z3T(60)
    <2> DEFINE q == p * h  i == h * ExpMax
    <2> HIDE DEF q, i
    <2>4. (p >= ExpMax - 1 => q >= i - h) /\ Infinity = i /\ c = q + S /\ q \in Nat
      BY <1>1, <2>2, <2>3 DEF q, i
    <2>5. p > ExpMax - 2 => ~(c < Infinity)
      BY <1>1, <1>12, <2>1, <2>4
    <2>6. QED BY <1>14, <2>5
  <1>17. QED BY <1>5, <1>3, <1>6, <1>7, <1>11, <1>12, <1>14, <1>15, <1>16, <1>1 DEF h, b

\* At most half of the smallest float is rounded to zero.
LEMMA NearestToZero ==
  ASSUME NEW n \in Nat, NEW k \in Int, NEW d \in Nat, d <= -k, 2 * n <= TwoTo[d]
  PROVE  Nearest(n, k) = 0
  <1>1. CASE n = 0
    BY <1>1 DEF Nearest
  <1>2. CASE n # 0
    <2> DEFINE b == BitLength(n)  p == LastPlace(n, k)  t == TwoTo[-k]
    <2>1. -k \in Nat /\ t \in Nat \ {0} /\ 2 * n <= t
      <3>1. -k \in Nat
        OBVIOUS
      <3>2. TwoTo[d] <= t /\ t \in Nat \ {0} /\ TwoTo[d] \in Nat
        BY <3>1, TwoToGrows, TwoToIs
      <3> HIDE DEF t
      <3>3. QED BY <3>1, <3>2
    <2>2. b \in Nat \ {0} /\ TwoTo[b - 1] <= n
      <3>1. b \in 1 .. n /\ TwoTo[b - 1] <= n
        BY <1>2, BitLengthIs
      <3>2. QED BY <3>1
    <2>3. b <= -k
      <3>1. TwoTo[b] <= t
        <4>1. TwoTo[b] = 2 * TwoTo[b - 1] /\ TwoTo[b - 1] \in Nat
          BY <2>2, TwoToTwice
        <4> HIDE DEF t, b
        <4>2. QED BY <2>1, <2>2, <4>1
      <3>2. -k < b => 2 * t <= TwoTo[b]
        BY <2>1, <2>2, TwoToGrows
      <3>3. TwoTo[b] \in Nat
        BY <2>2, TwoToTwice
      <3> HIDE DEF t, b
      <3>4. QED BY <2>1, <2>2, <3>1, <3>2, <3>3
    <2>4. MantBits \in Nat \ {0}
      BY Format
    <2>5. p = 0
      <3>1. p = IF k + b - (MantBits + 1) > 0 THEN k + b - (MantBits + 1) ELSE 0
        BY DEF LastPlace, Greater
      <3> HIDE DEF p, b
      <3>2. QED BY <2>2, <2>3, <2>4, <3>1
    <2>6. k # 0
      <3>1. k = 0 => FALSE
        BY <2>2, <2>3
      <3>2. QED BY <3>1
    <2>7. p > k /\ p - k = -k
      BY <2>1, <2>5, <2>6
    <2> HIDE DEF p, t
    <2>8. n = t * 0 + n /\ n < t
      BY <1>2, <2>1
    <2>9. Nearest(n, k) = Lesser(p * Hidden + 0 + Carry(0, n, t), Infinity)
      <3>1. TwoTo[p - k] = t
        BY <2>7 DEF t
      <3>2. n \in Nat \ {0} /\ 0 \in Nat
        BY <1>2
      <3>3. \A q \in Nat, r \in Nat :
              n = TwoTo[p - k] * q + r /\ r < TwoTo[p - k] =>
                Nearest(n, k) = Lesser(p * Hidden + q + Carry(q, r, TwoTo[p - k]), Infinity)
        BY <2>7, <3>2, NearestIs DEF p
      <3>4. QED BY <2>8, <3>1, <3>2, <3>3
    <2>10. Carry(0, n, t) = 0
      <3>1. 0 % 2 = 0
        OBVIOUS
      <3>2. QED BY <2>1, <3>1 DEF Carry
    <2>11. 0 * Hidden + 0 + 0 = 0 /\ Infinity \in Nat
      BY Format
    <2>12. QED BY <2>5, <2>9, <2>10, <2>11 DEF Lesser
  <1>3. QED BY <1>1, <1>2

\* A float's bits moved down below the last place leave a small number.
LEMMA SigMovedDown ==
  ASSUME NEW n \in 1 .. 2 * Hidden - 1, NEW k \in Int, k < 0, NEW a, a = Nearest(n, k)
  PROVE  a \in 0 .. Hidden /\ a < Infinity /\ Sig(a) = a /\ Pow(a) = 0
  <1> DEFINE h == Hidden  M == MantBits  b == BitLength(n)  p == LastPlace(n, k)
             d == p - k  t == TwoTo[d]  q == n \div t  r == n % t
             c == Carry(q, r, t)
  <1>1. h \in Nat /\ h >= 2 /\ M \in Nat \ {0}
    BY Format
  <1>2. n \in Nat \ {0} /\ n < 2 * h
    BY <1>1
  <1>3. b \in 1 .. M + 1
    BY SigMovedUp
  <1>4. p = 0
    <2>1. p = IF k + b - (M + 1) > 0 THEN k + b - (M + 1) ELSE 0
      BY DEF LastPlace, Greater
    <2> HIDE DEF p, b
    <2>2. QED BY <1>1, <1>3, <2>1
  <1>5. d \in Nat \ {0} /\ p > k
    <2> HIDE DEF p
    <2>1. QED BY <1>4
  <1>6. t \in Nat /\ t >= 2
    BY <1>5, TwoToTwice
  <1>7. /\ q \in Int /\ r \in 0 .. t - 1 /\ n = t * q + r
    <2> HIDE DEF t
    <2>1. n \in Int /\ t \in Nat \ {0}
      BY <1>2, <1>6
    <2>2. QED BY <2>1, DivInt
  <1> HIDE DEF q, r, t
  <1>8. q \in 0 .. h - 1
    <2>1. q <= -1 => t * q <= -t
      BY <1>6, <1>7, Z3T(60)
    <2>2. q >= h => t * q >= 2 * h
      BY <1>1, <1>6, <1>7, Z3T(60)
    <2>3. t * q \in Int
      BY <1>6, <1>7, Z3T(60)
    <2> DEFINE u == t * q
    <2> HIDE DEF u
    <2>4. n = u + r /\ u \in Int /\ (q <= -1 => u <= -t) /\ (q >= h => u >= 2 * h)
      BY <1>7, <2>1, <2>2, <2>3 DEF u
    <2>5. QED BY <1>1, <1>2, <1>6, <1>7, <2>4
  <1>9. q \in Nat /\ r \in Nat /\ r < t
    BY <1>1, <1>6, <1>7, <1>8
  <1>10. c \in 0 .. 1
    <2>1. QED BY <1>6, <1>9, CarryIs
  <1>11. a = Lesser(p * h + q + c, Infinity)
    <2>1. \A i \in Nat, j \in Nat :
            n = t * i + j /\ j < t =>
              Nearest(n, k) = Lesser(p * h + i + Carry(i, j, t), Infinity)
      BY <1>2, <1>5, NearestIs DEF t
    <2>2. QED BY <1>7, <1>9, <2>1
  <1>12. p * h + q + c = q + c
    <2>1. 0 * h = 0
      BY <1>1
    <2> HIDE DEF c, p
    <2>2. QED BY <1>4, <1>9, <1>10, <2>1
  <1> DEFINE e == q + c
  <1>13. e \in 0 .. h /\ e \in 0 .. 2 * h - 1
    <2> HIDE DEF c
    <2>1. QED BY <1>1, <1>8, <1>10
  <1> HIDE DEF e
  <1>14. e \in 0 .. Infinity - 1 /\ Sig(e) = e /\ Pow(e) = 0
    BY <1>13, SmallMag
  <1>15. a = Lesser(e, Infinity)
    BY <1>11, <1>12 DEF e
  <1>16. Infinity \in Nat
    BY Format
  <1>17. a = e /\ e < Infinity
    BY <1>14, <1>15, <1>16 DEF Lesser
  <1>18. QED BY <1>13, <1>14, <1>17 DEF h

\* Scaling in two steps rounds once, up and far down.
LEMMA ScaledTwice ==
  ASSUME NEW x \in Patterns, NEW a \in Int, NEW b \in Int,
         (a >= 0 /\ b >= 0) \/ (a <= 0 /\ b <= -(MantBits + 2))
  PROVE  Scaled(x, a) \in Patterns /\ Scaled(Scaled(x, a), b) = Scaled(x, a + b)
  <1> DEFINE s == SignBit(x)  n == Sig(x)  P == Pow(x)  h == Hidden  M == MantBits
             k == P + a  c == Nearest(n, k)  y == WithSign(s, c)
  <1>1. s \in 0 .. 1 /\ n \in 0 .. 2 * h - 1 /\ P \in Nat
    BY PatternParts, SigPow, Format
  <1>2. CASE AbsBits(x) >= Infinity
    <2>1. \A d : Scaled(x, d) = x
      BY <1>2 DEF Scaled
    <2>2. QED BY <2>1
  <1>3. ASSUME ~(AbsBits(x) >= Infinity)
        PROVE  Scaled(x, a) \in Patterns /\ Scaled(Scaled(x, a), b) = Scaled(x, a + b)
    <2>1. Scaled(x, a) = y /\ Scaled(x, a + b) = WithSign(s, Nearest(n, P + (a + b)))
      BY <1>3 DEF Scaled
    <2>2. h \in Nat /\ h >= 2 /\ M \in Nat \ {0} /\ Infinity \in Nat /\ ExpMax \in Nat
      BY Format
    <2>3. k \in Int /\ P + (a + b) = k + b /\ k + b \in Int
      BY <1>1
    <2>4. c \in 0 .. Infinity /\ c \in 0 .. SignWeight - 1 /\ c \in Patterns
      <3>1. n \in Nat
        BY <1>1, <2>2
      <3> HIDE DEF n, k
      <3>2. QED BY <2>3, <3>1, NearestRange
    <2>5. y \in Patterns /\ SignBit(y) = s /\ AbsBits(y) = c /\ AbsBits(c) = c
      <3> HIDE DEF c, s
      <3>1. QED BY <1>1, <2>4, SignedPattern
    <2>6. Sig(y) = Sig(c) /\ Pow(y) = Pow(c)
      <3> HIDE DEF y, c
      <3>1. QED BY <2>5, SigPow
    <2>7. Scaled(y, b) = IF c >= Infinity THEN y ELSE WithSign(s, Nearest(Sig(c), Pow(c) + b))
      <3> HIDE DEF y, c
      <3>1. QED BY <2>5, <2>6 DEF Scaled
    <2>8. IF c >= Infinity THEN Nearest(n, k + b) = c
          ELSE Nearest(Sig(c), Pow(c) + b) = Nearest(n, k + b)
      <3>1. CASE n = 0
        <4>1. c = 0 /\ Nearest(n, k + b) = 0
          BY <3>1 DEF Nearest
        <4>2. ~(c >= Infinity) /\ Sig(c) = 0
          <5>1. 0 \in 0 .. 2 * Hidden - 1
            BY <2>2
          <5>2. Sig(0) = 0 /\ 0 \in 0 .. Infinity - 1
            BY <5>1, SmallMag
          <5>3. QED BY <2>2, <4>1, <5>2
        <4>3. Nearest(Sig(c), Pow(c) + b) = 0
          BY <4>2 DEF Nearest
        <4>4. QED BY <4>1, <4>2, <4>3
      <3>2. CASE n # 0 /\ k >= 0
        <4> DEFINE p == LastPlace(n, k)  S == n * TwoTo[k - p]
        <4>1. n \in 1 .. 2 * Hidden - 1 /\ k \in Nat
          BY <1>1, <2>2, <2>3, <3>2
        <4>2. /\ p \in 0 .. k /\ S \in 1 .. 2 * Hidden - 1
              /\ p = IF k + BitLength(n) > M + 1 THEN k + BitLength(n) - (M + 1) ELSE 0
              /\ BitLength(n) \in 1 .. M + 1
              /\ p <= ExpMax - 2 => c < Infinity /\ Sig(c) = S /\ Pow(c) = p
              /\ p > ExpMax - 2 => c = Infinity
          <5> HIDE DEF n, k
          <5>1. QED BY <4>1, SigMovedUp
        <4>3. p \in Nat /\ k - p \in Nat
          BY <4>1, <4>2
        <4>4. CASE p <= ExpMax - 2
          <5>1. (k + b) - (k - p) = p + b
            <6> HIDE DEF k, p
            <6>1. QED BY <4>1, <4>3
          <5>2. Nearest(n * TwoTo[k - p], (k + b) - (k - p)) = Nearest(n, k + b)
            <6> DEFINE m == k + b  d == k - p
            <6>1. n \in Nat /\ m \in Int /\ d \in Nat
              BY <2>3, <4>1, <4>3
            <6> HIDE DEF n, m, d
            <6>2. Nearest(n * TwoTo[d], m - d) = Nearest(n, m)
              BY <6>1, NearestScales
            <6>3. QED BY <6>2 DEF m, d
          <5> HIDE DEF p, c, k, n
          <5>3. c \in Int /\ Infinity \in Int
            BY <2>2, <2>4
          <5>4. QED BY <4>2, <4>4, <5>1, <5>2, <5>3
        <4>5. CASE ~(p <= ExpMax - 2)
          <5>1. p \in Nat /\ p > ExpMax - 2 /\ ExpMax >= 3
            <6>1. ExpMax = 2 * Bias + 1 /\ Bias \in Nat /\ Bias >= 3 * MantBits + 6
              BY Format
            <6> HIDE DEF p
            <6>2. QED BY <2>2, <4>3, <4>5, <6>1
          <5>2. c = Infinity
            BY <4>2, <5>1
          <5>3. p = k + BitLength(n) - (M + 1) /\ p <= k
            <6> HIDE DEF p, k, n
            <6>1. QED BY <2>2, <4>1, <4>2, <5>1
          <5>4. P <= ExpMax - 2
            <6>1. Exponent(x) # ExpMax /\ Exponent(x) \in 0 .. ExpMax
              BY <1>3, Kinds, MagnitudeParts
            <6>2. (Exponent(x) = 0 => P = 0) /\ (Exponent(x) # 0 => P = Exponent(x) - 1)
              BY SigPow
            <6> HIDE DEF P
            <6>3. QED BY <2>2, <5>1, <6>1, <6>2
          <5>5. a >= 0 /\ b >= 0
            <6>1. ~(a <= 0)
              <7> DEFINE kk == k
              <7>1. kk = P + a /\ p <= kk /\ kk \in Int
                BY <2>3, <5>3
              <7> HIDE DEF kk, p, P
              <7>2. QED BY <1>1, <2>2, <5>1, <5>4, <7>1
            <6>2. QED BY <6>1
          <5>6. LastPlace(n, k + b) = p + b
            <6> DEFINE l == BitLength(n)
            <6>1. LastPlace(n, k + b) = IF (k + b) + l - (M + 1) > 0 THEN (k + b) + l - (M + 1) ELSE 0
              BY DEF LastPlace, Greater
            <6> HIDE DEF p, k, n, l
            <6>2. QED BY <2>2, <4>1, <4>2, <5>1, <5>3, <5>5, <6>1 DEF l
          <5>7. Nearest(n, k + b) = Infinity
            <6>1. k + b \in Nat /\ p + b > ExpMax - 2
              <7> HIDE DEF p, k
              <7>1. QED BY <2>2, <4>1, <5>1, <5>5
            <6>2. LastPlace(n, k + b) > ExpMax - 2
              BY <5>6, <6>1
            <6> DEFINE kb == k + b
            <6> HIDE DEF n, kb
            <6>3. kb \in Nat /\ LastPlace(n, kb) > ExpMax - 2
              BY <6>1, <6>2 DEF kb
            <6>4. Nearest(n, kb) = Infinity
              BY <4>1, <6>3, SigMovedUp
            <6>5. QED BY <6>4 DEF kb
          <5> HIDE DEF c
          <5>8. QED BY <2>2, <5>2, <5>7
        <4>6. QED BY <4>4, <4>5
      <3>3. CASE n # 0 /\ ~(k >= 0)
        <4>1. n \in 1 .. 2 * Hidden - 1 /\ k < 0
          BY <1>1, <2>2, <2>3, <3>3
        <4>2. c \in 0 .. Hidden /\ c < Infinity /\ Sig(c) = c /\ Pow(c) = 0
          <5> HIDE DEF n, k
          <5>1. QED BY <2>3, <4>1, SigMovedDown
        <4>3. b <= -(M + 2) /\ M + 2 \in Nat /\ M + 2 <= -b /\ M + 2 <= -(k + b)
          <5> DEFINE kk == k
          <5>1. kk = P + a /\ kk < 0 /\ kk \in Int
            BY <2>3, <4>1
          <5> HIDE DEF kk, P
          <5>2. QED BY <1>1, <2>2, <5>1 DEF kk
        <4>4. TwoTo[M + 2] = 4 * h
          <5>1. TwoTo[M + 1] = 2 * h /\ M + 1 \in Nat /\ (M + 1) + 1 = M + 2
            BY <2>2, TwoToIs DEF Hidden
          <5>2. TwoTo[(M + 1) + 1] = 2 * TwoTo[M + 1]
            BY <5>1, TwoToIs
          <5>3. QED BY <2>2, <5>1, <5>2
        <4>5. Nearest(c, b) = 0
          <5> HIDE DEF c
          <5>1. c \in Nat /\ 2 * c <= TwoTo[M + 2]
            BY <2>2, <4>2, <4>4
          <5>2. QED BY <4>3, <5>1, NearestToZero
        <4>6. Nearest(n, k + b) = 0
          <5> DEFINE kb == k + b
          <5>1. kb \in Int /\ M + 2 <= -kb
            BY <2>3, <4>3
          <5> HIDE DEF n, kb
          <5>2. n \in Nat /\ 2 * n <= TwoTo[M + 2]
            BY <2>2, <4>1, <4>4
          <5>3. Nearest(n, kb) = 0
            BY <4>3, <5>1, <5>2, NearestToZero
          <5>4. QED BY <5>3 DEF kb
        <4> HIDE DEF c
        <4>7. ~(c >= Infinity) /\ Pow(c) + b = b
          BY <2>2, <4>2
        <4>8. QED BY <4>2, <4>5, <4>6, <4>7
      <3>4. QED BY <3>1, <3>2, <3>3
    <2> HIDE DEF c, k, n
    <2>9. WithSign(s, Nearest(n, P + (a + b))) = WithSign(s, Nearest(n, k + b))
      BY <2>3
    <2>10. Scaled(y, b) = Scaled(x, a + b)
      BY <2>1, <2>7, <2>8, <2>9
    <2>11. QED BY <2>1, <2>5, <2>10
  <1>4. QED BY <1>2, <1>3

\* Far enough up every number is infinite, and far enough down it is zero.
LEMMA ScaledFar ==
  ASSUME NEW x \in Patterns, NEW i \in Int, NEW k \in Int,
         \/ i >= 3 * Bias /\ k >= 3 * Bias
         \/ /\ i <= -(2 * (Bias - 2 - MantBits)) + (1 - Bias)
            /\ k <= -(2 * (Bias - 2 - MantBits)) + (1 - Bias)
  PROVE  Scaled(x, i) = Scaled(x, k)
  <1> DEFINE n == Sig(x)  P == Pow(x)  B == Bias  M == MantBits
  <1>1. CASE AbsBits(x) >= Infinity
    BY <1>1 DEF Scaled
  <1>2. CASE ~(AbsBits(x) >= Infinity)
    <2>1. n \in 0 .. 2 * Hidden - 1 /\ Hidden \in Nat /\ Hidden >= 2 /\ B \in Nat /\ M \in Nat \ {0}
          /\ ExpMax = 2 * B + 1 /\ B >= 3 * M + 6
      BY SigPow, Format
    <2>2. P \in 0 .. ExpMax - 2
      <3>1. Exponent(x) # ExpMax /\ Exponent(x) \in 0 .. ExpMax
        BY <1>2, Kinds, MagnitudeParts
      <3>2. (Exponent(x) = 0 => P = 0) /\ (Exponent(x) # 0 => P = Exponent(x) - 1)
        BY SigPow
      <3> HIDE DEF P, B
      <3>3. QED BY <2>1, <3>1, <3>2
    <2>3. CASE n = 0
      <3>1. Nearest(n, P + i) = 0 /\ Nearest(n, P + k) = 0
        BY <2>3 DEF Nearest
      <3>2. QED BY <1>2, <3>1 DEF Scaled
    <2>4. CASE n # 0
      <3>1. n \in 1 .. 2 * Hidden - 1 /\ n \in Nat
        BY <2>1, <2>4
      <3>2. ASSUME NEW j \in Int, j >= 3 * B PROVE Nearest(n, P + j) = Infinity
        <4> DEFINE kk == P + j  p == LastPlace(n, kk)  b == BitLength(n)
        <4>1. kk \in Nat
          <5> HIDE DEF P, B
          <5>1. QED BY <2>1, <2>2, <3>2
        <4>2. b \in 1 .. M + 1
          <5> HIDE DEF n
          <5>1. QED BY <3>1, SigMovedUp
        <4>3. p = IF kk + b - (M + 1) > 0 THEN kk + b - (M + 1) ELSE 0
          BY DEF LastPlace, Greater
        <4>4. p > ExpMax - 2
          <5> HIDE DEF p, b, B, P
          <5>1. QED BY <2>1, <2>2, <3>2, <4>2, <4>3
        <4> HIDE DEF n, kk
        <4>5. Nearest(n, kk) = Infinity
          BY <3>1, <4>1, <4>4, SigMovedUp
        <4>6. QED BY <4>5 DEF kk
      <3>3. ASSUME NEW j \in Int, j <= -(2 * (B - 2 - M)) + (1 - B) PROVE Nearest(n, P + j) = 0
        <4> DEFINE kk == P + j
        <4>1. kk \in Int /\ M + 2 <= -kk /\ M + 2 \in Nat
          <5> HIDE DEF P, B
          <5>1. QED BY <2>1, <2>2, <3>3
        <4>2. TwoTo[M + 2] = 4 * Hidden
          <5>1. TwoTo[M + 1] = 2 * Hidden /\ M + 1 \in Nat /\ (M + 1) + 1 = M + 2
            BY <2>1, TwoToIs DEF Hidden
          <5>2. TwoTo[(M + 1) + 1] = 2 * TwoTo[M + 1]
            BY <5>1, TwoToIs
          <5>3. QED BY <2>1, <5>1, <5>2
        <4> HIDE DEF n, kk
        <4>3. 2 * n <= TwoTo[M + 2]
          BY <2>1, <3>1, <4>2
        <4>4. Nearest(n, kk) = 0
          BY <3>1, <4>1, <4>3, NearestToZero
        <4>5. QED BY <4>4 DEF kk
      <3>4. Nearest(n, P + i) = Nearest(n, P + k)
        <4>1. CASE i >= 3 * B /\ k >= 3 * B
          <5> HIDE DEF n, P, B
          <5>1. QED BY <3>2, <4>1
        <4>2. CASE i <= -(2 * (B - 2 - M)) + (1 - B) /\ k <= -(2 * (B - 2 - M)) + (1 - B)
          <5> HIDE DEF n, P, B
          <5>1. QED BY <3>3, <4>2
        <4>3. QED BY <4>1, <4>2
      <3>5. QED BY <1>2, <3>4 DEF Scaled
    <2>5. QED BY <2>3, <2>4
  <1>3. QED BY <1>1, <1>2

\* scalbn(x, n) is x * 2 ^ n rounded once, for every float and every n: neither
\* the two steps of the code nor its last one round into the subnormals too early.
THEOREM ScalbnIs ==
  ASSUME NEW x \in Patterns, NEW n \in Int
  PROVE  scalbn(x, n) = Scaled(x, n)
  <1> DEFINE B == Bias  M == MantBits
             down == B - 1 - (M + 1)
             step(p) ==
               IF p.n > B THEN [y |-> Scaled(p.y, B), n |-> p.n - B]
               ELSE IF p.n < 1 - B THEN [y |-> Scaled(p.y, -down), n |-> p.n + down]
               ELSE p
             first == step([y |-> x, n |-> n])
             last == step(first)
             clamped(m) == Lesser(Greater(m, 1 - B), B)
  <1>1. scalbn(x, n) = Scaled(last.y, clamped(last.n))
    BY DEF scalbn
  <1>2. B \in Nat /\ M \in Nat \ {0} /\ B >= 3 * M + 6
    BY Format
  <1>3. \A y, m :
          step([y |-> y, n |-> m]) =
            IF m > B THEN [y |-> Scaled(y, B), n |-> m - B]
            ELSE IF m < 1 - B THEN [y |-> Scaled(y, -down), n |-> m + down]
            ELSE [y |-> y, n |-> m]
    OBVIOUS
  <1>4. \A m \in Int : (m <= B /\ m >= 1 - B => clamped(m) = m) /\ (m > B => clamped(m) = B)
                       /\ (m < 1 - B => clamped(m) = 1 - B)
    <2> HIDE DEF B
    <2>1. QED BY <1>2 DEF Lesser, Greater
  <1>5. down \in Nat /\ down >= M + 2 /\ down = B - 2 - M
    <2> HIDE DEF B
    <2>1. QED BY <1>2
  <1>6. \A y, m : [y |-> y, n |-> m].y = y /\ [y |-> y, n |-> m].n = m
    OBVIOUS
  <1> DEFINE x1 == Scaled(x, B)  x2 == Scaled(x1, B)  z1 == Scaled(x, -down)  z2 == Scaled(z1, -down)
  <1>7. ASSUME n > B PROVE Scaled(last.y, clamped(last.n)) = Scaled(x, n)
    <2>1. first = [y |-> x1, n |-> n - B]
      <3> HIDE DEF step, x1
      <3>1. QED BY <1>3, <1>7 DEF x1
    <2>2. B \in Int /\ B >= 0
      BY <1>2
    <2>3. \A b \in Int : b >= 0 => x1 \in Patterns /\ Scaled(x1, b) = Scaled(x, B + b)
      <3> SUFFICES ASSUME NEW b \in Int, b >= 0
                   PROVE  x1 \in Patterns /\ Scaled(x1, b) = Scaled(x, B + b)
        OBVIOUS
      <3> HIDE DEF B
      <3>1. (B >= 0 /\ b >= 0) \/ (B <= 0 /\ b <= -(MantBits + 2))
        BY <2>2
      <3>2. QED BY <2>2, <3>1, ScaledTwice
    <2>4. CASE n - B > B
      <3>1. last = [y |-> x2, n |-> (n - B) - B]
        <4>1. last = step([y |-> x1, n |-> n - B])
          BY <2>1
        <4> HIDE DEF step, last, first, x1, x2
        <4>2. QED BY <1>3, <2>4, <4>1 DEF x2
      <3>2. \A b \in Int : b >= 0 => Scaled(x2, b) = Scaled(x, B + (B + b))
        <4> SUFFICES ASSUME NEW b \in Int, b >= 0 PROVE Scaled(x2, b) = Scaled(x, B + (B + b))
          OBVIOUS
        <4>1. x1 \in Patterns
          BY <2>2, <2>3
        <4> HIDE DEF B, x1
        <4>2. Scaled(x2, b) = Scaled(x1, B + b)
          <5>1. (B >= 0 /\ b >= 0) \/ (B <= 0 /\ b <= -(MantBits + 2))
            BY <2>2
          <5>2. QED BY <2>2, <4>1, <5>1, ScaledTwice
        <4>3. B + b \in Int /\ B + b >= 0
          BY <2>2
        <4>4. QED BY <2>3, <4>2, <4>3
      <3> DEFINE m == (n - B) - B
      <3>3. last.y = x2 /\ last.n = m
        <4> HIDE DEF last, x2, m
        <4>1. QED BY <1>6, <3>1 DEF m
      <3> HIDE DEF last, x2, clamped, B
      <3>4. m \in Int /\ m >= 0 /\ m >= 1 - B /\ m = n - 2 * B
        BY <1>2, <1>7, <2>4
      <3>5. CASE m <= B
        <4>1. clamped(m) = m
          BY <1>4, <3>4, <3>5
        <4>2. B + (B + m) = n
          BY <1>2, <3>4
        <4> HIDE DEF m
        <4>3. QED BY <3>2, <3>3, <3>4, <4>1, <4>2
      <3>6. CASE ~(m <= B)
        <4>1. clamped(m) = B
          BY <1>2, <1>4, <3>4, <3>6
        <4>2. Scaled(x2, B) = Scaled(x, B + (B + B))
          BY <1>2, <3>2
        <4>3. B + (B + B) \in Int /\ B + (B + B) >= 3 * Bias /\ n >= 3 * Bias
          BY <1>2, <3>4, <3>6 DEF B
        <4> DEFINE k == B + (B + B)
        <4> HIDE DEF k
        <4>4. Scaled(x, k) = Scaled(x, n)
          BY <4>3, ScaledFar DEF k
        <4>5. QED BY <3>3, <4>1, <4>2, <4>4 DEF k
      <3>7. QED BY <3>5, <3>6
    <2>5. CASE ~(n - B > B)
      <3> DEFINE m == n - B
      <3>1. m \in Int /\ m >= 1 - B /\ m <= B /\ m >= 0 /\ ~(m > B) /\ ~(m < 1 - B) /\ B + m = n
        <4> HIDE DEF B
        <4>1. QED BY <1>2, <1>7, <2>5
      <3>2. last = [y |-> x1, n |-> m]
        <4>1. last = step([y |-> x1, n |-> m])
          BY <2>1
        <4> HIDE DEF step, last, first, x1, m
        <4>2. QED BY <1>3, <3>1, <4>1
      <3>3. last.y = x1 /\ last.n = m
        <4> HIDE DEF last, x1, m
        <4>1. QED BY <1>6, <3>2
      <3>4. clamped(m) = m
        <4> HIDE DEF m, clamped
        <4>1. QED BY <1>4, <3>1
      <3> HIDE DEF last, x1, m, clamped
      <3>5. QED BY <2>3, <3>1, <3>3, <3>4
    <2>6. QED BY <2>4, <2>5
  <1>8. ASSUME ~(n > B), n < 1 - B PROVE Scaled(last.y, clamped(last.n)) = Scaled(x, n)
    <2>1. first = [y |-> z1, n |-> n + down]
      <3> HIDE DEF step, z1, down
      <3>1. QED BY <1>3, <1>8 DEF z1
    <2>2. -down \in Int /\ -down <= 0 /\ -down <= -(M + 2)
      <3> HIDE DEF down
      <3>1. QED BY <1>2, <1>5
    <2>3. z1 \in Patterns /\ \A b \in Int : b <= -(M + 2) => Scaled(z1, b) = Scaled(x, -down + b)
      <3> DEFINE d == -down
      <3> HIDE DEF d
      <3>1. Scaled(x, d) \in Patterns /\
            \A b \in Int : b <= -(M + 2) => Scaled(Scaled(x, d), b) = Scaled(x, d + b)
        <4>1. d \in Int /\ d <= 0 /\ d <= -(M + 2)
          BY <2>2 DEF d
        <4>2. \A b \in Int : b <= -(M + 2) =>
                Scaled(x, d) \in Patterns /\ Scaled(Scaled(x, d), b) = Scaled(x, d + b)
          BY <4>1, ScaledTwice
        <4>3. QED BY <4>1, <4>2
      <3>2. QED BY <3>1 DEF d
    <2>4. n + down \in Int /\ n + down <= -(M + 2) /\ ~(n + down > B)
      <3> HIDE DEF B
      <3>1. QED BY <1>2, <1>8
    <2>5. CASE n + down < 1 - B
      <3> DEFINE m == (n + down) + down
      <3>1. last = [y |-> z2, n |-> m]
        <4>1. last = step([y |-> z1, n |-> n + down])
          BY <2>1
        <4> HIDE DEF step, last, first, z1, z2, down
        <4>2. QED BY <1>3, <2>4, <2>5, <4>1 DEF z2
      <3>2. \A b \in Int : b <= -(M + 2) => Scaled(z2, b) = Scaled(x, -down + (-down + b))
        <4> SUFFICES ASSUME NEW b \in Int, b <= -(M + 2)
                     PROVE  Scaled(z2, b) = Scaled(x, -down + (-down + b))
          OBVIOUS
        <4> DEFINE d == -down
        <4>1. z1 \in Patterns /\ z2 = Scaled(z1, d) /\ d \in Int /\ d <= 0 /\ d <= -(M + 2)
          BY <2>2, <2>3
        <4> HIDE DEF d, z1, z2
        <4>2. Scaled(z2, b) = Scaled(z1, d + b)
          BY <4>1, ScaledTwice
        <4>3. d + b \in Int /\ d + b <= -(M + 2)
          BY <1>2, <4>1
        <4>4. Scaled(z1, d + b) = Scaled(x, d + (d + b))
          BY <2>3, <4>3 DEF d
        <4>5. QED BY <4>2, <4>4 DEF d
      <3>3. last.y = z2 /\ last.n = m
        <4> HIDE DEF last, z2, m
        <4>1. QED BY <1>6, <3>1
      <3>4. m \in Int /\ m <= -(M + 2) /\ m <= B /\ -down + (-down + m) = n
        <4> HIDE DEF B
        <4>1. QED BY <1>2, <1>8, <2>5
      <3>5. 1 - B <= -(M + 2) /\ 1 - B \in Int
        <4> HIDE DEF B
        <4>1. QED BY <1>2
      <3>6. CASE m >= 1 - B
        <4>1. clamped(m) = m
          <5> HIDE DEF m, clamped, B
          <5>1. QED BY <1>4, <3>4, <3>6
        <4> HIDE DEF last, z2, clamped, m, down
        <4>2. QED BY <3>2, <3>3, <3>4, <4>1
      <3>7. CASE ~(m >= 1 - B)
        <4>1. clamped(m) = 1 - B
          <5> HIDE DEF m, clamped, B
          <5>1. m < 1 - B
            BY <1>2, <3>4, <3>7
          <5>2. QED BY <1>4, <3>4, <5>1
        <4> DEFINE c == 1 - B  k == -down + (-down + c)
        <4>2. Scaled(z2, c) = Scaled(x, k)
          <5> HIDE DEF z2, down, c, B
          <5>1. QED BY <3>2, <3>5 DEF c
        <4>3. k \in Int /\ k <= -(2 * (Bias - 2 - MantBits)) + (1 - Bias)
              /\ n <= -(2 * (Bias - 2 - MantBits)) + (1 - Bias)
          <5>1. m < 1 - B /\ m = (n + down) + down
            BY <1>2, <3>4, <3>7
          <5> HIDE DEF m
          <5>2. QED BY <1>2, <5>1
        <4> HIDE DEF k
        <4>4. Scaled(x, k) = Scaled(x, n)
          BY <4>3, ScaledFar
        <4> HIDE DEF last, z2, clamped, m, down
        <4>5. QED BY <3>3, <4>1, <4>2, <4>4
      <3>8. QED BY <3>6, <3>7
    <2>6. CASE ~(n + down < 1 - B)
      <3> DEFINE m == n + down
      <3>1. last = [y |-> z1, n |-> m]
        <4>1. last = step([y |-> z1, n |-> m])
          BY <2>1
        <4> HIDE DEF step, last, first, z1, m
        <4>2. QED BY <1>3, <2>4, <2>6, <4>1 DEF m
      <3>2. last.y = z1 /\ last.n = m
        <4> HIDE DEF last, z1, m
        <4>1. QED BY <1>6, <3>1
      <3>3. m \in Int /\ m <= -(M + 2) /\ m <= B /\ m >= 1 - B /\ -down + m = n
        <4> HIDE DEF B
        <4>1. QED BY <1>2, <2>4, <2>6
      <3>4. clamped(m) = m
        <4> HIDE DEF m, clamped, B
        <4>1. QED BY <1>4, <3>3
      <3> HIDE DEF last, z1, clamped, m, down
      <3>5. QED BY <2>3, <3>2, <3>3, <3>4
    <2>7. QED BY <2>5, <2>6
  <1>9. ASSUME ~(n > B), ~(n < 1 - B) PROVE Scaled(last.y, clamped(last.n)) = Scaled(x, n)
    <2>1. first = [y |-> x, n |-> n]
      <3> HIDE DEF step
      <3>1. QED BY <1>3, <1>9
    <2>2. last = [y |-> x, n |-> n]
      <3>1. last = step([y |-> x, n |-> n])
        BY <2>1
      <3> HIDE DEF step, last, first
      <3>2. QED BY <1>3, <1>9, <3>1
    <2>3. clamped(n) = n
      <3> HIDE DEF clamped, B
      <3>1. n <= B /\ n >= 1 - B
        BY <1>2, <1>9
      <3>2. QED BY <1>4, <3>1
    <2> HIDE DEF last, clamped
    <2>4. QED BY <1>6, <2>2, <2>3
  <1>10. QED BY <1>1, <1>7, <1>8, <1>9

-----------------------------------------------------------------------------
(* Taking floats apart.                                                    *)

\* frexp's fraction has the bits of the float, at another exponent.
LEMMA SplitIs ==
  ASSUME NEW u, Finite(u), Exponent(u) # 0,
         NEW d, d = WithSign(SignBit(u), Half + Mantissa(u))
  PROVE  /\ Exponent(d) = Bias - 1 /\ SignBit(d) = SignBit(u) /\ Sig(d) = Sig(u)
         /\ Pow(d) + (Exponent(u) - (Bias - 1)) = Pow(u)
  <1> DEFINE h == Hidden  B == Bias  m == Mantissa(u)  s == SignBit(u)  c == Half + m
             e == Exponent(u)
  <1>1. h \in Nat /\ h >= 2 /\ B \in Nat /\ B >= 9 /\ ExpMax = 2 * B + 1
    <2>1. h \in Nat /\ h >= 2 /\ B \in Nat /\ MantBits \in Nat \ {0} /\ B >= 3 * MantBits + 6
          /\ ExpMax = 2 * B + 1
      BY Format
    <2>2. QED BY <2>1
  <1>2. u \in Patterns /\ m \in 0 .. h - 1 /\ s \in 0 .. 1 /\ e \in 0 .. ExpMax
    BY ValueIs, MagnitudeParts
  <1>3. B - 1 \in 0 .. ExpMax /\ B - 1 # 0 /\ c = h * (B - 1) + m
    <2> HIDE DEF h, B, m
    <2>1. (B - 1) * h = h * (B - 1)
      BY <1>1, Z3T(60)
    <2>2. Half = (B - 1) * h
      BY DEF Half, B, h
    <2>3. QED BY <1>1, <2>1, <2>2
  <1> HIDE DEF c, m, s, B, e
  <1>4. c \in Patterns /\ c \in 0 .. SignWeight - 1 /\ Exponent(c) = B - 1 /\ Mantissa(c) = m
    BY <1>2, <1>3, FromParts DEF h
  <1>5. d \in Patterns /\ SignBit(d) = s /\ AbsBits(d) = c
    <2>1. d = WithSign(s, c)
      BY DEF c, s, m
    <2>2. QED BY <1>2, <1>4, <2>1, SignedPattern
  <1>6. Exponent(d) = B - 1 /\ Mantissa(d) = m
    BY <1>4, <1>5, MagnitudeParts
  <1>7. Sig(d) = h + m /\ Pow(d) = B - 1 - 1
    BY <1>3, <1>5, <1>6, SigPow
  <1>8. Sig(u) = h + m /\ Pow(u) = e - 1
    BY <1>2, SigPow DEF m, e
  <1>9. Pow(d) + (e - (B - 1)) = Pow(u)
    BY <1>1, <1>2, <1>7, <1>8
  <1>10. QED BY <1>5, <1>6, <1>7, <1>8, <1>9 DEF s, e, B

\* frexp is exact, for subnormals too.
LEMMA FrexpIs ==
  ASSUME NEW x \in Patterns
  PROVE  IF AbsBits(x) >= Infinity THEN frexp(x) = <<x>>
         ELSE IF IsZero(x) THEN frexp(x) = <<x, 0>>
         ELSE /\ Exponent(frexp(x)[1]) = Bias - 1 /\ SignBit(frexp(x)[1]) = SignBit(x)
              /\ Nearest(Sig(frexp(x)[1]), Pow(frexp(x)[1]) + frexp(x)[2]) = AbsBits(x)
  <1> DEFINE k == MantBits + 1  u == Scaled(x, k)
             d(y) == WithSign(SignBit(y), Half + Mantissa(y))
             e(y) == Exponent(y) - (Bias - 1)
  <1>1. frexp(x) = IF IsZero(x) THEN <<x, 0>>
                   ELSE IF Exponent(x) = 0 THEN <<d(u), e(u) - k>>
                   ELSE IF Exponent(x) = ExpMax THEN <<x>> ELSE <<d(x), e(x)>>
    <2> DEFINE split(y) == <<d(y), e(y)>>
    <2>1. frexp(x) = IF IsZero(x) THEN <<x, 0>>
                     ELSE IF Exponent(x) = 0 THEN <<split(u)[1], split(u)[2] - k>>
                     ELSE IF Exponent(x) = ExpMax THEN <<x>> ELSE split(x)
      BY DEF frexp
    <2>2. split(u)[1] = d(u) /\ split(u)[2] = e(u)
      OBVIOUS
    <2> HIDE DEF d, e, u, k
    <2>3. QED BY <2>1, <2>2
  <1>2. /\ AbsBits(x) >= Infinity <=> Exponent(x) = ExpMax
        /\ Exponent(x) \in 0 .. ExpMax /\ ExpMax = 2 * Bias + 1 /\ Bias \in Nat
        /\ MantBits \in Nat \ {0} /\ Bias >= 3 * MantBits + 6
        /\ AbsBits(x) \in 0 .. SignWeight - 1 /\ Hidden \in Nat /\ Hidden >= 2 /\ Infinity \in Nat
        /\ SignWeight \in Nat
    BY Kinds, MagnitudeParts, PatternParts, Format
  <1>3. CASE AbsBits(x) >= Infinity
    <2>1. ~IsZero(x) /\ Exponent(x) # 0 /\ Exponent(x) = ExpMax
      BY <1>2, <1>3, Kinds
    <2> HIDE DEF d, e, u
    <2>2. QED BY <1>1, <1>3, <2>1
  <1>4. CASE ~(AbsBits(x) >= Infinity) /\ IsZero(x)
    <2> HIDE DEF d, e, u
    <2>1. QED BY <1>1, <1>4
  <1>5. CASE ~(AbsBits(x) >= Infinity) /\ ~IsZero(x)
    <2>1. Finite(x) /\ Exponent(x) # ExpMax
      BY <1>2, <1>5 DEF Finite
    <2>2. Nearest(Sig(x), Pow(x)) = AbsBits(x)
      BY <2>1, NearestSig DEF Finite
    <2>3. CASE Exponent(x) # 0
      <3>1. frexp(x)[1] = d(x) /\ frexp(x)[2] = e(x)
        <4>1. frexp(x) = <<d(x), e(x)>>
          <5> HIDE DEF d, e, u
          <5>1. QED BY <1>1, <1>5, <2>1, <2>3
        <4> HIDE DEF d, e
        <4>2. QED BY <4>1
      <3> DEFINE y == d(x)
      <3>2. y = WithSign(SignBit(x), Half + Mantissa(x))
        OBVIOUS
      <3> HIDE DEF y, d
      <3>3. Exponent(y) = Bias - 1 /\ SignBit(y) = SignBit(x) /\ Sig(y) = Sig(x)
            /\ Pow(y) + e(x) = Pow(x)
        BY <2>1, <2>3, <3>2, SplitIs
      <3> HIDE DEF e
      <3>4. QED BY <1>5, <2>2, <3>1, <3>3 DEF y
    <2>4. CASE Exponent(x) = 0
      <3> DEFINE n == Sig(x)  s == SignBit(x)  c == Nearest(n, k)  b == BitLength(n)
                 p == LastPlace(n, k)  S == n * TwoTo[k - p]  M == MantBits
      <3>1. n \in 1 .. 2 * Hidden - 1 /\ Pow(x) = 0
        <4>1. n \in 0 .. 2 * Hidden - 1 /\ Pow(x) = 0
          BY <2>4, SigPow
        <4>2. n # 0
          BY <1>5, MagIs DEF IsZero
        <4>3. QED BY <1>2, <4>1, <4>2
      <3>2. k \in Nat /\ s \in 0 .. 1 /\ M \in Nat
        BY <1>2, PatternParts
      <3>3. /\ p \in 0 .. k
            /\ p = IF k + b > M + 1 THEN k + b - (M + 1) ELSE 0
            /\ b \in 1 .. M + 1
            /\ p <= ExpMax - 2 => c < Infinity /\ c \in Patterns /\ Sig(c) = S /\ Pow(c) = p
        <4> HIDE DEF n, k
        <4>1. QED BY <3>1, <3>2, SigMovedUp
      <3>4. p = b /\ p <= ExpMax - 2 /\ p # 0 /\ k - p \in Nat
        <4> HIDE DEF p, b
        <4>1. QED BY <1>2, <3>3
      <3>5. c < Infinity /\ c \in Patterns /\ Sig(c) = S /\ Pow(c) = p
        BY <3>3, <3>4
      <3>6. c \in 0 .. SignWeight - 1
        <4>1. n \in Nat /\ k \in Int
          BY <1>2, <3>1, <3>2
        <4> HIDE DEF n, k
        <4>2. QED BY <4>1, NearestRange
      <3>7. u = WithSign(s, c)
        <4>1. Pow(x) + k = k
          BY <3>1, <3>2
        <4>2. QED BY <1>5, <4>1 DEF Scaled
      <3>8. u \in Patterns /\ SignBit(u) = s /\ AbsBits(u) = c /\ Finite(u)
        <4> HIDE DEF c, u, s
        <4>1. u \in Patterns /\ SignBit(u) = s /\ AbsBits(u) = c
          BY <3>2, <3>6, <3>7, SignedPattern
        <4>2. QED BY <3>5, <4>1 DEF Finite
      <3>9. Sig(u) = S /\ Pow(u) = p
        <4> HIDE DEF c, u, S, p
        <4>1. QED BY <3>5, <3>8, SigPow
      <3>10. Exponent(u) # 0
        <4> HIDE DEF u, p
        <4>1. QED BY <3>4, <3>8, <3>9, SigPow
      <3> DEFINE y == d(u)
      <3>11. y = WithSign(SignBit(u), Half + Mantissa(u))
        OBVIOUS
      <3>12. frexp(x)[1] = y /\ frexp(x)[2] = e(u) - k
        <4>1. frexp(x) = <<y, e(u) - k>>
          <5> HIDE DEF d, e, u
          <5>1. QED BY <1>1, <1>5, <2>4
        <4> HIDE DEF d, e, u, k, y
        <4>2. QED BY <4>1
      <3> HIDE DEF y, d, u
      <3>13. Exponent(y) = Bias - 1 /\ SignBit(y) = s /\ Sig(y) = S /\ Pow(y) + e(u) = p
        BY <3>8, <3>9, <3>10, <3>11, SplitIs
      <3>14. Pow(y) + (e(u) - k) = 0 - (k - p)
        <4>1. Pow(y) \in Int /\ e(u) \in Int
          <5>1. Exponent(u) \in 0 .. ExpMax
            BY <3>8, MagnitudeParts
          <5>2. y \in Patterns
            <6>1. Mantissa(u) \in 0 .. Hidden - 1
              BY <3>8, MagnitudeParts
            <6> DEFINE mm == Mantissa(u)
            <6>2. Bias - 1 \in 0 .. ExpMax
              BY <1>2
            <6> HIDE DEF mm
            <6>3. Hidden * (Bias - 1) + mm \in 0 .. SignWeight - 1
              BY <6>1, <6>2, FromParts DEF mm
            <6>4. Hidden * (Bias - 1) = Half
              <7> DEFINE h == Hidden  a == Bias - 1
              <7>1. h \in Nat /\ a \in Int
                BY <1>2
              <7> HIDE DEF h, a
              <7>2. h * a = a * h
                BY <7>1, Z3T(60)
              <7>3. QED BY <7>2 DEF h, a, Half
            <6>5. y = WithSign(SignBit(u), Half + mm)
              BY <3>11 DEF mm
            <6>6. SignBit(u) \in 0 .. 1
              BY <3>2, <3>8
            <6>7. QED BY <6>3, <6>4, <6>5, <6>6, SignedPattern
          <5>3. Pow(y) \in 0 .. ExpMax
            BY <5>2, SigPow
          <5>4. QED BY <1>2, <5>1, <5>3
        <4> DEFINE eu == e(u)
        <4>2. Pow(y) + eu = p /\ eu \in Int /\ Pow(y) \in Int
          BY <3>13, <4>1
        <4> HIDE DEF e, p, k, eu
        <4>3. Pow(y) + (eu - k) = 0 - (k - p)
          BY <3>2, <4>2
        <4>4. QED BY <4>3 DEF eu
      <3>15. Nearest(S, 0 - (k - p)) = Nearest(n, 0)
        <4>1. n \in Nat /\ 0 \in Int
          BY <1>2, <3>1
        <4> DEFINE j == k - p
        <4>2. j \in Nat
          BY <3>4
        <4> HIDE DEF n, j
        <4>3. Nearest(n * TwoTo[j], 0 - j) = Nearest(n, 0)
          BY <4>1, <4>2, NearestScales
        <4>4. QED BY <4>3 DEF j
      <3>16. Nearest(n, 0) = AbsBits(x)
        BY <2>2, <3>1
      <3> HIDE DEF S, e, k, p, n, s
      <3>17. Nearest(Sig(frexp(x)[1]), Pow(frexp(x)[1]) + frexp(x)[2]) = AbsBits(x)
        BY <3>12, <3>13, <3>14, <3>15, <3>16
      <3>18. QED BY <1>5, <3>12, <3>13, <3>17 DEF s
    <2>5. QED BY <2>3, <2>4
  <1>6. QED BY <1>3, <1>4, <1>5

\* Signs are taken and given.
LEMMA SignsAre ==
  ASSUME NEW x \in Patterns, NEW y \in Patterns
  PROVE  /\ fabs(x) \in {x, Negated(x)} /\ SignBit(fabs(x)) = 0
         /\ copysign(x, y) \in {x, Negated(x)} /\ SignBit(copysign(x, y)) = SignBit(y)
  <1> DEFINE s == SignBit(x)  a == AbsBits(x)
  <1>1. /\ s \in 0 .. 1 /\ a \in 0 .. SignWeight - 1 /\ x = WithSign(s, x)
        /\ x = (IF s = 1 THEN SignWeight + a ELSE a) /\ SignBit(y) \in 0 .. 1
    BY PatternParts
  <1>2. Negated(x) = WithSign(1 - s, x)
    BY DEF Negated
  <1>3. \A t \in 0 .. 1 : /\ WithSign(t, x) \in {x, Negated(x)} /\ SignBit(WithSign(t, x)) = t
                          /\ WithSign(t, x) = IF t = 1 THEN SignWeight + a ELSE a
    <2> SUFFICES ASSUME NEW t \in 0 .. 1
                 PROVE  /\ WithSign(t, x) \in {x, Negated(x)} /\ SignBit(WithSign(t, x)) = t
                        /\ WithSign(t, x) = IF t = 1 THEN SignWeight + a ELSE a
      OBVIOUS
    <2>1. t = s \/ t = 1 - s
      BY <1>1
    <2>2. WithSign(t, x) = WithSign(t, a)
      <3> HIDE DEF a
      <3>1. AbsBits(a) = a
        BY <1>1, SignedPattern
      <3>2. QED BY <3>1 DEF WithSign, a
    <2> HIDE DEF a, s
    <2>3. SignBit(WithSign(t, a)) = t /\ WithSign(t, a) = IF t = 1 THEN SignWeight + a ELSE a
      BY <1>1, SignedPattern
    <2>4. QED BY <1>1, <1>2, <2>1, <2>2, <2>3
  <1>4. a = WithSign(0, x)
    BY <1>3
  <1>5. copysign(x, y) = WithSign(SignBit(y), x) /\ fabs(x) = WithSign(0, x)
    BY <1>4 DEF copysign, fabs
  <1> HIDE DEF a, s
  <1>6. QED BY <1>1, <1>3, <1>5

\* What a maximum and a minimum are.
Greatest(r, x, y) ==
  LET numbers == {u \in {x, y} : ~IsNaN(u)} IN
  IF numbers = {} THEN IsNaN(r)
  ELSE r \in numbers /\ \A u \in numbers : Order(u) <= Order(r)
Least(r, x, y) ==
  LET numbers == {u \in {x, y} : ~IsNaN(u)} IN
  IF numbers = {} THEN IsNaN(r)
  ELSE r \in numbers /\ \A u \in numbers : Order(r) <= Order(u)

\* fmax and fmin order the zeros and ignore NaNs.
LEMMA MaxMinAre ==
  ASSUME NEW x \in Patterns, NEW y \in Patterns
  PROVE  Greatest(fmax(x, y), x, y) /\ Least(fmin(x, y), x, y)
  <1>1. /\ SignBit(x) \in 0 .. 1 /\ AbsBits(x) \in Int /\ AbsBits(x) >= 0
        /\ x = (IF SignBit(x) = 1 THEN SignWeight + AbsBits(x) ELSE AbsBits(x))
        /\ SignBit(y) \in 0 .. 1 /\ AbsBits(y) \in Int /\ AbsBits(y) >= 0
        /\ y = (IF SignBit(y) = 1 THEN SignWeight + AbsBits(y) ELSE AbsBits(y))
    BY PatternParts, Format
  <1>2. CASE IsNaN(x)
    <2>1. fmax(x, y) = y /\ fmin(x, y) = y
      BY <1>2 DEF fmax, fmin
    <2>2. {u \in {x, y} : ~IsNaN(u)} = IF IsNaN(y) THEN {} ELSE {y}
      BY <1>2
    <2>3. Order(y) \in Int
      BY <1>1 DEF Order
    <2>4. QED BY <2>1, <2>2, <2>3 DEF Greatest, Least
  <1>3. CASE ~IsNaN(x) /\ IsNaN(y)
    <2>1. fmax(x, y) = x /\ fmin(x, y) = x
      BY <1>3 DEF fmax, fmin
    <2>2. {u \in {x, y} : ~IsNaN(u)} = {x}
      BY <1>3
    <2>3. Order(x) \in Int
      BY <1>1 DEF Order
    <2>4. QED BY <2>1, <2>2, <2>3 DEF Greatest, Least
  <1>4. CASE ~IsNaN(x) /\ ~IsNaN(y)
    <2>1. {u \in {x, y} : ~IsNaN(u)} = {x, y}
      BY <1>4
    <2>2. Below(x, y) <=> Key(x) < Key(y)
      BY <1>4 DEF Below
    <2>3. Order(x) \in Int /\ Order(y) \in Int
      BY <1>1 DEF Order
    <2>4. /\ fmax(x, y) = (IF SignBit(x) # SignBit(y) THEN IF SignBit(x) = 1 THEN y ELSE x
                           ELSE IF Below(x, y) THEN y ELSE x)
          /\ fmin(x, y) = (IF SignBit(x) # SignBit(y) THEN IF SignBit(x) = 1 THEN x ELSE y
                           ELSE IF Below(x, y) THEN x ELSE y)
      BY <1>4 DEF fmax, fmin
    <2>5. SignBit(x) = SignBit(y) => (Below(x, y) <=> Order(x) < Order(y))
      BY <1>1, <2>2 DEF Order, Key
    <2>6. SignBit(x) # SignBit(y) => (SignBit(x) = 1 <=> Order(x) < Order(y))
      BY <1>1 DEF Order
    <2>7. fmax(x, y) = (IF Order(x) < Order(y) THEN y ELSE x)
          /\ fmin(x, y) = (IF Order(x) < Order(y) THEN x ELSE y)
      BY <2>4, <2>5, <2>6
    <2>8. fmax(x, y) \in {x, y} /\ fmin(x, y) \in {x, y}
      BY <2>7
    <2>9. \A u \in {x, y} : Order(u) <= Order(fmax(x, y)) /\ Order(fmin(x, y)) <= Order(u)
      BY <2>3, <2>7
    <2>10. QED BY <2>1, <2>8, <2>9 DEF Greatest, Least
  <1>5. QED BY <1>2, <1>3, <1>4

-----------------------------------------------------------------------------
(* Remainders.                                                             *)

\* The rest of twice a number, and of a product.
LEMMA RestDoubled ==
  ASSUME NEW c \in Nat \ {0}, NEW n \in Nat, NEW r, r = n % c
  PROVE  /\ r \in 0 .. c - 1
         /\ (2 * n) % c = IF 2 * r >= c THEN 2 * r - c ELSE 2 * r
         /\ (2 * n) % c = (2 * r) % c
  <1> DEFINE q == n \div c  t == IF 2 * r >= c THEN 2 * r - c ELSE 2 * r
             k == IF 2 * r >= c THEN 1 ELSE 0
  <1>1. q \in Int /\ r \in 0 .. c - 1 /\ n = c * q + r
    <2>1. n \in Int
      OBVIOUS
    <2>2. QED BY <2>1, DivInt
  <1> HIDE DEF q
  <1>2. t \in 0 .. c - 1 /\ r \in Int
    BY <1>1
  <1>3. c * k = IF 2 * r >= c THEN c ELSE 0
    OBVIOUS
  <1>4. 2 * r = c * k + t
    <2> DEFINE p == c * k
    <2>1. p = IF 2 * r >= c THEN c ELSE 0
      BY <1>3
    <2> HIDE DEF p, k
    <2>2. 2 * r = p + t
      BY <1>1, <1>2, <2>1
    <2>3. QED BY <2>2 DEF p
  <1>5. 2 * n = c * (2 * q + k) + t
    <2> DEFINE p == c * q  o == c * k
    <2>1. c * (2 * q + k) = 2 * (c * q) + c * k /\ c * q \in Int /\ c * k \in Int
      <3>1. k \in Int
        BY <1>1
      <3> HIDE DEF k
      <3>2. QED BY <1>1, <3>1, Z3T(60)
    <2>2. p \in Int /\ o \in Int /\ n = p + r /\ 2 * r = o + t /\ c * (2 * q + k) = 2 * p + o
      BY <1>1, <1>4, <2>1
    <2> HIDE DEF p, o, k, t
    <2>3. t \in Int
      BY <1>2
    <2>4. QED BY <1>1, <1>2, <2>2, <2>3
  <1>6. k \in Int /\ 2 * q + k \in Int /\ 2 * n \in Int /\ 2 * r \in Int
    BY <1>1
  <1> HIDE DEF t, k
  <1>7. (2 * n) % c = t
    <2> DEFINE m == 2 * n  j == 2 * q + k
    <2>1. m \in Int /\ j \in Int /\ m = c * j + t
      BY <1>5, <1>6
    <2> HIDE DEF m, j
    <2>2. m % c = t
      BY <1>2, <2>1, DivUnique
    <2>3. QED BY <2>2 DEF m
  <1>8. (2 * r) % c = t
    <2> DEFINE m == 2 * r
    <2>1. m \in Int /\ m = c * k + t
      BY <1>4, <1>6
    <2> HIDE DEF m
    <2>2. m % c = t
      BY <1>2, <1>6, <2>1, DivUnique
    <2>3. QED BY <2>2 DEF m
  <1>9. QED BY <1>1, <1>7, <1>8 DEF t

\* A factor may be replaced by its rest.
LEMMA RestOfProduct ==
  ASSUME NEW c \in Nat \ {0}, NEW n \in Nat, NEW m \in Nat
  PROVE  (m * (n % c)) % c = (m * n) % c
  <1> DEFINE q == n \div c  r == n % c  j == m * r
             i == j \div c  t == j % c
  <1>1. q \in Int /\ r \in 0 .. c - 1 /\ n = c * q + r
    <2>1. n \in Int
      OBVIOUS
    <2>2. QED BY <2>1, DivInt
  <1> HIDE DEF q, r
  <1>2. j \in Int
    <2>1. r \in Int
      BY <1>1
    <2>2. QED BY <2>1, Z3T(60)
  <1> HIDE DEF j
  <1>3. i \in Int /\ t \in 0 .. c - 1 /\ j = c * i + t
    BY <1>2, DivInt
  <1> HIDE DEF i, t
  <1>4. m * n = c * (m * q + i) + t /\ m * q + i \in Int /\ m * n \in Int
    <2>1. r \in Int /\ t \in Int
      BY <1>1, <1>3
    <2>2. m * n = m * (c * q + r)
      BY <1>1
    <2>3. m * (c * q + r) = c * (m * q) + m * r
      BY <1>1, <2>1, Z3T(60)
    <2>4. m * q \in Int /\ m * n \in Int
      BY <1>1, Z3T(60)
    <2>5. c * (m * q + i) = c * (m * q) + c * i /\ c * (m * q) \in Int /\ c * i \in Int
      <3> DEFINE mq == m * q
      <3> HIDE DEF mq
      <3>1. c * (mq + i) = c * mq + c * i /\ c * mq \in Int /\ c * i \in Int
        BY <1>3, <2>4, Z3T(60) DEF mq
      <3>2. QED BY <3>1 DEF mq
    <2> DEFINE a == c * (m * q)  b == c * i  d == c * (m * q + i)  e == m * n
    <2>6. e = a + j /\ j = b + t /\ d = a + b /\ a \in Int /\ b \in Int
      BY <1>3, <2>2, <2>3, <2>5 DEF j
    <2> HIDE DEF a, b, d, e
    <2>7. e = d + t
      BY <2>1, <2>6
    <2>8. QED BY <1>3, <2>4, <2>7 DEF d, e
  <1> DEFINE d == m * q + i  e == m * n
  <1>5. d \in Int /\ e \in Int /\ e = c * d + t
    BY <1>4
  <1> HIDE DEF d, e
  <1>6. e % c = t
    BY <1>3, <1>5, DivUnique
  <1>7. QED BY <1>6 DEF e, t, j, r

\* Scaling the number and the divisor scales the rest.
LEMMA RestScaled ==
  ASSUME NEW c \in Nat \ {0}, NEW n \in Nat, NEW t \in Nat \ {0}
  PROVE  (n * t) % (c * t) = (n % c) * t /\ c * t \in Nat \ {0}
  <1> DEFINE q == n \div c  r == n % c  m == n * t  d == c * t  s == r * t
  <1>1. q \in Int /\ r \in 0 .. c - 1 /\ n = c * q + r
    <2>1. n \in Int
      OBVIOUS
    <2>2. QED BY <2>1, DivInt
  <1> HIDE DEF q, r
  <1>2. r \in Nat /\ r < c
    BY <1>1
  <1>3. d \in Nat \ {0} /\ s \in Nat /\ s < d /\ m \in Int
    <2>1. c * t \in Nat /\ c * t >= 1
      BY Z3T(60)
    <2>2. r * t \in Nat /\ r * t < c * t /\ n * t \in Int
      BY <1>2, Z3T(60)
    <2>3. QED BY <2>1, <2>2
  <1>4. m = d * q + s
    <2>1. (c * q + r) * t = (c * t) * q + r * t
      BY <1>1, <1>2, Z3T(60)
    <2>2. QED BY <1>1, <2>1
  <1> HIDE DEF m, d, s
  <1>5. s \in 0 .. d - 1
    BY <1>3
  <1>6. m % d = s
    BY <1>1, <1>3, <1>4, <1>5, DivUnique
  <1>7. QED BY <1>3, <1>6 DEF m, d, s, r

\* The mantissa of every float but zero, moved up to where those of normal floats are.
LEMMA NormalIs ==
  ASSUME NEW u, Finite(u), AbsBits(u) # 0
  PROVE  \E g \in Nat :
           /\ Normal(u).m = Sig(u) * TwoTo[g] /\ Normal(u).e = Pow(u) + 1 - g
           /\ Normal(u).m \in Hidden .. 2 * Hidden - 1
           /\ Exponent(u) # 0 => g = 0
  <1> DEFINE n == Sig(u)  M == MantBits  h == Hidden  b == BitLength(n)  d == M + 1 - b
  <1>1. u \in Patterns /\ h \in Nat /\ h >= 2 /\ M \in Nat \ {0}
    BY ValueIs, Format
  <1>2. n \in 1 .. 2 * h - 1 /\ n \in Nat
    <2>1. n \in 0 .. 2 * h - 1 /\ n # 0
      BY <1>1, SigPow, MagIs
    <2>2. QED BY <1>1, <2>1
  <1>3. CASE Exponent(u) # 0
    <2>1. Normal(u) = [e |-> Exponent(u), m |-> Hidden + Mantissa(u)]
      BY <1>3 DEF Normal
    <2>2. n = Hidden + Mantissa(u) /\ Pow(u) = Exponent(u) - 1 /\ Mantissa(u) \in 0 .. h - 1
          /\ Exponent(u) \in 0 .. ExpMax /\ ExpMax \in Nat
      BY <1>1, <1>3, SigPow, MagnitudeParts, Format
    <2>3. n * TwoTo[0] = n /\ Pow(u) + 1 - 0 = Exponent(u) /\ n \in h .. 2 * h - 1
      <3>1. TwoTo[0] = 1
        BY TwoToIs
      <3> HIDE DEF h, n
      <3>2. n \in h .. 2 * h - 1
        BY <1>1, <2>2 DEF h
      <3>3. QED BY <1>2, <2>2, <3>1, <3>2
    <2>4. 0 \in Nat
      OBVIOUS
    <2>5. Normal(u).m = n /\ Normal(u).e = Exponent(u)
      <3> HIDE DEF n
      <3>1. QED BY <2>1, <2>2
    <2> DEFINE z == 0
    <2>6. z \in Nat /\ Normal(u).m = Sig(u) * TwoTo[z] /\ Normal(u).e = Pow(u) + 1 - z
          /\ Normal(u).m \in Hidden .. 2 * Hidden - 1 /\ (Exponent(u) # 0 => z = 0)
      BY <2>3, <2>5
    <2> HIDE DEF z
    <2>7. QED BY <2>6
  <1>4. CASE Exponent(u) = 0
    <2>1. n = Mantissa(u) /\ Pow(u) = 0
      BY <1>1, <1>4, SigPow
    <2>2. b \in 1 .. M + 1
      <3> HIDE DEF n
      <3>1. 0 \in Nat
        OBVIOUS
      <3>2. QED BY <1>2, <3>1, SigMovedUp
    <2>3. d \in Nat
      <3> HIDE DEF b
      <3>1. QED BY <1>1, <2>2
    <2>4. Normal(u) = [e |-> b - M, m |-> n * TwoTo[d]]
      BY <1>4, <2>1 DEF Normal
    <2>5. Normal(u).m = n * TwoTo[d] /\ Normal(u).e = b - M
      <3> HIDE DEF n, b, d
      <3>1. QED BY <2>4
    <2>6. b - M = Pow(u) + 1 - d
      <3> HIDE DEF b
      <3>1. QED BY <1>1, <2>1, <2>2
    <2>7. n * TwoTo[d] \in h .. 2 * h - 1
      <3> DEFINE B == TwoTo[b]  C == TwoTo[b - 1]  t == TwoTo[d]
      <3>1. n < B /\ C <= n /\ B \in Nat /\ C \in Nat
        <4>1. n \in Nat \ {0}
          BY <1>1, <1>2
        <4>2. n < B /\ C <= n
          BY <4>1, BitLengthIs
        <4>3. b \in Nat \ {0}
          <5> HIDE DEF b
          <5>1. QED BY <1>1, <2>2
        <4>4. QED BY <4>2, <4>3, TwoToTwice
      <3>2. t \in Nat \ {0}
        BY <2>3, TwoToIs
      <3>3. B * t = 2 * h /\ C * t = h
        <4>1. b \in Nat /\ b - 1 \in Nat /\ b + d = M + 1 /\ (b - 1) + d = M /\ M + 1 \in Nat
          <5> HIDE DEF b
          <5>1. QED BY <1>1, <2>2
        <4>2. TwoTo[b + d] = B * t /\ TwoTo[(b - 1) + d] = C * t
          BY <2>3, <4>1, TwoToAdds
        <4>3. TwoTo[M + 1] = 2 * h /\ TwoTo[M] = h
          BY <1>1, TwoToIs DEF Hidden
        <4>4. QED BY <4>1, <4>2, <4>3
      <3> HIDE DEF B, C, t, n
      <3>4. n * t < B * t /\ C * t <= n * t /\ n * t \in Nat
        BY <1>2, <3>1, <3>2, Z3T(60)
      <3> DEFINE nt == n * t
      <3> HIDE DEF nt
      <3>5. nt < 2 * h /\ h <= nt /\ nt \in Nat
        BY <3>3, <3>4 DEF nt
      <3>6. nt \in h .. 2 * h - 1
        BY <1>1, <3>5
      <3>7. QED BY <3>6 DEF nt, t
    <2>8. d \in Nat /\ Normal(u).m = Sig(u) * TwoTo[d] /\ Normal(u).e = Pow(u) + 1 - d
          /\ Normal(u).m \in Hidden .. 2 * Hidden - 1 /\ (Exponent(u) # 0 => d = 0)
      BY <1>4, <2>3, <2>5, <2>6, <2>7
    <2> HIDE DEF d
    <2>9. QED BY <2>8
  <1>5. QED BY <1>3, <1>4

\* Zeros at the end count as bits.
LEMMA MoreBits ==
  ASSUME NEW n \in Nat \ {0}, NEW g \in Nat
  PROVE  BitLength(n * TwoTo[g]) = BitLength(n) + g /\ n * TwoTo[g] \in Nat \ {0}
  <1> DEFINE b == BitLength(n)  t == TwoTo[g]  l == b + g  m == n * t
             B == TwoTo[b]  C == TwoTo[b - 1]
  <1>1. b \in Nat \ {0} /\ n < B /\ C <= n /\ t \in Nat \ {0} /\ B \in Nat /\ C \in Nat
    <2>1. b \in 1 .. n /\ n < B /\ C <= n
      BY BitLengthIs
    <2>2. b \in Nat \ {0}
      BY <2>1
    <2>3. QED BY <2>1, <2>2, TwoToTwice, TwoToIs
  <1>2. B * t = TwoTo[l] /\ C * t = TwoTo[l - 1]
    <2>1. b \in Nat /\ b - 1 \in Nat /\ (b - 1) + g = l - 1
      BY <1>1
    <2>2. TwoTo[b + g] = B * t /\ TwoTo[(b - 1) + g] = C * t
      BY <2>1, TwoToAdds
    <2>3. QED BY <2>1, <2>2
  <1>3. m < B * t /\ C * t <= m /\ m \in Nat \ {0}
    <2> HIDE DEF B, C, t
    <2>1. n * t < B * t /\ C * t <= n * t /\ n * t \in Nat /\ n * t >= 1
      BY <1>1, Z3T(60)
    <2>2. QED BY <2>1
  <1>4. l \in Nat \ {0}
    BY <1>1
  <1> HIDE DEF m, l
  <1>5. BitLength(m) = l
    BY <1>2, <1>3, <1>4, LengthBits
  <1>6. QED BY <1>3, <1>5 DEF m, l

\* fmod puts the rest back to where a float has it.
LEMMA RestoredIs ==
  ASSUME NEW R \in 1 .. 2 * Hidden - 1, NEW P \in 0 .. ExpMax - 2, NEW g \in Nat,
         NEW m, m = R * TwoTo[g], m < 2 * Hidden,
         NEW e, e = (P + 1 - g) - (MantBits + 1 - BitLength(m)),
         NEW bits, bits = m * TwoTo[MantBits + 1 - BitLength(m)]
  PROVE  (IF e > 0 THEN bits - Hidden + e * Hidden ELSE bits \div TwoTo[1 - e]) = Nearest(R, P)
  <1> DEFINE h == Hidden  M == MantBits  l == BitLength(R)  p == LastPlace(R, P)
             S == R * TwoTo[P - p]  c == Nearest(R, P)  d == M + 1 - l  D == TwoTo[d]
             t == TwoTo[1 - e]
  <1>1. h \in Nat /\ h >= 2 /\ M \in Nat \ {0} /\ ExpMax \in Nat /\ ExpMax >= 2
    <2>1. ExpMax = 2 * Bias + 1 /\ Bias \in Nat /\ Bias >= 3 * M + 6
          /\ h \in Nat /\ h >= 2 /\ M \in Nat \ {0} /\ ExpMax \in Nat
      BY Format
    <2>2. QED BY <2>1
  <1>2. R \in Nat \ {0} /\ P \in Nat /\ R \in 1 .. 2 * h - 1
    BY <1>1
  <1>3. BitLength(m) = l + g /\ m \in Nat \ {0}
    BY <1>2, MoreBits
  <1>4. l \in 1 .. M + 1 /\ l + g \in 1 .. M + 1
    <2>1. \A i \in 1 .. 2 * Hidden - 1 : BitLength(i) \in 1 .. M + 1
      <3> SUFFICES ASSUME NEW i \in 1 .. 2 * Hidden - 1 PROVE BitLength(i) \in 1 .. M + 1
        OBVIOUS
      <3>1. 0 \in Nat
        OBVIOUS
      <3>2. QED BY <3>1, SigMovedUp
    <2>2. m \in 1 .. 2 * Hidden - 1
      BY <1>1, <1>3
    <2>3. QED BY <1>3, <2>1, <2>2
  <1>5. /\ p \in 0 .. P /\ S \in 1 .. 2 * Hidden - 1
        /\ p = IF P + l > M + 1 THEN P + l - (M + 1) ELSE 0
        /\ (p <= ExpMax - 2 => c < Infinity /\ c \in Patterns /\ Sig(c) = S /\ Pow(c) = p)
    BY <1>2, SigMovedUp
  <1>6. p <= ExpMax - 2 /\ P - p \in Nat
    <2> HIDE DEF p
    <2>1. QED BY <1>1, <1>2, <1>5
  <1>7. c = h * p + S
    <2>1. c \in 0 .. SignWeight - 1
      <3>1. R \in Nat /\ P \in Int
        BY <1>2
      <3>2. QED BY <3>1, NearestRange
    <2>2. 0 \in 0 .. 1
      OBVIOUS
    <2> HIDE DEF c
    <2>3. AbsBits(c) = c
      BY <2>1, <2>2, SignedPattern
    <2>4. c \in Patterns /\ Sig(c) = S /\ Pow(c) = p
      BY <1>5, <1>6
    <2> HIDE DEF p, S
    <2>5. AbsBits(c) = Hidden * Pow(c) + Sig(c)
      BY <2>4, SigPow
    <2>6. QED BY <2>3, <2>4, <2>5
  <1>8. d \in Nat /\ e = P + 1 - d /\ MantBits + 1 - BitLength(m) = d - g /\ d - g \in Nat
    <2> DEFINE lg == l + g
    <2>1. lg \in 1 .. M + 1 /\ BitLength(m) = lg /\ lg = l + g
      BY <1>3, <1>4
    <2> HIDE DEF l, lg
    <2>2. l \in Int /\ lg \in Int
      BY <1>1, <1>4, <2>1
    <2>3. d \in Nat /\ MantBits + 1 - BitLength(m) = d - g /\ d - g \in Nat
      BY <1>1, <1>4, <2>1, <2>2
    <2>4. e = (P + 1 - g) - (d - g)
      BY <2>3
    <2> HIDE DEF d
    <2>5. QED BY <1>2, <2>3, <2>4
  <1>9. bits = R * D /\ D \in Nat \ {0} /\ bits \in Nat
    <2>1. TwoTo[g + (d - g)] = TwoTo[g] * TwoTo[d - g]
      BY <1>8, TwoToAdds
    <2>2. g + (d - g) = d
      <3> HIDE DEF d
      <3>1. QED BY <1>8
    <2> DEFINE G == TwoTo[g]  F == TwoTo[d - g]
    <2>3. G \in Nat /\ F \in Nat /\ D \in Nat \ {0} /\ D = G * F /\ bits = (R * G) * F
      BY <1>8, <2>1, <2>2, TwoToIs
    <2> HIDE DEF G, F, D
    <2>4. (R * G) * F = R * (G * F)
      BY <1>2, <2>3, Z3T(60)
    <2>5. R * D \in Nat
      BY <1>2, <2>3, Z3T(60)
    <2>6. QED BY <2>3, <2>4, <2>5
  <1>10. CASE e > 0
    <2>1. p = e - 1 /\ P - p = d
      <3> HIDE DEF p, l
      <3>1. P + l > M + 1 \/ P + l = M + 1
        BY <1>1, <1>2, <1>4, <1>8, <1>10
      <3>2. QED BY <1>1, <1>2, <1>4, <1>5, <1>8, <1>10, <3>1
    <2>2. S = bits
      BY <1>9, <2>1
    <2>3. h * (e - 1) = e * h - h /\ e * h \in Int
      <3>1. e \in Int
        <4> HIDE DEF d
        <4>1. QED BY <1>2, <1>8
      <3> HIDE DEF h
      <3>2. QED BY <1>1, <3>1, Z3T(60)
    <2>4. c = bits - h + e * h
      <3> DEFINE a == e * h
      <3>1. c = h * (e - 1) + bits /\ h * (e - 1) = a - h /\ a \in Int
        BY <1>7, <2>1, <2>2, <2>3
      <3> HIDE DEF a, c
      <3>2. c = bits - h + a
        BY <1>1, <1>9, <3>1
      <3>3. QED BY <3>2 DEF a
    <2>5. QED BY <1>10, <2>4
  <1>11. CASE ~(e > 0)
    <2>1. p = 0 /\ P + (1 - e) = d /\ 1 - e \in Nat
      <3>1. e \in Int
        <4> HIDE DEF d
        <4>1. QED BY <1>2, <1>8
      <3> HIDE DEF p, l
      <3>2. ~(P + l > M + 1)
        BY <1>1, <1>2, <1>4, <1>8, <1>11
      <3>3. p = 0
        BY <1>5, <3>2
      <3> HIDE DEF d
      <3>4. QED BY <1>2, <1>8, <1>11, <3>1, <3>3
    <2>2. D = TwoTo[P] * t /\ t \in Nat \ {0} /\ TwoTo[P] \in Nat
      <3>1. TwoTo[P + (1 - e)] = TwoTo[P] * TwoTo[1 - e]
        BY <1>2, <2>1, TwoToAdds
      <3>2. QED BY <1>2, <2>1, <3>1, TwoToIs
    <2>3. S = R * TwoTo[P] /\ c = S /\ S \in Nat
      <3>1. P - p = P
        <4> HIDE DEF p
        <4>1. QED BY <1>2, <2>1
      <3>2. S = R * TwoTo[P]
        BY <3>1
      <3>3. h * p = 0
        <4> HIDE DEF p
        <4>1. QED BY <1>1, <2>1
      <3>4. S \in Nat
        <4> HIDE DEF S
        <4>1. QED BY <1>1, <1>5
      <3> HIDE DEF S, p, c
      <3>5. c = S
        BY <1>7, <3>3, <3>4
      <3>6. QED BY <3>2, <3>4, <3>5
    <2>4. bits = t * S
      <3> DEFINE q == TwoTo[P]
      <3>1. bits = R * (q * t) /\ S = R * q /\ q \in Nat /\ t \in Nat
        BY <1>9, <2>2, <2>3
      <3> HIDE DEF q, t, S
      <3>2. R * (q * t) = t * (R * q)
        BY <1>2, <3>1, Z3T(60)
      <3>3. QED BY <3>1, <3>2
    <2>5. bits \div t = S
      <3> HIDE DEF S, t
      <3>1. bits = t * S + 0 /\ bits \in Int /\ 0 \in 0 .. t - 1 /\ S \in Int
        <4>1. t * S \in Nat
          BY <1>9, <2>4
        <4>2. QED BY <1>9, <2>2, <2>3, <2>4, <4>1
      <3>2. QED BY <2>2, <3>1, DivUnique
    <2>6. QED BY <1>11, <2>3, <2>5
  <1>12. QED BY <1>10, <1>11

\* The loop of fmod comes to the rest of a shifted left.
LEMMA LongDivisionIs ==
  ASSUME NEW b \in Nat \ {0}, NEW a \in 0 .. 2 * b - 1, NEW d \in Nat
  PROVE  LET loop[i \in Nat] ==
               IF i = 0 THEN a
               ELSE 2 * (IF loop[i - 1] >= b THEN loop[i - 1] - b ELSE loop[i - 1])
         IN (IF loop[d] >= b THEN loop[d] - b ELSE loop[d]) = (a * TwoTo[d]) % b
  <1> DEFINE less(m) == IF m >= b THEN m - b ELSE m
             H(f) == [i \in Nat |-> IF i = 0 THEN a
                        ELSE 2 * (IF f[i - 1] >= b THEN f[i - 1] - b ELSE f[i - 1])]
             loop == CHOOSE f : f = H(f)
             R(i) == (a * TwoTo[i]) % b
             w == [i \in Nat |-> IF i = 0 THEN a ELSE 2 * R(i - 1)]
  <1>1. a \in Nat /\ a < 2 * b
    OBVIOUS
  <1>2. \A i \in Nat : a * TwoTo[i] \in Nat
    <2>1. SUFFICES ASSUME NEW i \in Nat PROVE a * TwoTo[i] \in Nat
      OBVIOUS
    <2> DEFINE t == TwoTo[i]
    <2>2. t \in Nat
      BY TwoToIs
    <2> HIDE DEF t
    <2>3. a * t \in Nat
      BY <1>1, <2>2, Z3T(60)
    <2>4. QED BY <2>3 DEF t
  <1>3. less(a) = R(0)
    <2> DEFINE q == IF a >= b THEN 1 ELSE 0  r == less(a)
    <2>1. a = b * q + r /\ r \in 0 .. b - 1 /\ q \in Int /\ a \in Int
      BY <1>1
    <2> HIDE DEF q, r
    <2>2. a % b = r
      BY <2>1, DivUnique
    <2>3. a * TwoTo[0] = a
      BY <1>1, TwoToIs
    <2>4. QED BY <2>2, <2>3 DEF r
  <1>4. \A i \in Nat \ {0} : less(2 * R(i - 1)) = R(i)
    <2> SUFFICES ASSUME NEW i \in Nat \ {0} PROVE less(2 * R(i - 1)) = R(i)
      OBVIOUS
    <2> DEFINE n == a * TwoTo[i - 1]  t == TwoTo[i - 1]  r == n % b
    <2>1. n \in Nat /\ t \in Nat
      BY <1>2, TwoToTwice
    <2>2. a * TwoTo[i] = 2 * n
      <3>1. TwoTo[i] = 2 * t
        BY TwoToTwice
      <3>2. a * (2 * t) = 2 * (a * t)
        <4> HIDE DEF t
        <4>1. QED BY <1>1, <2>1, Z3T(60)
      <3>3. QED BY <3>1, <3>2
    <2>3. (2 * n) % b = IF 2 * r >= b THEN 2 * r - b ELSE 2 * r
      <3> HIDE DEF n
      <3>1. QED BY <2>1, RestDoubled
    <2>4. R(i) = (2 * n) % b /\ R(i - 1) = r
      BY <2>2
    <2> HIDE DEF R, r, n
    <2>5. QED BY <2>3, <2>4
  <1>5. \A i \in Nat : less(w[i]) = R(i)
    <2> SUFFICES ASSUME NEW i \in Nat PROVE less(w[i]) = R(i)
      OBVIOUS
    <2>1. CASE i = 0
      <3>1. w[i] = a /\ R(i) = R(0)
        BY <2>1
      <3> HIDE DEF w, R
      <3>2. QED BY <1>3, <3>1
    <2>2. CASE i # 0
      <3>1. w[i] = 2 * R(i - 1) /\ i \in Nat \ {0}
        BY <2>2
      <3> HIDE DEF w, R
      <3>2. QED BY <1>4, <3>1
    <2>3. QED BY <2>1, <2>2
  <1>6. w = H(w)
    <2>1. ASSUME NEW i \in Nat PROVE w[i] = H(w)[i]
      <3>1. CASE i = 0
        BY <3>1
      <3>2. CASE i # 0
        <4>1. i - 1 \in Nat /\ w[i] = 2 * R(i - 1)
          BY <3>2
        <4>2. H(w)[i] = 2 * less(w[i - 1])
          BY <3>2
        <4>3. less(w[i - 1]) = R(i - 1)
          <5> HIDE DEF w, R, less
          <5>1. QED BY <1>5, <4>1
        <4> HIDE DEF H, w, R, less
        <4>4. QED BY <4>1, <4>2, <4>3
      <3>3. QED BY <3>1, <3>2
    <2>2. H(w) = [i \in Nat |-> H(w)[i]] /\ w = [i \in Nat |-> w[i]]
      OBVIOUS
    <2> HIDE DEF H, w
    <2>3. QED BY <2>1, <2>2
  <1>7. loop = H(loop)
    <2> HIDE DEF H
    <2>1. QED BY <1>6
  <1>8. loop[d] = w[d]
    <2> HIDE DEF loop, w
    <2>1. loop[0] = a /\ w[0] = a
      BY <1>6, <1>7
    <2>2. \A i \in 1 .. d : loop[i] = 2 * less(loop[i - 1])
      BY <1>7
    <2>3. \A i \in 1 .. d : w[i] = 2 * less(w[i - 1])
      BY <1>6
    <2> HIDE DEF H, less
    <2>4. Alike(loop, w, d)
      BY <2>1, <2>2, <2>3 DEF Alike
    <2>5. \A i \in 0 .. d : loop[i] = w[i]
      BY <2>4, AlikeSame
    <2>6. QED BY <2>5
  <1>9. less(loop[d]) = R(d)
    <2> HIDE DEF less, loop, w, R
    <2>1. QED BY <1>5, <1>8
  <1>10. QED BY <1>9

\* The same for the powers of two that the remainder is defined by.
LEMMA PowerFound ==
  ASSUME NEW c \in Nat \ {0}, NEW d \in Nat
  PROVE  LET power[k \in Nat] == IF k = 0 THEN 1 % c ELSE (2 * power[k - 1]) % c
         IN power[d] = TwoTo[d] % c
  <1> DEFINE H(f) == [k \in Nat |-> IF k = 0 THEN 1 % c ELSE (2 * f[k - 1]) % c]
             power == CHOOSE f : f = H(f)
             w == [k \in Nat |-> TwoTo[k] % c]
  <1>1. w = H(w)
    <2>1. ASSUME NEW k \in Nat PROVE w[k] = H(w)[k]
      <3>1. CASE k = 0
        <4>1. TwoTo[0] = 1
          BY TwoToIs
        <4>2. QED BY <3>1, <4>1
      <3>2. CASE k # 0
        <4> DEFINE n == TwoTo[k - 1]
        <4>1. k \in Nat \ {0} /\ k - 1 \in Nat
          BY <3>2
        <4>2. n \in Nat /\ TwoTo[k] = 2 * n
          BY <4>1, TwoToTwice
        <4>3. H(w)[k] = (2 * (n % c)) % c /\ w[k] = TwoTo[k] % c
          BY <3>2, <4>1
        <4> HIDE DEF n, H, w
        <4>4. (2 * n) % c = (2 * (n % c)) % c
          BY <4>2, RestDoubled
        <4>5. QED BY <4>2, <4>3, <4>4
      <3>3. QED BY <3>1, <3>2
    <2>2. H(w) = [k \in Nat |-> H(w)[k]] /\ w = [k \in Nat |-> w[k]]
      OBVIOUS
    <2> HIDE DEF H, w
    <2>3. QED BY <2>1, <2>2
  <1>2. power = H(power)
    <2> HIDE DEF H
    <2>1. QED BY <1>1
  <1>3. power[d] = w[d]
    <2> HIDE DEF power, w
    <2>1. power[0] = 1 % c /\ w[0] = 1 % c
      BY <1>1, <1>2
    <2>2. \A k \in 1 .. d : power[k] = (2 * power[k - 1]) % c
      BY <1>2
    <2>3. \A k \in 1 .. d : w[k] = (2 * w[k - 1]) % c
      BY <1>1
    <2> HIDE DEF H
    <2>4. Alike(power, w, d)
      BY <2>1, <2>2, <2>3 DEF Alike
    <2>5. \A k \in 0 .. d : power[k] = w[k]
      BY <2>4, AlikeSame
    <2>6. QED BY <2>5
  <1>4. power[d] = TwoTo[d] % c
    <2> HIDE DEF power
    <2>1. QED BY <1>3
  <1>5. QED BY <1>4

\* A remainder that is not zero is written back as the float it is.
LEMMA RemainderIs ==
  ASSUME NEW x, NEW y, Finite(x), Finite(y), AbsBits(y) # 0, AbsBits(x) >= AbsBits(y),
         NEW d, d = Normal(x).e - Normal(y).e,
         NEW m, m = (Normal(x).m * TwoTo[d]) % Normal(y).m,
         NEW e, e = Normal(y).e - (MantBits + 1 - BitLength(m)),
         NEW bits, bits = m * TwoTo[MantBits + 1 - BitLength(m)]
  PROVE  /\ d \in Nat /\ Normal(x).m \in 0 .. 2 * Normal(y).m - 1 /\ Normal(y).m \in Nat \ {0}
         /\ AbsBits(x) = AbsBits(y) => ExactRemainder(x, y) = 0
         /\ m = 0 => ExactRemainder(x, y) = 0
         /\ m # 0 => ExactRemainder(x, y) =
              IF e > 0 THEN bits - Hidden + e * Hidden ELSE bits \div TwoTo[1 - e]
  <1> DEFINE h == Hidden  S == Sig(x)  P == Pow(x)  T == Sig(y)  Q == Pow(y)
             a == Normal(x).m  b == Normal(y).m
             n == S * TwoTo[P - Q]  R == n % T
  <1>1. /\ x \in Patterns /\ y \in Patterns /\ AbsBits(x) # 0
        /\ h \in Nat /\ h >= 2 /\ ExpMax \in Nat /\ AbsBits(x) \in Int /\ AbsBits(y) \in Int
    <2>1. x \in Patterns /\ y \in Patterns /\ h \in Nat /\ h >= 2 /\ ExpMax \in Nat
          /\ AbsBits(x) \in 0 .. Infinity - 1 /\ AbsBits(y) \in 0 .. Infinity - 1
          /\ Infinity \in Nat
      BY ValueIs, Format
    <2>2. QED BY <2>1
  <1>2. /\ S \in 0 .. 2 * h - 1 /\ P \in 0 .. ExpMax /\ AbsBits(x) = h * P + S
        /\ T \in 0 .. 2 * h - 1 /\ Q \in 0 .. ExpMax /\ AbsBits(y) = h * Q + T
        /\ (Exponent(x) = 0 => P = 0) /\ (Exponent(x) # 0 => P = Exponent(x) - 1)
        /\ (Exponent(y) = 0 => Q = 0) /\ (Exponent(y) # 0 => Q = Exponent(y) - 1)
    BY <1>1, SigPow
  <1>3. T # 0 /\ S # 0
    BY <1>1, MagIs
  <1>4. Exponent(x) \in 0 .. ExpMax - 1 /\ Exponent(y) \in 0 .. ExpMax - 1 /\ Exponent(y) <= Exponent(x)
    <2>1. Exponent(x) \in 0 .. ExpMax /\ Exponent(y) \in 0 .. ExpMax
      BY <1>1, MagnitudeParts
    <2>2. Exponent(x) # ExpMax /\ Exponent(y) # ExpMax
      <3>1. ~(AbsBits(x) >= Infinity) /\ ~(AbsBits(y) >= Infinity)
        BY <1>1, Format DEF Finite
      <3>2. QED BY <1>1, <3>1, Kinds
    <2>3. AbsBits(y) >= Hidden * Exponent(y) /\ Hidden * Exponent(y) \in 0 .. Infinity
      <3>1. Exponent(y) >= Exponent(y)
        BY <2>1
      <3>2. QED BY <1>1, <2>1, <3>1, ExponentBounds
    <2>4. AbsBits(x) >= Hidden * Exponent(y)
      <3> DEFINE z == Hidden * Exponent(y)
      <3>1. z \in Int /\ AbsBits(y) >= z
        BY <2>3, Format
      <3> HIDE DEF z
      <3>2. AbsBits(x) >= z
        BY <1>1, <3>1
      <3>3. QED BY <3>2 DEF z
    <2>5. Exponent(x) >= Exponent(y)
      BY <1>1, <2>1, <2>4, ExponentBounds
    <2>6. QED BY <1>1, <2>1, <2>2, <2>5
  <1>5. P - Q \in Nat /\ Q \in 0 .. ExpMax - 2 /\ P \in Nat /\ Q \in Nat
    <2> DEFINE c == Exponent(x)  k == Exponent(y)
    <2>1. /\ (c = 0 => P = 0) /\ (c # 0 => P = c - 1) /\ (k = 0 => Q = 0) /\ (k # 0 => Q = k - 1)
          /\ c \in 0 .. ExpMax - 1 /\ k \in 0 .. ExpMax - 1 /\ k <= c
          /\ P \in 0 .. ExpMax /\ Q \in 0 .. ExpMax /\ ExpMax >= 3
      <3>1. ExpMax = 2 * Bias + 1 /\ Bias \in Nat /\ Bias >= 3 * MantBits + 6 /\ MantBits \in Nat
        BY Format
      <3>2. ExpMax >= 3
        BY <3>1
      <3>3. QED BY <1>2, <1>4, <3>2
    <2> HIDE DEF P, Q, c, k
    <2>2. P \in Nat /\ Q \in 0 .. ExpMax - 2
      BY <1>1, <2>1
    <2>3. Q <= P
      BY <1>1, <2>1
    <2>4. QED BY <1>1, <2>2, <2>3
  <1>6. PICK g \in Nat : /\ a = S * TwoTo[g] /\ Normal(x).e = P + 1 - g /\ a \in h .. 2 * h - 1
                         /\ (Exponent(x) # 0 => g = 0)
    BY <1>1, NormalIs
  <1>7. PICK f \in Nat : /\ b = T * TwoTo[f] /\ Normal(y).e = Q + 1 - f /\ b \in h .. 2 * h - 1
                         /\ (Exponent(y) # 0 => f = 0)
    BY <1>1, NormalIs
  <1> HIDE DEF a, b
  <1>8. d = (P - Q) + f - g
    <2>1. d = (P + 1 - g) - (Q + 1 - f)
      BY <1>6, <1>7
    <2> HIDE DEF P, Q
    <2>2. QED BY <1>5, <1>6, <1>7, <2>1
  <1>9. d \in Nat
    <2>1. CASE Exponent(x) # 0
      <3>1. g = 0
        BY <1>6, <2>1
      <3> HIDE DEF P, Q
      <3>2. QED BY <1>5, <1>7, <1>8, <3>1
    <2>2. CASE Exponent(x) = 0
      <3>1. P = 0 /\ Q = 0 /\ Exponent(y) = 0
        BY <1>1, <1>2, <1>4, <2>2
      <3>2. T <= S /\ S \in Nat /\ T \in Nat \ {0}
        <4>1. h * P = 0 /\ h * Q = 0
          <5> HIDE DEF P, Q, h
          <5>1. QED BY <1>1, <3>1
        <4> HIDE DEF P, Q, h, S, T
        <4>2. QED BY <1>1, <1>2, <1>3, <4>1
      <3>3. ~(f < g)
        <4> SUFFICES ASSUME f < g PROVE FALSE
          OBVIOUS
        <4> DEFINE F == TwoTo[f]  G == TwoTo[g]
        <4>1. 2 * F <= G /\ F \in Nat /\ G \in Nat
          BY <1>6, <1>7, TwoToGrows, TwoToIs
        <4> HIDE DEF F, G, S, T, h
        <4>2. T * F <= S * F /\ 2 * (S * F) <= S * G /\ T * F \in Nat /\ S * F \in Nat /\ S * G \in Nat
          <5>1. S * (2 * F) <= S * G /\ S * (2 * F) = 2 * (S * F)
            BY <3>2, <4>1, Z3T(60)
          <5>2. T * F <= S * F /\ T * F \in Nat /\ S * F \in Nat /\ S * G \in Nat
            BY <3>2, <4>1, Z3T(60)
          <5>3. QED BY <5>1, <5>2
        <4> DEFINE TF == T * F  SF == S * F  SG == S * G
        <4>3. a = SG /\ b = TF
          BY <1>6, <1>7 DEF F, G
        <4>4. TF <= SF /\ 2 * SF <= SG /\ TF \in Nat /\ SF \in Nat /\ SG \in Nat
          BY <4>2
        <4> HIDE DEF TF, SF, SG
        <4>5. a < 2 * h /\ h <= b /\ a \in Int /\ b \in Int
          BY <1>1, <1>6, <1>7
        <4>6. QED BY <1>1, <4>3, <4>4, <4>5
      <3> HIDE DEF P, Q
      <3>4. d = f - g
        BY <1>6, <1>7, <1>8, <3>1
      <3>5. QED BY <1>6, <1>7, <3>3, <3>4
    <2>3. QED BY <2>1, <2>2
  <1>10. a \in 0 .. 2 * b - 1 /\ b \in Nat \ {0}
    <2> HIDE DEF h
    <2>1. QED BY <1>1, <1>6, <1>7
  <1>11. n \in Nat /\ T \in Nat \ {0} /\ S \in Nat /\ TwoTo[P - Q] \in Nat
    <2> DEFINE t == TwoTo[P - Q]
    <2>1. t \in Nat
      BY <1>5, TwoToIs
    <2>2. S \in Nat /\ T \in Nat \ {0}
      <3> HIDE DEF S, T
      <3>1. QED BY <1>1, <1>2, <1>3
    <2> HIDE DEF S, t
    <2>3. S * t \in Nat
      BY <2>1, <2>2, Z3T(60)
    <2>4. QED BY <2>1, <2>2, <2>3 DEF t
  <1>12. a * TwoTo[d] = n * TwoTo[f]
    <2> DEFINE G == TwoTo[g]  D == TwoTo[d]  F == TwoTo[f]  t == TwoTo[P - Q]
    <2>1. g + d = (P - Q) + f
      <3> HIDE DEF P, Q
      <3>1. QED BY <1>5, <1>6, <1>7, <1>8
    <2>2. TwoTo[g + d] = G * D
      BY <1>6, <1>9, TwoToAdds
    <2>3. TwoTo[(P - Q) + f] = t * F
      BY <1>5, <1>7, TwoToAdds
    <2>4. G * D = t * F
      BY <2>1, <2>2, <2>3
    <2>5. a = S * G /\ G \in Nat /\ D \in Nat /\ t \in Nat /\ F \in Nat
      BY <1>6, <1>7, <1>5, <1>9, TwoToIs
    <2> HIDE DEF G, D, F, t, S
    <2>6. (S * G) * D = S * (G * D)
      BY <1>11, <2>5, Z3T(60)
    <2>7. S * (t * F) = (S * t) * F
      BY <1>11, <2>5, Z3T(60)
    <2>8. QED BY <2>4, <2>5, <2>6, <2>7 DEF D, F, t
  <1>13. m = R * TwoTo[f] /\ TwoTo[f] \in Nat \ {0}
    <2> DEFINE F == TwoTo[f]
    <2>1. F \in Nat \ {0}
      BY <1>7, TwoToIs
    <2>2. m = (n * F) % (T * F)
      BY <1>7, <1>12 DEF a, b
    <2> HIDE DEF n, T, F
    <2>3. (n * F) % (T * F) = (n % T) * F
      BY <1>11, <2>1, RestScaled
    <2>4. QED BY <2>1, <2>2, <2>3 DEF F
  <1>14. R \in 0 .. T - 1
    <2> HIDE DEF n, T
    <2>1. n \in Int
      BY <1>11
    <2>2. QED BY <1>11, <2>1, DivInt
  <1>15. ExactRemainder(x, y) = Nearest(R, Q)
    <2>1. Pow(x) >= Pow(y)
      <3> HIDE DEF P, Q
      <3>1. P >= Q
        BY <1>2, <1>5
      <3>2. QED BY <3>1 DEF P, Q
    <2> DEFINE H(F) == [k \in Nat |-> IF k = 0 THEN 1 % Sig(y) ELSE (2 * F[k - 1]) % Sig(y)]
               power == CHOOSE F : F = H(F)
    <2>2. power[P - Q] = TwoTo[P - Q] % T
      BY <1>5, <1>11, PowerFound
    <2>3. ExactRemainder(x, y) = Nearest((Sig(x) * power[Pow(x) - Pow(y)]) % Sig(y), Pow(y))
      BY <2>1 DEF ExactRemainder
    <2> HIDE DEF power
    <2> DEFINE t == TwoTo[P - Q]
    <2>4. (S * (t % T)) % T = (S * t) % T
      <3>1. t \in Nat
        BY <1>11
      <3> HIDE DEF t, S, T
      <3>2. QED BY <1>11, <3>1, RestOfProduct
    <2>5. QED BY <2>2, <2>3, <2>4
  <1>16. \A k \in Int : Nearest(0, k) = 0
    BY DEF Nearest
  <1>17. Q \in Int
    <2> HIDE DEF Q
    <2>1. QED BY <1>5
  <1>18. ASSUME AbsBits(x) = AbsBits(y) PROVE ExactRemainder(x, y) = 0
    <2>1. S = T /\ P = Q
      <3>1. Sig(AbsBits(x)) = Sig(x) /\ Sig(AbsBits(y)) = Sig(y)
            /\ Pow(AbsBits(x)) = Pow(x) /\ Pow(AbsBits(y)) = Pow(y)
        BY <1>1, SigPow
      <3>2. QED BY <1>18, <3>1
    <2>2. TwoTo[P - Q] = 1
      <3>1. P - Q = 0
        <4> HIDE DEF P, Q
        <4>1. QED BY <1>5, <2>1
      <3>2. QED BY <3>1, TwoToIs
    <2>3. n = T
      <3> HIDE DEF S, T
      <3>1. QED BY <1>11, <2>1, <2>2
    <2>4. R = 0
      <3> HIDE DEF T, n
      <3>1. T = T * 1 + 0 /\ T \in Int /\ 0 \in 0 .. T - 1
        BY <1>11
      <3>2. T % T = 0
        BY <1>11, <3>1, DivUnique
      <3>3. QED BY <2>3, <3>2
    <2> HIDE DEF R, Q
    <2>5. QED BY <1>15, <1>16, <1>17, <2>4
  <1>19. ASSUME m = 0 PROVE ExactRemainder(x, y) = 0
    <2> DEFINE F == TwoTo[f]
    <2>1. R * F = 0 /\ F \in Nat \ {0} /\ R \in Nat
      <3> HIDE DEF R, T
      <3>1. QED BY <1>11, <1>13, <1>14, <1>19
    <2> HIDE DEF R, F
    <2>2. R = 0
      BY <2>1, Z3T(60)
    <2> HIDE DEF Q
    <2>3. QED BY <1>15, <1>16, <1>17, <2>2
  <1>20. ASSUME m # 0
         PROVE  ExactRemainder(x, y) =
                  IF e > 0 THEN bits - Hidden + e * Hidden ELSE bits \div TwoTo[1 - e]
    <2>1. R \in 1 .. 2 * Hidden - 1
      <3>1. R # 0
        <4> DEFINE F == TwoTo[f]
        <4>1. m = R * F /\ F \in Nat
          BY <1>13
        <4> HIDE DEF R, F
        <4>2. QED BY <1>20, <4>1
      <3> HIDE DEF R, T
      <3>2. QED BY <1>1, <1>2, <1>11, <1>14, <3>1
    <2>2. m < 2 * Hidden
      <3>1. (Normal(x).m * TwoTo[d]) % b \in 0 .. b - 1
        <4> DEFINE z == a * TwoTo[d]
        <4>1. z \in Int
          <5> DEFINE t == TwoTo[d]
          <5>1. t \in Int /\ a \in Int
            BY <1>9, <1>10, TwoToIs
          <5> HIDE DEF t
          <5>2. a * t \in Int
            BY <5>1, Z3T(60)
          <5>3. QED BY <5>2 DEF t
        <4> HIDE DEF z
        <4>2. z % b \in 0 .. b - 1
          BY <1>10, <4>1, DivInt
        <4>3. QED BY <4>2 DEF z, a
      <3>2. m \in 0 .. b - 1
        BY <3>1 DEF b
      <3>3. QED BY <1>1, <1>7, <3>2
    <2>3. e = (Q + 1 - f) - (MantBits + 1 - BitLength(m))
      BY <1>7
    <2>4. m = R * TwoTo[f]
      BY <1>13
    <2> HIDE DEF R, Q
    <2>5. Nearest(R, Q) = IF e > 0 THEN bits - Hidden + e * Hidden ELSE bits \div TwoTo[1 - e]
      BY <1>5, <1>7, <2>1, <2>2, <2>3, <2>4, RestoredIs, SMTT(30)
    <2>6. QED BY <1>15, <2>5
  <1>21. QED BY <1>9, <1>10, <1>18, <1>19, <1>20 DEF a, b

\* fmod(x, y) is the exact remainder of |x| by |y| with the sign of x, for all
\* floats, subnormals included, and as many steps of its loop as that takes.
THEOREM FmodIs ==
  ASSUME NEW x \in Patterns, NEW y \in Patterns
  PROVE  fmod(x, y) = IF IsNaN(x) \/ IsNaN(y) \/ IsZero(y) \/ AbsBits(x) = Infinity THEN NaN
                      ELSE IF AbsBits(x) < AbsBits(y) THEN x
                      ELSE WithSign(SignBit(x), ExactRemainder(x, y))
  <1> DEFINE a == Normal(x)  b == Normal(y)  d == a.e - b.e
             H(f) == [i \in Nat |-> IF i = 0 THEN a.m
                        ELSE 2 * (IF f[i - 1] >= b.m THEN f[i - 1] - b.m ELSE f[i - 1])]
             loop == CHOOSE f : f = H(f)
             m == IF loop[d] >= b.m THEN loop[d] - b.m ELSE loop[d]
             e == b.e - (MantBits + 1 - BitLength(m))
             bits == m * TwoTo[MantBits + 1 - BitLength(m)]
             r == IF e > 0 THEN bits - Hidden + e * Hidden ELSE bits \div TwoTo[1 - e]
  <1>1. fmod(x, y) =
          IF IsZero(y) \/ IsNaN(y) \/ Exponent(x) = ExpMax THEN NaN
          ELSE IF AbsBits(x) < AbsBits(y) THEN x
          ELSE IF AbsBits(x) = AbsBits(y) \/ m = 0 THEN WithSign(SignBit(x), Zero)
          ELSE WithSign(SignBit(x), r)
    BY DEF fmod
  <1>2. AbsBits(x) \in Int /\ AbsBits(y) \in Int /\ Infinity \in Int
    <2>1. AbsBits(x) \in 0 .. SignWeight - 1 /\ AbsBits(y) \in 0 .. SignWeight - 1
      BY PatternParts
    <2>2. QED BY <2>1, Format
  <1>3. Exponent(x) = ExpMax <=> IsNaN(x) \/ AbsBits(x) = Infinity
    <2>1. AbsBits(x) >= Infinity <=> Exponent(x) = ExpMax
      BY Kinds
    <2>2. QED BY <1>2, <2>1 DEF IsNaN
  <1>4. CASE IsZero(y) \/ IsNaN(y) \/ Exponent(x) = ExpMax
    <2> HIDE DEF m, r
    <2>1. QED BY <1>1, <1>3, <1>4
  <1>5. CASE ~(IsZero(y) \/ IsNaN(y) \/ Exponent(x) = ExpMax) /\ AbsBits(x) < AbsBits(y)
    <2> HIDE DEF m, r
    <2>1. QED BY <1>1, <1>3, <1>5
  <1>6. CASE ~(IsZero(y) \/ IsNaN(y) \/ Exponent(x) = ExpMax) /\ ~(AbsBits(x) < AbsBits(y))
    <2>1. Finite(x) /\ Finite(y) /\ AbsBits(y) # 0 /\ AbsBits(x) >= AbsBits(y)
      <3>1. AbsBits(x) < Infinity
        BY <1>2, <1>3, <1>6 DEF IsNaN
      <3>2. QED BY <1>2, <1>6, <3>1 DEF Finite, IsZero
    <2> DEFINE n == (a.m * TwoTo[d]) % b.m
    <2>2. d \in Nat /\ a.m \in 0 .. 2 * b.m - 1 /\ b.m \in Nat \ {0}
      <3> DEFINE f == b.e - (MantBits + 1 - BitLength(n))
                 c == n * TwoTo[MantBits + 1 - BitLength(n)]
      <3>1. f = b.e - (MantBits + 1 - BitLength(n)) /\ c = n * TwoTo[MantBits + 1 - BitLength(n)]
        OBVIOUS
      <3> HIDE DEF f, c
      <3>2. QED BY <2>1, <3>1, RemainderIs, SMTT(30)
    <2>3. m = n
      <3> DEFINE A == a.m  B == b.m  D == d
      <3>1. D \in Nat /\ A \in 0 .. 2 * B - 1 /\ B \in Nat \ {0}
        BY <2>2
      <3> HIDE DEF A, B, D
      <3> DEFINE J(f) == [i \in Nat |-> IF i = 0 THEN A
                            ELSE 2 * (IF f[i - 1] >= B THEN f[i - 1] - B ELSE f[i - 1])]
                 l == CHOOSE f : f = J(f)
      <3>2. (IF l[D] >= B THEN l[D] - B ELSE l[D]) = (A * TwoTo[D]) % B
        BY <3>1, LongDivisionIs
      <3>3. l = loop
        BY DEF A, B
      <3> HIDE DEF l, loop
      <3>4. QED BY <3>2, <3>3 DEF A, B, D
    <2> HIDE DEF m, n
    <2>4. /\ (AbsBits(x) = AbsBits(y) => ExactRemainder(x, y) = 0)
          /\ (m = 0 => ExactRemainder(x, y) = 0)
          /\ (m # 0 => ExactRemainder(x, y) = r)
      <3>1. d = Normal(x).e - Normal(y).e /\ m = (Normal(x).m * TwoTo[d]) % Normal(y).m
            /\ e = Normal(y).e - (MantBits + 1 - BitLength(m))
            /\ bits = m * TwoTo[MantBits + 1 - BitLength(m)]
        BY <2>3 DEF n
      <3>2. r = IF e > 0 THEN bits - Hidden + e * Hidden ELSE bits \div TwoTo[1 - e]
        OBVIOUS
      <3> HIDE DEF d, e, bits, r
      <3>3. /\ (AbsBits(x) = AbsBits(y) => ExactRemainder(x, y) = 0)
            /\ (m = 0 => ExactRemainder(x, y) = 0)
            /\ (m # 0 => ExactRemainder(x, y) =
                  IF e > 0 THEN bits - Hidden + e * Hidden ELSE bits \div TwoTo[1 - e])
        BY <2>1, <3>1, RemainderIs, SMTT(30)
      <3>4. QED BY <3>2, <3>3
    <2> HIDE DEF r
    <2>5. QED BY <1>1, <1>3, <1>6, <2>4 DEF Zero
  <1>7. QED BY <1>4, <1>5, <1>6

-----------------------------------------------------------------------------
(* The square root.                                                        *)

\* Integers that a root lies between.
LEMMA RootBetween ==
  ASSUME NEW h \in Nat, h >= 2, NEW m \in Nat, h * h <= m, m <= (2 * h) * (2 * h - 1),
         NEW s \in Nat, s * s < m, (256 * 256) * m < (256 * s + 265) * (256 * s + 265),
         NEW t, t = s + (IF s - (m - s * s) < 0 THEN 1 ELSE 0)
  PROVE  /\ t \in h .. 2 * h - 1 /\ m <= t * t + t
         /\ m > t * t - t
  <1>1. s >= h - 1
    <2> SUFFICES ASSUME s <= h - 2 PROVE FALSE
      OBVIOUS
    <2> DEFINE a == 256 * s + 265  b == 256 * h
    <2>1. a \in Nat /\ b \in Nat /\ a <= b
      OBVIOUS
    <2>2. a * a <= b * b
      <3> HIDE DEF a, b
      <3>1. a * a <= a * b /\ a * b <= b * b
        BY <2>1, Z3T(60)
      <3>2. a * a \in Int /\ a * b \in Int /\ b * b \in Int
        BY <2>1, Z3T(60)
      <3>3. QED BY <3>1, <3>2
    <2>3. b * b = (256 * 256) * (h * h)
      BY Z3T(60)
    <2> DEFINE aa == a * a  bb == b * b  hh == h * h
    <2>4. hh \in Nat /\ aa \in Int /\ bb \in Int /\ aa <= bb /\ bb = (256 * 256) * hh
          /\ hh <= m /\ (256 * 256) * m < aa
      BY <2>1, <2>2, <2>3, Z3T(60)
    <2> HIDE DEF aa, bb, hh
    <2>5. QED BY <2>4
  <1> DEFINE q == s * s
  <1>2. q \in Nat
    BY Z3T(60)
  <1>3. m <= q + 3 * s + 2
    <2>1. (256 * s + 265) * (256 * s + 265) = (256 * 256) * (s * s) + 135680 * s + 70225
      BY Z3T(60)
    <2>2. (256 * 256) * m < (256 * 256) * q + 135680 * s + 70225
      BY <2>1
    <2> HIDE DEF q
    <2>3. QED BY <1>2, <2>2
  <1>4. CASE s - (m - q) < 0
    <2>1. t = s + 1 /\ m > q + s
      <3>1. t = s + 1
        BY <1>4
      <3> HIDE DEF q
      <3>2. QED BY <1>2, <1>4, <3>1
    <2>2. t * t + t = q + 3 * s + 2 /\ t * t - t = q + s
      BY <2>1, Z3T(60)
    <2>3. s # 2 * h - 1
      <3> SUFFICES ASSUME s = 2 * h - 1 PROVE FALSE
        OBVIOUS
      <3>1. s * s + s = (2 * h) * (2 * h - 1)
        BY Z3T(60)
      <3> DEFINE z == (2 * h) * (2 * h - 1)
      <3>2. z \in Int /\ m <= z /\ q + s = z
        BY <3>1, Z3T(60)
      <3> HIDE DEF z, q
      <3>3. QED BY <1>2, <2>1, <3>2
    <2>4. s < 2 * h
      <3> SUFFICES ASSUME s >= 2 * h PROVE FALSE
        OBVIOUS
      <3>1. s * s >= (2 * h) * s /\ (2 * h) * s >= (2 * h) * (2 * h - 1)
        BY Z3T(60)
      <3> DEFINE z == (2 * h) * (2 * h - 1)  w == (2 * h) * s
      <3>2. z \in Int /\ w \in Int /\ m <= z /\ q >= w /\ w >= z /\ q < m
        BY <3>1, Z3T(60)
      <3> HIDE DEF z, q, w
      <3>3. QED BY <1>2, <3>2
    <2>5. t \in h .. 2 * h - 1
      BY <1>1, <2>1, <2>3, <2>4
    <2> DEFINE u == t * t
    <2>6. u \in Int /\ u + t = q + 3 * s + 2 /\ u - t = q + s
      BY <2>1, <2>2, Z3T(60)
    <2> HIDE DEF u, q
    <2>7. m <= u + t /\ m > u - t
      BY <1>3, <2>1, <2>6
    <2>8. QED BY <2>5, <2>7 DEF u
  <1>5. CASE ~(s - (m - q) < 0)
    <2>1. t = s
      BY <1>5
    <2>2. m <= q + s
      <3> HIDE DEF q
      <3>1. QED BY <1>2, <1>5
    <2>3. s # h - 1
      <3> SUFFICES ASSUME s = h - 1 PROVE FALSE
        OBVIOUS
      <3>1. s * s + s = h * h - h
        BY Z3T(60)
      <3> DEFINE z == h * h
      <3>2. z \in Int /\ z <= m /\ q + s = z - h
        BY <3>1, Z3T(60)
      <3> HIDE DEF z, q
      <3>3. QED BY <1>2, <2>2, <3>2
    <2>4. s < 2 * h
      <3> SUFFICES ASSUME s >= 2 * h PROVE FALSE
        OBVIOUS
      <3>1. s * s >= (2 * h) * s /\ (2 * h) * s >= (2 * h) * (2 * h - 1)
        BY Z3T(60)
      <3> DEFINE z == (2 * h) * (2 * h - 1)  w == (2 * h) * s
      <3>2. z \in Int /\ w \in Int /\ m <= z /\ q >= w /\ w >= z /\ q < m
        BY <3>1, Z3T(60)
      <3> HIDE DEF z, q, w
      <3>3. QED BY <1>2, <3>2
    <2>5. t \in h .. 2 * h - 1
      BY <1>1, <2>1, <2>3, <2>4
    <2>6. m <= t * t + t /\ m > t * t - t
      <3>1. t * t = q /\ q < m
        BY <2>1
      <3> HIDE DEF q
      <3>2. QED BY <1>2, <2>1, <2>2, <3>1
    <2>7. QED BY <2>5, <2>6
  <1>6. QED BY <1>4, <1>5

\* What the root is taken of: the significand moved up, and the exponent it then has.
LEMMA ReducedIs ==
  ASSUME NEW x \in 1 .. Infinity - 1
  PROVE  \E j \in Nat, E \in Int :
           LET S == Sig(x) * TwoTo[j] IN
           /\ S \in Hidden .. 2 * Hidden - 1 /\ E = Pow(x) + 1 - j
           /\ E \in 1 - MantBits .. ExpMax - 1
           /\ Reduced(x).top = (E + Bias) \div 2
           /\ Reduced(x).m = S * Hidden * (IF E % 2 = 1 THEN 1 ELSE 2)
  <1> DEFINE h == Hidden  M == MantBits  n == Sig(x)
  <1>1. h \in Nat /\ h >= 2 /\ M \in Nat \ {0} /\ ExpMax \in Nat /\ Infinity \in Nat
        /\ SignWeight = Infinity + h /\ ExpMax = 2 * Bias + 1 /\ Bias \in Nat
        /\ Bias >= 3 * M + 6
    BY Format
  <1>2. x \in 0 .. SignWeight - 1
    BY <1>1
  <1>3. x \in Patterns /\ SignBit(x) = 0 /\ AbsBits(x) = x
    <2>1. 0 \in 0 .. 1
      OBVIOUS
    <2>2. QED BY <1>2, <2>1, SignedPattern
  <1>4. Finite(x) /\ x # 0
    BY <1>1, <1>3 DEF Finite
  <1>5. Exponent(x) \in 0 .. ExpMax - 1
    <2>1. Exponent(x) \in 0 .. ExpMax /\ Exponent(x) # ExpMax
      <3>1. ~(AbsBits(x) >= Infinity)
        BY <1>1, <1>3
      <3>2. QED BY <1>3, <3>1, MagnitudeParts, Kinds
    <2>2. QED BY <1>1, <2>1
  <1>6. CASE Exponent(x) # 0
    <2> DEFINE j == 0  E == Exponent(x)  S == n * TwoTo[j]
    <2>1. n = h + Mantissa(x) /\ Pow(x) = E - 1 /\ Mantissa(x) \in 0 .. h - 1
      BY <1>3, <1>6, SigPow, MagnitudeParts
    <2>2. S = h + Mantissa(x) /\ S \in h .. 2 * h - 1
      <3>1. n \in h .. 2 * h - 1
        <4> HIDE DEF h, n
        <4>1. QED BY <1>1, <2>1 DEF h
      <3>2. S = n
        <4> HIDE DEF n
        <4>1. QED BY <1>1, <3>1, TwoToIs
      <3>3. QED BY <2>1, <3>1, <3>2
    <2>3. /\ Reduced(x).top = (E + Bias) \div 2
          /\ Reduced(x).m = S * Hidden * (IF E % 2 = 1 THEN 1 ELSE 2)
      <3>1. E - 0 = E
        BY <1>5
      <3>2. Reduced(x) = [top |-> (E + Bias) \div 2,
              m |-> (Hidden + Mantissa(x)) * Hidden * (IF E % 2 = 1 THEN 1 ELSE 2)]
        BY <1>6, <3>1 DEF Reduced
      <3> HIDE DEF S, E
      <3>3. Reduced(x) = [top |-> (E + Bias) \div 2,
              m |-> S * Hidden * (IF E % 2 = 1 THEN 1 ELSE 2)]
        BY <2>2, <3>2
      <3>4. QED BY <3>3
    <2>4. E = Pow(x) + 1 - j /\ E \in 1 - M .. ExpMax - 1 /\ j \in Nat /\ E \in Int
      <3> HIDE DEF E
      <3>1. QED BY <1>1, <1>5, <2>1 DEF E
    <2>5. \E i \in Nat, F \in Int :
            LET G == Sig(x) * TwoTo[i] IN
            /\ G \in Hidden .. 2 * Hidden - 1 /\ F = Pow(x) + 1 - i
            /\ F \in 1 - MantBits .. ExpMax - 1
            /\ Reduced(x).top = (F + Bias) \div 2
            /\ Reduced(x).m = G * Hidden * (IF F % 2 = 1 THEN 1 ELSE 2)
      <3>1. S = Sig(x) * TwoTo[j] /\ S \in Hidden .. 2 * Hidden - 1
        BY <2>2
      <3> HIDE DEF S, E, j
      <3>2. QED BY <2>3, <2>4, <3>1
    <2>6. QED BY <2>5
  <1>7. CASE Exponent(x) = 0
    <2> DEFINE b == BitLength(n)  j == M + 1 - b  E == b - M  S == n * TwoTo[j]
               ix == Scaled(x, M)  p == LastPlace(n, M)
    <2>1. n = Mantissa(x) /\ Pow(x) = 0 /\ n \in 1 .. h - 1
      <3>1. n = Mantissa(x) /\ Pow(x) = 0 /\ n # 0 /\ Mantissa(x) \in 0 .. h - 1
        BY <1>3, <1>4, <1>7, SigPow, MagIs, MagnitudeParts
      <3> HIDE DEF n, h
      <3>2. QED BY <1>1, <3>1 DEF h
    <2>2. n \in 1 .. 2 * Hidden - 1 /\ n \in Nat \ {0} /\ n \in Int
      <3> HIDE DEF n
      <3>1. QED BY <1>1, <2>1
    <2>3. b \in 1 .. M
      <3>1. b \in Nat \ {0} /\ TwoTo[b - 1] <= n
        <4>1. b \in 1 .. n /\ TwoTo[b - 1] <= n
          BY <2>2, BitLengthIs
        <4>2. QED BY <2>2, <4>1
      <3>2. ~(M <= b - 1)
        <4> SUFFICES ASSUME M <= b - 1 PROVE FALSE
          OBVIOUS
        <4>1. TwoTo[M] <= TwoTo[b - 1]
          BY <1>1, <3>1, TwoToGrows
        <4> DEFINE C == TwoTo[b - 1]
        <4>2. h <= C /\ C <= n /\ C \in Int
          <5>1. C \in Nat
            <6>1. b - 1 \in Nat
              BY <3>1
            <6>2. QED BY <6>1, TwoToIs
          <5>2. QED BY <3>1, <4>1, <5>1 DEF Hidden
        <4> HIDE DEF C, n
        <4>3. QED BY <1>1, <2>1, <4>2
      <3> HIDE DEF b
      <3>3. QED BY <1>1, <3>1, <3>2
    <2>4. p = b - 1 /\ M - p = j
      <3> HIDE DEF b
      <3>1. p = Greater(M + b - (MantBits + 1), 0)
        BY DEF LastPlace, b
      <3>2. M + b - (MantBits + 1) = b - 1
        BY <1>1, <2>3
      <3>3. p = b - 1
        BY <2>3, <3>1, <3>2 DEF Greater
      <3> HIDE DEF p
      <3>4. QED BY <1>1, <2>3, <3>3
    <2> DEFINE a == Nearest(n, M)
    <2>5. /\ S \in 1 .. 2 * Hidden - 1
          /\ (p <= ExpMax - 2 => a < Infinity /\ a \in Patterns /\ Sig(a) = S /\ Pow(a) = p)
      <3>1. /\ n * TwoTo[M - p] \in 1 .. 2 * Hidden - 1
            /\ (p <= ExpMax - 2 => a < Infinity /\ a \in Patterns
                                   /\ Sig(a) = n * TwoTo[M - p] /\ Pow(a) = p)
        <4>1. M \in Nat
          BY <1>1
        <4>2. QED BY <2>2, <4>1, SigMovedUp
      <3>2. QED BY <2>4, <3>1
    <2>6. p <= ExpMax - 2
      <3> HIDE DEF p, b
      <3>1. QED BY <1>1, <2>3, <2>4
    <2>7. S \in h .. 2 * h - 1
      <3> DEFINE C == TwoTo[b - 1]  t == TwoTo[j]
      <3>1. C <= n /\ C \in Nat /\ t \in Nat
        <4>1. C <= n
          BY <2>2, BitLengthIs
        <4>2. b - 1 \in Nat /\ j \in Nat
          <5> HIDE DEF b
          <5>1. QED BY <1>1, <2>3
        <4>3. QED BY <4>1, <4>2, TwoToIs
      <3>2. C * t = h
        <4>1. b - 1 \in Nat /\ j \in Nat /\ (b - 1) + j = M
          <5> HIDE DEF b
          <5>1. QED BY <1>1, <2>3
        <4>2. TwoTo[(b - 1) + j] = C * t
          BY <4>1, TwoToAdds
        <4>3. QED BY <4>1, <4>2 DEF Hidden
      <3> HIDE DEF C, t, n
      <3>3. C * t <= n * t
        BY <2>2, <3>1, Z3T(60)
      <3>4. S = n * t
        BY DEF t
      <3> HIDE DEF S
      <3>5. S >= h
        BY <3>2, <3>3, <3>4
      <3>6. QED BY <1>1, <2>5, <3>5
    <2>8. ix = a
      <3>1. ~(AbsBits(x) >= Infinity)
        BY <1>1, <1>3
      <3>2. Pow(x) + M = M
        BY <1>1, <2>1
      <3>3. ix = WithSign(0, a)
        BY <1>3, <3>1, <3>2 DEF Scaled
      <3>4. a \in 0 .. SignWeight - 1 /\ 0 \in 0 .. 1
        <4>1. n \in Nat /\ M \in Int
          BY <1>1, <2>2
        <4>2. a \in 0 .. SignWeight - 1
          BY <4>1, NearestRange
        <4>3. QED BY <4>2
      <3> HIDE DEF a
      <3>5. WithSign(0, a) = a
        BY <3>4, SignedPattern
      <3>6. QED BY <3>3, <3>5
    <2>9. Exponent(ix) = b /\ Hidden + Mantissa(ix) = S
      <3>1. ix \in Patterns /\ Sig(ix) = S /\ Pow(ix) = p
        BY <2>5, <2>6, <2>8
      <3> HIDE DEF ix, S, p, b, n
      <3>2. Exponent(ix) # 0
        <4>1. Mantissa(ix) \in 0 .. h - 1
          BY <3>1, MagnitudeParts
        <4>2. Exponent(ix) = 0 => Sig(ix) = Mantissa(ix)
          BY <3>1, SigPow
        <4>3. QED BY <1>1, <2>7, <3>1, <4>1, <4>2
      <3>3. Pow(ix) = Exponent(ix) - 1 /\ Sig(ix) = Hidden + Mantissa(ix)
            /\ Exponent(ix) \in 0 .. ExpMax
        BY <3>1, <3>2, SigPow, MagnitudeParts
      <3>4. QED BY <1>1, <2>3, <2>4, <3>1, <3>3
    <2>10. /\ Reduced(x).top = (E + Bias) \div 2
           /\ Reduced(x).m = S * Hidden * (IF E % 2 = 1 THEN 1 ELSE 2)
      <3>1. Reduced(x) = [top |-> ((Exponent(ix) - M) + Bias) \div 2,
              m |-> (Hidden + Mantissa(ix)) * Hidden * (IF (Exponent(ix) - M) % 2 = 1 THEN 1 ELSE 2)]
        BY <1>7 DEF Reduced
      <3> HIDE DEF ix, S, b
      <3>2. Reduced(x) = [top |-> (E + Bias) \div 2,
              m |-> S * Hidden * (IF E % 2 = 1 THEN 1 ELSE 2)]
        BY <2>9, <3>1
      <3> HIDE DEF E
      <3>3. QED BY <3>2
    <2>11. E = Pow(x) + 1 - j /\ E \in 1 - M .. ExpMax - 1 /\ j \in Nat /\ E \in Int
      <3> HIDE DEF b
      <3>1. QED BY <1>1, <2>1, <2>3
    <2>12. \E i \in Nat, F \in Int :
            LET G == Sig(x) * TwoTo[i] IN
            /\ G \in Hidden .. 2 * Hidden - 1 /\ F = Pow(x) + 1 - i
            /\ F \in 1 - MantBits .. ExpMax - 1
            /\ Reduced(x).top = (F + Bias) \div 2
            /\ Reduced(x).m = G * Hidden * (IF F % 2 = 1 THEN 1 ELSE 2)
      <3>1. S = Sig(x) * TwoTo[j] /\ S \in Hidden .. 2 * Hidden - 1
        BY <2>7
      <3> HIDE DEF S, E, j
      <3>2. QED BY <2>10, <2>11, <3>1
    <2>13. QED BY <2>12
  <1>8. QED BY <1>6, <1>7

\* A root between two integers, as the float that is nearest.
LEMMA NearestRootIs ==
  ASSUME NEW h \in Nat, h >= 2, NEW t \in h .. 2 * h - 1, NEW m \in Nat,
         m <= t * t + t, m > t * t - t, t = h => m >= h * h,
         NEW n, n = 16 * m
  PROVE  /\ t # h => Square(4 * t - 2) < n
         /\ t = h => Square(4 * t - 1) < n
         /\ n < Square(4 * t + 2)
  <1> DEFINE q == t * t
  <1>1. q \in Nat /\ t \in Nat
    BY Z3T(60)
  <1>2. /\ Square(4 * t - 2) = 16 * q - 16 * t + 4 /\ Square(4 * t - 1) = 16 * q - 8 * t + 1
        /\ Square(4 * t + 2) = 16 * q + 16 * t + 4
    BY Z3T(60) DEF Square
  <1> HIDE DEF q
  <1>3. t # h => Square(4 * t - 2) < n
    BY <1>1, <1>2 DEF q
  <1>4. n < Square(4 * t + 2)
    BY <1>1, <1>2 DEF q
  <1>5. t = h => Square(4 * t - 1) < n
    <2> SUFFICES ASSUME t = h PROVE Square(4 * t - 1) < n
      OBVIOUS
    <2>1. q <= m
      BY DEF q
    <2>2. QED BY <1>1, <1>2, <2>1
  <1>6. QED BY <1>3, <1>4, <1>5

\* What wraps around in sqrt is small, so that the top bit of d1 is its sign.
LEMMA WrappedSign ==
  ASSUME NEW w \in Nat, NEW h \in Nat, h >= 2, w >= 16 * h,
         NEW s \in 0 .. 2 * h, NEW m \in Nat, s * s < m,
         (256 * 256) * m < (256 * s + 265) * (256 * s + 265)
  PROVE  ((s - ((m - s * s) % (2 * w))) % (2 * w)) \div w
           = IF s - (m - s * s) < 0 THEN 1 ELSE 0
  <1> DEFINE q == s * s  d == m - q  e == s - d  z == e % (2 * w)
  <1>1. s \in Nat /\ q \in Nat /\ d \in Nat /\ d > 0 /\ m = q + d
    <2>1. s \in Nat
      OBVIOUS
    <2>2. q \in Nat
      BY <2>1, Z3T(60)
    <2> HIDE DEF q
    <2>3. QED BY <2>1, <2>2 DEF q
  <1>2. (256 * s + 265) * (256 * s + 265) = (256 * 256) * q + (2 * 256 * 265) * s + 265 * 265
    BY <1>1, Z3T(60)
  <1>3. d <= 3 * s + 1
    <2> HIDE DEF q, d
    <2>1. (256 * 256) * (q + d) < (256 * 256) * q + (2 * 256 * 265) * s + 265 * 265
      BY <1>1, <1>2
    <2>2. QED BY ONLY <1>1, <2>1, Z3
  <1>4. d \in 0 .. 2 * w - 1 /\ s < w /\ e \in -w .. w - 1 /\ e \in Int
    <2> HIDE DEF d
    <2>1. QED BY <1>1, <1>3
  <1>5. d % (2 * w) = d
    <2> HIDE DEF d
    <2>1. QED BY <1>4
  <1>6. z \div w = IF e < 0 THEN 1 ELSE 0
    <2> HIDE DEF e
    <2>1. CASE e >= 0
      <3>1. z = e
        BY <1>4, <2>1
      <3>2. e = w * 0 + e /\ e \in 0 .. w - 1 /\ w \in Nat \ {0}
            /\ e \in Int
        BY <1>4, <2>1
      <3> HIDE DEF z
      <3>3. e \div w = 0
        BY <3>2, DivUnique
      <3>4. QED BY <1>4, <2>1, <3>1, <3>3
    <2>2. CASE e < 0
      <3>1. e = (2 * w) * (-1) + (e + 2 * w) /\ e + 2 * w \in 0 .. 2 * w - 1
            /\ 2 * w \in Nat \ {0} /\ e + 2 * w \in Int
        BY <1>4, <2>2
      <3>2. z = e + 2 * w
        BY <1>4, <2>2, <3>1
      <3> DEFINE v == e + w
      <3>3. z = w * 1 + v /\ v \in 0 .. w - 1 /\ w \in Nat \ {0}
        BY <1>4, <2>2, <3>2
      <3> HIDE DEF z, v
      <3>4. z \div w = 1
        BY <3>3, DivUnique
      <3>5. QED BY <2>2, <3>4
    <2>3. QED BY <1>4, <2>1, <2>2
  <1> HIDE DEF q, d
  <1>7. QED BY <1>5, <1>6 DEF q, d

\* sqrt(x) is the float nearest to the root of x, from every approximation that
\* is as close as the comment in the code says.
THEOREM SqrtIs ==
  ASSUME NEW x \in 1 .. Infinity - 1, NEW s \in Approximations(x)
  PROVE  SignBit(sqrt(x, s)) = 0 /\ NearestRoot(sqrt(x, s), x)
  <1> DEFINE h == Hidden  M == MantBits  B == Bias  m == Reduced(x).m  top == Reduced(x).top
             t == s + (IF s - (m - s * s) < 0 THEN 1 ELSE 0)
             r == sqrt(x, s)
  <1>1. h \in Nat /\ h >= 2 /\ M \in Nat \ {0} /\ ExpMax \in Nat /\ Infinity \in Nat
        /\ SignWeight = Infinity + h /\ ExpMax = 2 * B + 1 /\ B \in Nat
        /\ B >= 3 * M + 6 /\ UnitBits = B - 1 + M
    BY Format, UnitsAre
  <1>2. PICK j \in Nat, E \in Int :
          /\ Sig(x) * TwoTo[j] \in h .. 2 * h - 1 /\ E = Pow(x) + 1 - j
          /\ E \in 1 - M .. ExpMax - 1 /\ top = (E + B) \div 2
          /\ m = (Sig(x) * TwoTo[j]) * h * (IF E % 2 = 1 THEN 1 ELSE 2)
    BY ReducedIs
  <1> DEFINE S == Sig(x) * TwoTo[j]  par == IF E % 2 = 1 THEN 0 ELSE 1
  <1>3. 2 * top + par = E + B /\ top \in 1 .. ExpMax - 1 /\ par \in 0 .. 1
    <2>1. PICK c \in Nat : B = 2 * c + 1
      BY Format
    <2> DEFINE z == E + B  e == E \div 2  o == E % 2  y == z \div 2  i == z % 2
    <2>a. E \in Int /\ B \in Nat
      BY <1>1
    <2>b. z \in Int /\ z = E + (2 * c + 1)
      BY <2>1, <2>a
    <2>c. z = 2 * y + i /\ y \in Int /\ i \in 0 .. 1
      <3> HIDE DEF z, e, o, par, top, m
      <3>1. z \in Int
        BY <2>b
      <3>2. QED BY ONLY <3>1, Z3T(60)
    <2>d. E = 2 * e + o /\ e \in Int /\ o \in 0 .. 1
      BY <2>a, DivInt
    <2>e. par = 1 - o /\ top = y
      <3> HIDE DEF y, top
      <3>1. par = 1 - o
        BY <2>d
      <3>2. QED BY <1>2, <3>1 DEF y
    <2>2. 2 * top + par = E + B /\ top \in Int
      <3>1. z = E + B
        OBVIOUS
      <3> HIDE DEF z, e, o, y, i, par, top
      <3>2. i = 1 - o
        BY <2>a, <2>b, <2>c, <2>d
      <3>3. QED BY <2>a, <2>c, <2>e, <3>1, <3>2
    <2>3. par \in 0 .. 1
      OBVIOUS
    <2> HIDE DEF top, par
    <2>4. top >= 1 /\ top <= ExpMax - 1
      BY <1>1, <1>2, <2>2, <2>3
    <2>5. QED BY <1>1, <2>2, <2>3, <2>4
  <1>4. s \in 0 .. 2 * h /\ s * s < m /\ (256 * 256) * m < (256 * s + 265) * (256 * s + 265)
    BY DEF Approximations, Square
  <1>5. m \in Nat /\ h * h <= m /\ m <= (2 * h) * (2 * h - 1)
    <2> DEFINE c == IF E % 2 = 1 THEN 1 ELSE 2
    <2>1. c \in 1 .. 2 /\ S \in h .. 2 * h - 1 /\ m = S * h * c
      BY <1>2
    <2> HIDE DEF S, c, m, h
    <2>2. S * h * c \in Nat /\ h * h <= S * h /\ S * h <= (2 * h - 1) * h
          /\ S * h \in Nat /\ h * h \in Nat /\ (2 * h - 1) * h \in Nat
      BY <1>1, <2>1, Z3T(60)
    <2>3. (2 * h) * (2 * h - 1) = 2 * ((2 * h - 1) * h)
      BY <1>1, Z3T(60)
    <2> DEFINE u == S * h  v == (2 * h - 1) * h  w == h * h
    <2>4. m = u * c /\ w <= u /\ u <= v /\ u \in Nat /\ v \in Nat /\ w \in Nat
          /\ (2 * h) * (2 * h - 1) = 2 * v
      BY <2>1, <2>2, <2>3
    <2> HIDE DEF u, v, w
    <2>5. m \in Nat /\ w <= m /\ m <= 2 * v
      BY <2>1, <2>4
    <2>6. QED BY <2>4, <2>5 DEF w
  <1>6. t \in h .. 2 * h - 1 /\ m <= t * t + t /\ m > t * t - t
    <2>1. s \in Nat
      <3> HIDE DEF h
      <3>1. QED BY <1>1, <1>4
    <2>2. t = s + (IF s - (m - s * s) < 0 THEN 1 ELSE 0)
      OBVIOUS
    <2> HIDE DEF m, t, h
    <2>3. QED BY <1>1, <1>4, <1>5, <2>1, <2>2, RootBetween
  <1> HIDE DEF t, top, m
  <1>7. r = top * h + (t % h)
    <2>1. ~IsZero(x) /\ x # Infinity /\ ~(x > Infinity)
      <3>1. x \in 0 .. SignWeight - 1 /\ 0 \in 0 .. 1
        BY <1>1
      <3>2. AbsBits(x) = x
        BY <3>1, SignedPattern
      <3>3. QED BY <1>1, <3>2 DEF IsZero
    <2> DEFINE bit == ((s - ((m - s * s) % (2 * SignWeight))) % (2 * SignWeight)) \div SignWeight
    <2>2. r = top * h + ((s + bit) % h)
      BY <2>1 DEF sqrt, top, m
    <2>3. bit = IF s - (m - s * s) < 0 THEN 1 ELSE 0
      <3>1. SignWeight = h * (2 * B + 2) /\ B >= 9
        BY <1>1, Format
      <3>2. SignWeight \in Nat /\ SignWeight >= 16 * h
        <4> HIDE DEF h, B
        <4>1. h * (2 * B + 2) >= 16 * h /\ h * (2 * B + 2) \in Nat
          BY <1>1, <3>1, Z3T(60)
        <4>2. QED BY <3>1, <4>1
      <3> HIDE DEF h, top, r
      <3>3. QED BY <1>1, <1>4, <1>5, <3>2, WrappedSign, ZenonT(40)
    <2> HIDE DEF bit, top, h
    <2>4. QED BY <2>2, <2>3 DEF t
  <1>8. t % h = t - h /\ t - h \in 0 .. h - 1 /\ t \in Nat
    <2> HIDE DEF h
    <2>1. t = h * 1 + (t - h) /\ t \in Int /\ t - h \in Int
      BY <1>1, <1>6
    <2>2. t - h \in 0 .. h - 1 /\ h \in Nat \ {0} /\ t \in Nat
      BY <1>1, <1>6
    <2> DEFINE z == t - h
    <2>3. t = h * 1 + z /\ z \in 0 .. h - 1
      BY <2>1, <2>2
    <2> HIDE DEF z
    <2>4. t % h = z
      BY <2>1, <2>2, <2>3, DivUnique
    <2>5. QED BY <2>2, <2>4 DEF z
  <1>9. r \in 0 .. SignWeight - 1 /\ r \in Patterns /\ Exponent(r) = top /\ Mantissa(r) = t - h
    <2>1. top \in 0 .. ExpMax
      BY <1>1, <1>3
    <2> DEFINE z == t - h
    <2>2. z \in 0 .. Hidden - 1
      BY <1>8
    <2> HIDE DEF z
    <2>3. Hidden * top + z \in 0 .. SignWeight - 1 /\ Hidden * top + z \in Patterns
          /\ Exponent(Hidden * top + z) = top /\ Mantissa(Hidden * top + z) = z
      BY <2>1, <2>2, FromParts
    <2>4. Hidden * top + z = r
      <3>1. top * h = Hidden * top
        BY <1>1, <2>1, Z3T(60)
      <3>2. QED BY <1>7, <1>8, <3>1 DEF z
    <2>5. QED BY <2>3, <2>4 DEF z
  <1>10. SignBit(r) = 0
    <2>1. 0 \in 0 .. 1
      OBVIOUS
    <2> HIDE DEF r
    <2>2. QED BY <1>9, <2>1, SignedPattern
  <1>11. Sig(r) = t /\ Pow(r) = top - 1
    <2> HIDE DEF r
    <2>1. Exponent(r) # 0
      BY <1>1, <1>3, <1>9
    <2>2. Pow(r) = Exponent(r) - 1 /\ Sig(r) = h + Mantissa(r)
      BY <1>9, <2>1, SigPow
    <2>3. QED BY <1>1, <1>8, <1>9, <2>2
  <1> HIDE DEF r
  <1> DEFINE k == UnitBits + Pow(x) - 2 * Pow(r) + 4
  <1>12. k = j + (M + (4 + par)) /\ Sig(x) \in Nat
    <2>1. x \in Patterns /\ Pow(x) \in Int /\ Sig(x) \in Nat
      <3>1. x \in 0 .. SignWeight - 1 /\ 0 \in 0 .. 1
        BY <1>1
      <3>2. x \in Patterns
        BY <3>1, SignedPattern
      <3>3. Pow(x) \in 0 .. ExpMax /\ Sig(x) \in 0 .. 2 * h - 1
        BY <3>2, SigPow
      <3>4. QED BY <1>1, <3>2, <3>3
    <2> DEFINE P == Pow(x)  R == Pow(r)  u == UnitBits
    <2>2. /\ k = u + P - 2 * R + 4 /\ R = top - 1 /\ E = P + 1 - j /\ u = B - 1 + M
          /\ 2 * top + par = E + B /\ par \in 0 .. 1 /\ top \in Int /\ P \in Int
      BY <1>1, <1>2, <1>3, <1>11, <2>1
    <2> HIDE DEF par, P, R, u, k
    <2>3. par \in Int /\ R \in Int /\ u \in Int
      BY <1>1, <2>2
    <2>4. k = (B - 1 + M) + P - 2 * (top - 1) + 4
      BY <2>2
    <2>5. P = E - 1 + j
      BY <2>2
    <2>6. k = j + (M + (4 + par))
      BY <1>1, <2>2, <2>3, <2>4, <2>5
    <2>7. QED BY <2>1, <2>6
  <1>13. Sig(x) * TwoTo[k] = 16 * m
    <2> DEFINE J == TwoTo[j]  F == TwoTo[4 + par]
    <2>1. TwoTo[j + (M + (4 + par))] = J * TwoTo[M + (4 + par)]
      <3>1. M + (4 + par) \in Nat
        <4> HIDE DEF par
        <4>1. QED BY <1>1, <1>3
      <3>2. QED BY <3>1, TwoToAdds
    <2>2. TwoTo[M + (4 + par)] = h * F
      <3>1. 4 + par \in Nat
        <4> HIDE DEF par
        <4>1. QED BY <1>3
      <3>2. QED BY <1>1, <3>1, TwoToAdds DEF Hidden
    <2>3. F = 16 * (IF E % 2 = 1 THEN 1 ELSE 2)
      <3>1. TwoTo[1] = 2 * TwoTo[0] /\ TwoTo[2] = 2 * TwoTo[1] /\ TwoTo[3] = 2 * TwoTo[2]
            /\ TwoTo[4] = 2 * TwoTo[3] /\ TwoTo[5] = 2 * TwoTo[4] /\ TwoTo[0] = 1
        <4>1. 0 + 1 = 1 /\ 1 + 1 = 2 /\ 2 + 1 = 3 /\ 3 + 1 = 4 /\ 4 + 1 = 5
          OBVIOUS
        <4>2. TwoTo[0 + 1] = 2 * TwoTo[0] /\ TwoTo[1 + 1] = 2 * TwoTo[1]
              /\ TwoTo[2 + 1] = 2 * TwoTo[2] /\ TwoTo[3 + 1] = 2 * TwoTo[3]
              /\ TwoTo[4 + 1] = 2 * TwoTo[4] /\ TwoTo[0] = 1
          BY TwoToIs
        <4>3. QED BY <4>1, <4>2
      <3>2. TwoTo[4] = 16 /\ TwoTo[5] = 32
        BY <3>1
      <3>3. QED BY <3>2
    <2> DEFINE c == IF E % 2 = 1 THEN 1 ELSE 2  X0 == Sig(x)
    <2>4. m = (X0 * J) * h * c /\ F = 16 * c /\ TwoTo[k] = J * (h * F) /\ X0 \in Nat
          /\ J \in Nat /\ c \in Nat
      <3>1. J \in Nat
        BY TwoToIs
      <3>2. QED BY <1>2, <1>12, <2>1, <2>2, <2>3, <3>1
    <2> HIDE DEF J, F, c, X0, h, k
    <2>5. X0 * (J * (h * (16 * c))) = 16 * ((X0 * J) * h * c)
      BY <1>1, <2>4, Z3T(60)
    <2>6. QED BY <2>4, <2>5 DEF X0
  <1>14. /\ (t # h => Square(4 * t - 2) < Sig(x) * TwoTo[k])
         /\ (t = h => Square(4 * t - 1) < Sig(x) * TwoTo[k])
         /\ Sig(x) * TwoTo[k] < Square(4 * t + 2)
    <2> DEFINE n == Sig(x) * TwoTo[k]
    <2>1. n = 16 * m
      BY <1>13
    <2>2. t = h => m >= h * h
      <3> DEFINE w == h * h
      <3>1. w <= m /\ w \in Int /\ m \in Int
        BY <1>1, <1>5, Z3T(60)
      <3> HIDE DEF w
      <3>2. m >= w
        BY <3>1
      <3>3. QED BY <3>2 DEF w
    <2> HIDE DEF n, h
    <2>3. QED BY <1>1, <1>5, <1>6, <2>1, <2>2, NearestRootIs DEF n
  <1>15. NearestRoot(r, x)
    <2>1. NearestRoot(r, x) <=>
            /\ Square(4 * Sig(r) - (IF Mantissa(r) = 0 THEN 1 ELSE 2)) < Sig(x) * TwoTo[k]
            /\ Sig(x) * TwoTo[k] < Square(4 * Sig(r) + 2)
      BY DEF NearestRoot
    <2>2. Mantissa(r) = 0 <=> t = h
      <3> HIDE DEF h
      <3>1. QED BY <1>1, <1>8, <1>9
    <2>3. QED
      <3> HIDE DEF k, h
      <3>1. QED BY <1>11, <1>14, <2>1, <2>2
  <1>16. QED BY <1>10, <1>15 DEF r

-----------------------------------------------------------------------------
(* Special cases.                                                          *)

\* pow's test for integers, from the bits of y.
LEMMA CheckintIs ==
  ASSUME NEW y \in Patterns, ~zeroinfnan(y)
  PROVE  /\ checkint(y) = 0 <=> ~Whole(y)
         /\ checkint(y) = 1 <=> OddInteger(y)
         /\ Exponent(y) < Bias => checkint(y) = 0
         /\ Exponent(y) > Bias + MantBits => checkint(y) = 2
  <1> DEFINE e == Exponent(y)  s == SignBit(y)  h == Hidden  M == MantBits  B == Bias
             d == B + M - e  unit == TwoTo[d]  n == Sig(y)  w == SignWeight
  <1>1. h \in Nat /\ h >= 2 /\ M \in Nat \ {0} /\ ExpMax \in Nat /\ Infinity \in Nat
        /\ w = h * (ExpMax + 1) /\ ExpMax = 2 * B + 1 /\ B \in Nat
        /\ B >= 3 * M + 6 /\ UnitBits = B - 1 + M
    BY Format, UnitsAre
  <1>2. Finite(y) /\ AbsBits(y) # 0 /\ ~IsNaN(y) /\ s \in 0 .. 1
    <2>1. AbsBits(y) \in 0 .. w - 1 /\ s \in 0 .. 1
      BY PatternParts
    <2>2. AbsBits(y) < Infinity
      BY <1>1, <2>1 DEF zeroinfnan
    <2>3. QED BY <1>1, <2>1, <2>2 DEF zeroinfnan, Finite, IsZero, IsNaN
  <1>3. e \in 0 .. ExpMax
    BY MagnitudeParts
  <1>4. checkint(y) = IF e < B THEN 0
                      ELSE IF e > B + M THEN 2
                      ELSE IF y % unit # 0 THEN 0
                      ELSE IF (y \div unit) % 2 = 1 THEN 1 ELSE 2
    BY DEF checkint
  <1>5. OddInteger(y) => Whole(y)
    BY DEF OddInteger
  <1>6. CASE e < B
    <2>1. Pow(y) < UnitBits
      <3>1. e < B + M
        <4> HIDE DEF e
        <4>1. QED BY <1>1, <1>3, <1>6
      <3>2. QED BY <3>1, BelowLimit
    <2>2. Rest(y) = Mag(y) /\ (Whole(y) <=> Rest(y) = 0)
      BY <1>2, <1>6, <2>1, AgainstOne, Parting
    <2>3. Mag(y) # 0
      BY <1>2, MagIs
    <2>4. ~Whole(y)
      BY <2>2, <2>3
    <2>5. checkint(y) = 0 /\ ~(e > B + M)
      <3> HIDE DEF e
      <3>1. QED BY <1>1, <1>3, <1>4, <1>6
    <2>6. QED BY <1>5, <2>4, <2>5
  <1>7. CASE e > B + M
    <2>1. Pow(y) = e - 1
      <3>1. e # 0
        <4> HIDE DEF e
        <4>1. QED BY <1>1, <1>7
      <3>2. QED BY <3>1, SigPow
    <2>2. Pow(y) > UnitBits /\ Pow(y) >= UnitBits /\ Pow(y) # UnitBits
      <3> DEFINE P == Pow(y)
      <3>1. P = e - 1
        BY <2>1
      <3> HIDE DEF e, P
      <3>2. P > UnitBits /\ P >= UnitBits /\ P # UnitBits
        BY <1>1, <1>3, <1>7, <3>1
      <3>3. QED BY <3>2 DEF P
    <2>3. Whole(y) /\ ~OddInteger(y)
      BY <2>2 DEF Whole, OddInteger
    <2>4. checkint(y) = 2 /\ ~(e < B)
      <3> HIDE DEF e
      <3>1. QED BY <1>1, <1>3, <1>4, <1>7
    <2>5. QED BY <2>3, <2>4
  <1>8. CASE ~(e < B) /\ ~(e > B + M)
    <2>1. d \in 0 .. M /\ e # 0
      <3> HIDE DEF e
      <3>1. QED BY <1>1, <1>3, <1>8
    <2>2. Pow(y) = e - 1 /\ n = h + Mantissa(y) /\ Mantissa(y) \in 0 .. h - 1
      BY <2>1, SigPow, MagnitudeParts
    <2>3. UnitBits - Pow(y) = d
      <3> HIDE DEF e
      <3>1. QED BY <1>1, <1>3, <2>2
    <2>4. UnitsIn(y) = unit /\ unit \in Nat \ {0} /\ n \in Nat
      <3>1. unit \in Nat \ {0}
        <4>1. d \in Nat
          BY <1>1, <2>1
        <4>2. QED BY <4>1, TwoToIs
      <3>2. n \in Nat
        <4> HIDE DEF n, h
        <4>1. QED BY <1>1, <2>2
      <3>3. QED BY <2>3, <3>1, <3>2 DEF UnitsIn
    <2>5. y = s * w + h * (e - 1) + n
      <3>1. AbsBits(y) = h * (e - 1) + n
        BY <2>2, SigPow
      <3>2. y = IF s = 1 THEN w + AbsBits(y) ELSE AbsBits(y)
        BY PatternParts
      <3> DEFINE a == h * (e - 1)
      <3>3. a \in Int
        <4>1. e \in Int
          BY <1>3
        <4> HIDE DEF e, h
        <4>2. QED BY <1>1, <4>1, Z3T(60)
      <3>4. AbsBits(y) = a + n /\ w \in Int
        BY <3>1, Format
      <3> HIDE DEF a, w, n, s
      <3>5. y = s * w + a + n
        BY <1>2, <2>4, <3>2, <3>3, <3>4
      <3>6. QED BY <3>5 DEF a
    <2>6. PICK K \in Int : y = unit * (2 * K) + n
      <3>1. CASE d = M
        <4>1. unit = h /\ e = B
          <5> HIDE DEF e
          <5>1. e = B
            BY <1>1, <1>3, <3>1
          <5>2. QED BY <3>1, <5>1 DEF Hidden
        <4>2. PICK c \in Nat : B = 2 * c + 1
          BY Format
        <4> DEFINE k == s * (B + 1) + c
        <4>3. s * w + h * (e - 1) = unit * (2 * k) /\ k \in Int
          <5> HIDE DEF e, h, unit, w, s
          <5>1. w = h * (2 * B + 2) /\ e - 1 = 2 * c /\ s \in Int
            BY <1>1, <1>2, <4>1, <4>2
          <5>2. s * (h * (2 * B + 2)) + h * (2 * c) = h * (2 * (s * (B + 1) + c))
            BY <1>1, <4>2, <5>1, Z3T(60)
          <5>3. k \in Int
            BY <1>1, <4>2, <5>1, Z3T(60)
          <5>4. QED BY <4>1, <5>1, <5>2, <5>3
        <4> HIDE DEF k
        <4>4. QED BY <2>5, <4>3
      <3>2. CASE d # M
        <4> DEFINE i == M - 1 - d  q == TwoTo[i]  k == s * (q * (ExpMax + 1)) + q * (e - 1)
        <4>1. h = unit * (2 * q) /\ q \in Nat
          <5>1. i \in Nat /\ d \in Nat /\ d + 1 \in Nat /\ M = d + (i + 1)
            <6> HIDE DEF d
            <6>1. QED BY <1>1, <2>1, <3>2
          <5>2. TwoTo[d + (i + 1)] = unit * TwoTo[i + 1]
            <6>1. i + 1 \in Nat
              BY <5>1
            <6>2. QED BY <5>1, <6>1, TwoToAdds
          <5>3. TwoTo[i + 1] = 2 * q /\ q \in Nat
            BY <5>1, TwoToIs
          <5>4. QED BY <5>1, <5>2, <5>3 DEF Hidden
        <4>2. s * w + h * (e - 1) = unit * (2 * k) /\ k \in Int
          <5>1. e \in Int /\ s \in Int
            BY <1>2, <1>3
          <5> DEFINE x == ExpMax
          <5>2. w = h * (x + 1) /\ x \in Int /\ h = unit * (2 * q) /\ unit \in Nat
                /\ k = s * (q * (x + 1)) + q * (e - 1)
            BY <1>1, <2>4, <4>1
          <5> HIDE DEF e, h, unit, w, s, q, k, x
          <5>3. s * ((unit * (2 * q)) * (x + 1)) + (unit * (2 * q)) * (e - 1)
                  = unit * (2 * (s * (q * (x + 1)) + q * (e - 1)))
            BY <4>1, <5>1, <5>2, Z3T(60)
          <5>4. k \in Int
            BY <4>1, <5>1, <5>2, Z3T(60)
          <5>5. QED BY <5>2, <5>3, <5>4
        <4> HIDE DEF k
        <4>3. QED BY <2>5, <4>2
      <3>3. QED BY <3>1, <3>2
    <2> DEFINE i == n \div unit  r == n % unit
    <2>7. i \in Int /\ r \in 0 .. unit - 1 /\ n = unit * i + r
      <3>1. n \in Int
        BY <2>4
      <3> HIDE DEF n, unit
      <3>2. QED BY <2>4, <3>1, DivInt
    <2> HIDE DEF i, r
    <2>8. y \div unit = 2 * K + i /\ y % unit = r
      <3> DEFINE j == 2 * K + i
      <3>1. y = unit * j + r /\ j \in Int
        <4> HIDE DEF unit, n
        <4>1. unit * (2 * K + i) = unit * (2 * K) + unit * i
          BY <2>4, <2>7, Z3T(60)
        <4>2. unit * (2 * K) \in Int /\ unit * i \in Int
          BY <2>4, <2>7, Z3T(60)
        <4> DEFINE a == unit * (2 * K)  b == unit * i  c == unit * j
        <4>3. c = a + b /\ a \in Int /\ b \in Int /\ y = a + n /\ n = b + r /\ r \in Int
          BY <2>6, <2>7, <2>4, <4>1, <4>2
        <4> HIDE DEF a, b, c
        <4>4. y = c + r
          BY <4>3
        <4>5. j \in Int
          BY <2>7
        <4>6. QED BY <4>4, <4>5 DEF c
      <3>2. y \in Int
        BY <1>1 DEF Patterns
      <3> HIDE DEF j, unit
      <3>3. y \in Int /\ unit \in Nat \ {0} /\ j \in Int /\ r \in 0 .. unit - 1 /\ y = unit * j + r
        BY <2>4, <2>7, <3>1, <3>2
      <3>5. y \div unit = j /\ y % unit = r
        BY <3>3, DivUnique
      <3>4. QED BY <3>5 DEF j
    <2>9. (2 * K + i) % 2 = i % 2
      BY <2>7
    <2>10. checkint(y) = IF r # 0 THEN 0 ELSE IF i % 2 = 1 THEN 1 ELSE 2
      <3> HIDE DEF unit, e
      <3>1. QED BY <1>4, <1>8, <2>8, <2>9
    <2>11. CASE d = 0
      <3>1. unit = 1
        BY <2>11, TwoToIs
      <3>2. r = 0 /\ i = n
        <4> HIDE DEF unit, n
        <4>1. QED BY <2>4, <2>7, <3>1
      <3>3. Pow(y) = UnitBits /\ Pow(y) >= UnitBits /\ Pow(y) < UnitBits + M
        <4> DEFINE P == Pow(y)
        <4>1. UnitBits - P = 0 /\ P = e - 1 /\ e \in Int
          BY <1>3, <2>2, <2>3, <2>11
        <4> HIDE DEF P, e
        <4>2. P = UnitBits /\ P >= UnitBits /\ P < UnitBits + M
          BY <1>1, <4>1
        <4>3. QED BY <4>2 DEF P
      <3>4. Whole(y) /\ (OddInteger(y) <=> n % 2 = 1)
        BY <3>3 DEF Whole, OddInteger
      <3>5. QED BY <1>8, <2>10, <3>2, <3>4
    <2>12. CASE d # 0
      <3>1. Pow(y) < UnitBits /\ ~(Pow(y) >= UnitBits) /\ Pow(y) < UnitBits + M
        <4> DEFINE P == Pow(y)
        <4>1. UnitBits - P = d /\ P = e - 1 /\ e \in Int
          BY <1>3, <2>2, <2>3
        <4> HIDE DEF P, e, d
        <4>2. P < UnitBits /\ ~(P >= UnitBits) /\ P < UnitBits + M
          BY <1>1, <2>1, <2>12, <4>1
        <4>3. QED BY <4>2 DEF P
      <3>2. Whole(y) <=> r = 0
        BY <1>2, <2>4, <3>1 DEF Whole, r
      <3>3. IntPart(y) = i
        BY <2>4 DEF IntPart, i
      <3>4. OddInteger(y) <=> Whole(y) /\ i % 2 = 1
        BY <3>1, <3>3 DEF OddInteger
      <3>5. QED BY <1>8, <2>10, <3>2, <3>4
    <2>13. QED BY <2>11, <2>12
  <1>9. QED BY <1>6, <1>7, <1>8

\* What C's tables say of atan2 and pow, for their arguments and a result.
AngleInC(y, x, r) ==
  LET q == r[2]  octants == Octants(x, y) IN
  IF IsNaN(y) \/ IsNaN(x) THEN r = <<>>
  ELSE /\ r[1] = SignBit(y)
       /\ IF r[3] = 0 THEN octants \cap {q - 1, q} # {}
          ELSE /\ AbsBits(x) \in 1 .. Infinity - 1
               /\ <<q, r[3]>> = IF SignBit(x) = 0 THEN <<0, 1>> ELSE <<4, -1>>
       /\ IsZero(y) /\ r[3] = 0 => q = 4 * SignBit(x)
       /\ IsZero(x) /\ ~IsZero(y) => q = 2
       /\ AbsBits(y) = Infinity /\ AbsBits(x) = Infinity => q = 1 + 2 * SignBit(x)

\* The larger high word is that of the larger float.
LEMMA HighWordGrows ==
  ASSUME NEW x \in Patterns, NEW y \in Patterns, NEW far,
         far = AtanGap * TwoTo[MantBits - LowBits],
         HighWord(x) + far < HighWord(y)
  PROVE  AbsBits(x) < AbsBits(y)
  <1> DEFINE c == TwoTo[LowBits]  a == AbsBits(x)  b == AbsBits(y)
             i == a \div c  j == b \div c  r == a % c  s == b % c
  <1>1. c \in Nat \ {0} /\ far \in Nat
    <2>1. LowBits \in Nat /\ MantBits - LowBits \in Nat
      BY Format, MathBitsAssumption
    <2> DEFINE t == TwoTo[MantBits - LowBits]
    <2>2. t \in Nat /\ AtanGap \in Nat /\ c \in Nat \ {0}
      BY <2>1, TwoToIs, MathBitsAssumption
    <2> HIDE DEF t
    <2>3. AtanGap * t \in Nat
      BY <2>2, Z3T(60)
    <2>4. QED BY <2>2, <2>3 DEF t
  <1>2. a \in Int /\ b \in Int
    BY PatternParts, Format
  <1> HIDE DEF a, b, c
  <1>3. i \in Int /\ r \in 0 .. c - 1 /\ a = c * i + r /\ j \in Int /\ s \in 0 .. c - 1 /\ b = c * j + s
    BY <1>1, <1>2, DivInt
  <1>4. i + far < j
    BY DEF HighWord, a, b, c
  <1> HIDE DEF i, j, r, s
  <1>5. i + 1 <= j
    BY <1>1, <1>3, <1>4
  <1>6. c * (i + 1) <= c * j /\ c * (i + 1) = c * i + c
    BY <1>1, <1>3, <1>5, Z3T(60)
  <1> DEFINE p == c * i  q == c * j
  <1>7. p \in Int /\ q \in Int /\ p + c <= q /\ a = p + r /\ b = q + s
    <2>1. p \in Int /\ q \in Int
      BY <1>1, <1>3, Z3T(60)
    <2>2. QED BY <1>3, <1>6, <2>1
  <1> HIDE DEF p, q
  <1>8. a < b
    BY <1>1, <1>3, <1>7
  <1>9. QED BY <1>8 DEF a, b

\* atan2 chooses, from signs and high words, the angle of C's table.
LEMMA Atan2Is ==
  ASSUME NEW y \in Patterns, NEW x \in Patterns
  PROVE  AngleInC(y, x, atan2(y, x))
  <1> DEFINE sy == SignBit(y)  sx == SignBit(x)  a == AbsBits(x)  b == AbsBits(y)
             far == AtanGap * TwoTo[MantBits - LowBits]
             above == HighWord(x) + far < HighWord(y)
             below == HighWord(y) + far < HighWord(x)
             r == atan2(y, x)
             octants == Octants(x, y)
             I == Infinity
  <1>1. sy \in 0 .. 1 /\ sx \in 0 .. 1 /\ a \in Nat /\ b \in Nat /\ I \in Nat
    <2>1. a \in 0 .. SignWeight - 1 /\ b \in 0 .. SignWeight - 1 /\ sy \in 0 .. 1 /\ sx \in 0 .. 1
      BY PatternParts
    <2>2. QED BY <2>1, Format
  <1>2. r = IF IsNaN(x) \/ IsNaN(y) THEN <<>>
            ELSE IF x = One THEN <<sy, 0, 1>>
            ELSE IF b = 0 THEN <<sy, 4 * sx, 0>>
            ELSE IF a = 0 THEN <<sy, 2, 0>>
            ELSE IF a = I THEN IF b = I THEN <<sy, 1 + 2 * sx, 0>> ELSE <<sy, 4 * sx, 0>>
            ELSE IF above \/ b = I THEN <<sy, 2, 0>>
            ELSE IF sx = 0 THEN <<sy, 0, 1>>
            ELSE <<sy, 4, IF below THEN 0 ELSE -1>>
    BY DEF atan2, IsZero
  <1>3. (above => a < b) /\ (below => b < a)
    BY HighWordGrows
  <1>4. x = One => sx = 0 /\ a \in 1 .. I - 1
    <2>1. SignBit(One) = 0 /\ AbsBits(One) = One /\ Finite(One)
      BY FixedFloats
    <2>2. One # 0
      BY Format DEF One
    <2>3. ASSUME x = One PROVE sx = 0 /\ a \in 1 .. I - 1
      <3>1. sx = 0 /\ a = One /\ a < I
        BY <2>1, <2>3 DEF Finite
      <3>2. a # 0
        BY <2>2, <3>1
      <3> HIDE DEF a
      <3>3. QED BY <1>1, <3>1, <3>2
    <2>4. QED BY <2>3
  <1>a. I # 0
    <2>1. Finite(Zero) /\ AbsBits(Zero) < I
      BY FixedFloats DEF Finite
    <2>2. Zero \in Patterns
      BY <2>1 DEF Finite
    <2>3. AbsBits(Zero) \in 0 .. SignWeight - 1
      BY <2>2, PatternParts
    <2>4. QED BY <1>1, <2>1, <2>3, Format
  <1>5. /\ (IsNaN(x) <=> a > I) /\ (IsNaN(y) <=> b > I)
        /\ (IsZero(x) <=> a = 0) /\ (IsZero(y) <=> b = 0)
    BY DEF IsNaN, IsZero
  <1>6. /\ (sx = 0 /\ b <= a => 0 \in octants) /\ (sx = 0 /\ b >= a => 1 \in octants)
        /\ (sx = 1 /\ b <= a => 3 \in octants) /\ (sx = 1 /\ b >= a => 2 \in octants)
    <2> DEFINE first == IF b < a THEN {0} ELSE IF b > a THEN {1} ELSE {0, 1}
    <2>1. octants = IF sx = 0 THEN first ELSE {3 - o : o \in first}
      BY DEF Octants
    <2>2. (b <= a => 0 \in first) /\ (b >= a => 1 \in first)
      <3> HIDE DEF a, b
      <3>1. QED BY <1>1
    <2> HIDE DEF first, octants, a, b, sx
    <2>3. 3 - 0 = 3 /\ 3 - 1 = 2
      OBVIOUS
    <2>4. \A o \in first : 3 - o \in {3 - p : p \in first}
      OBVIOUS
    <2>5. (0 \in first => 3 \in {3 - p : p \in first}) /\ (1 \in first => 2 \in {3 - p : p \in first})
      BY <2>3, <2>4
    <2>6. QED BY <1>1, <2>1, <2>2, <2>5
  <1>7. AngleInC(y, x, r) <=>
          IF IsNaN(y) \/ IsNaN(x) THEN r = <<>>
          ELSE /\ r[1] = sy
               /\ IF r[3] = 0 THEN octants \cap {r[2] - 1, r[2]} # {}
                  ELSE /\ a \in 1 .. I - 1
                       /\ <<r[2], r[3]>> = IF sx = 0 THEN <<0, 1>> ELSE <<4, -1>>
               /\ b = 0 /\ r[3] = 0 => r[2] = 4 * sx
               /\ a = 0 /\ ~(b = 0) => r[2] = 2
               /\ b = I /\ a = I => r[2] = 1 + 2 * sx
    BY DEF AngleInC, IsZero
  <1> DEFINE Good(v, q, k) ==
        /\ IF k = 0 THEN q - 1 \in octants \/ q \in octants
           ELSE a \in 1 .. I - 1 /\ <<q, k>> = IF sx = 0 THEN <<0, 1>> ELSE <<4, -1>>
        /\ b = 0 /\ k = 0 => q = 4 * sx
        /\ a = 0 /\ ~(b = 0) => q = 2
        /\ b = I /\ a = I => q = 1 + 2 * sx
  <1>8. ASSUME NEW v, NEW q \in Int, NEW k \in Int, ~IsNaN(x), ~IsNaN(y),
               r = <<v, q, k>>, v = sy, Good(v, q, k)
        PROVE  AngleInC(y, x, r)
    <2>1. r[1] = sy /\ r[2] = q /\ r[3] = k
      BY <1>8
    <2>2. q - 1 \in octants \/ q \in octants => octants \cap {r[2] - 1, r[2]} # {}
      BY <2>1
    <2> HIDE DEF r, octants, a, b, sx, sy
    <2>3. QED BY <1>7, <1>8, <2>1, <2>2
  <1> HIDE DEF r, octants, a, b, sx, sy, above, below, I
  <1>9. ASSUME IsNaN(x) \/ IsNaN(y) PROVE AngleInC(y, x, r)
    BY <1>2, <1>7, <1>9
  <1>10. ASSUME ~(IsNaN(x) \/ IsNaN(y)) /\ x = One PROVE AngleInC(y, x, r)
    <2>1. Good(sy, 0, 1)
      BY <1>1, <1>4, <1>10
    <2> HIDE DEF Good
    <2>2. r = <<sy, 0, 1>>
      BY <1>2, <1>10
    <2>3. QED BY <1>8, <1>10, <2>1, <2>2
  <1> DEFINE General == ~(IsNaN(x) \/ IsNaN(y)) /\ x # One
  <1>11. ASSUME General PROVE a <= I /\ b <= I
    BY <1>1, <1>5, <1>11
  <1>12. ASSUME General /\ b = 0 PROVE AngleInC(y, x, r)
    <2>1. Good(sy, 4 * sx, 0)
      <3>1. b <= a
        BY <1>1, <1>12
      <3>2. (sx = 0 => 4 * sx = 0) /\ (sx = 1 => 4 * sx - 1 = 3)
        OBVIOUS
      <3>3. (4 * sx) - 1 \in octants \/ 4 * sx \in octants
        BY <1>1, <1>6, <3>1, <3>2
      <3>4. ~(b = I /\ a = I) \/ 4 * sx = 1 + 2 * sx
        <4>1. QED BY <1>12, <1>a
      <3>5. QED BY <1>12, <3>3, <3>4
    <2> HIDE DEF Good
    <2>2. r = <<sy, 4 * sx, 0>> /\ 4 * sx \in Int
      BY <1>1, <1>2, <1>12
    <2>3. QED BY <1>8, <1>12, <2>1, <2>2
  <1>13. ASSUME General /\ b # 0 /\ a = 0 PROVE AngleInC(y, x, r)
    <2>1. Good(sy, 2, 0)
      <3>1. b >= a
        BY <1>1, <1>13
      <3>2. 2 - 1 \in octants \/ 2 \in octants
        BY <1>1, <1>6, <3>1
      <3>3. QED BY <1>13, <1>a, <3>2
    <2> HIDE DEF Good
    <2>2. r = <<sy, 2, 0>>
      BY <1>2, <1>13
    <2>3. QED BY <1>8, <1>13, <2>1, <2>2
  <1>14. ASSUME General /\ b # 0 /\ a # 0 /\ a = I /\ b = I PROVE AngleInC(y, x, r)
    <2>1. Good(sy, 1 + 2 * sx, 0)
      <3>1. b <= a /\ b >= a
        BY <1>1, <1>14
      <3>2. (1 + 2 * sx) - 1 \in octants \/ 1 + 2 * sx \in octants
        BY <1>1, <1>6, <3>1
      <3>3. QED BY <1>14, <3>2
    <2> HIDE DEF Good
    <2>2. r = <<sy, 1 + 2 * sx, 0>> /\ 1 + 2 * sx \in Int
      BY <1>1, <1>2, <1>14
    <2>3. QED BY <1>8, <1>14, <2>1, <2>2
  <1>15. ASSUME General /\ b # 0 /\ a # 0 /\ a = I /\ b # I PROVE AngleInC(y, x, r)
    <2>1. Good(sy, 4 * sx, 0)
      <3>1. b <= a
        BY <1>1, <1>11, <1>15
      <3>2. (4 * sx) - 1 \in octants \/ 4 * sx \in octants
        BY <1>1, <1>6, <3>1
      <3>3. QED BY <1>15, <3>2
    <2> HIDE DEF Good
    <2>2. r = <<sy, 4 * sx, 0>> /\ 4 * sx \in Int
      BY <1>1, <1>2, <1>15
    <2>3. QED BY <1>8, <1>15, <2>1, <2>2
  <1>16. ASSUME General /\ b # 0 /\ a # 0 /\ a # I /\ (above \/ b = I) PROVE AngleInC(y, x, r)
    <2>1. Good(sy, 2, 0)
      <3>1. b >= a
        BY <1>1, <1>3, <1>11, <1>16
      <3>2. 2 - 1 \in octants \/ 2 \in octants
        BY <1>1, <1>6, <3>1
      <3>3. QED BY <1>16, <3>2
    <2> HIDE DEF Good
    <2>2. r = <<sy, 2, 0>>
      BY <1>2, <1>16
    <2>3. QED BY <1>8, <1>16, <2>1, <2>2
  <1>17. ASSUME General /\ b # 0 /\ a # 0 /\ a # I /\ ~(above \/ b = I) /\ sx = 0 PROVE AngleInC(y, x, r)
    <2>1. Good(sy, 0, 1)
      <3>1. a \in 1 .. I - 1
        BY <1>1, <1>11, <1>17
      <3>2. QED BY <1>17, <3>1
    <2> HIDE DEF Good
    <2>2. r = <<sy, 0, 1>>
      BY <1>2, <1>17
    <2>3. QED BY <1>8, <1>17, <2>1, <2>2
  <1>18. ASSUME General /\ b # 0 /\ a # 0 /\ a # I /\ ~(above \/ b = I) /\ sx # 0 /\ below PROVE AngleInC(y, x, r)
    <2>1. Good(sy, 4, 0)
      <3>1. b <= a /\ sx = 1
        BY <1>1, <1>3, <1>18
      <3>2. 4 - 1 \in octants \/ 4 \in octants
        BY <1>1, <1>6, <3>1
      <3>3. QED BY <1>18, <3>2
    <2> HIDE DEF Good
    <2>2. r = <<sy, 4, 0>>
      BY <1>2, <1>18
    <2>3. QED BY <1>8, <1>18, <2>1, <2>2
  <1>19. ASSUME General /\ b # 0 /\ a # 0 /\ a # I /\ ~(above \/ b = I) /\ sx # 0 /\ ~below PROVE AngleInC(y, x, r)
    <2>1. Good(sy, 4, -1)
      <3>1. a \in 1 .. I - 1
        BY <1>1, <1>11, <1>19
      <3>2. QED BY <1>19, <3>1
    <2> HIDE DEF Good
    <2>2. r = <<sy, 4, -1>>
      BY <1>2, <1>19
    <2>3. QED BY <1>8, <1>19, <2>1, <2>2
  <1>20. AngleInC(y, x, r)
    <2> HIDE DEF Good
    <2>1. QED BY <1>9, <1>10, <1>12, <1>13, <1>14, <1>15, <1>16, <1>17, <1>18, <1>19
  <1>21. QED BY <1>20 DEF r

PowerInC(x, y, r) ==
  LET sign == IF SignBit(x) = 1 /\ OddInteger(y) THEN 1 ELSE 0
      grows == (AbsBits(x) > One) = (SignBit(y) = 0)
      limit == IF AbsBits(x) = One THEN One ELSE IF grows THEN Infinity ELSE Zero
  IN IF IsZero(y) THEN r = <<"exact", One>>
     ELSE IF x = One THEN r \in {<<"exact", One>>, <<"exp", 0>>}
     ELSE IF IsNaN(x) \/ IsNaN(y) THEN r = <<"exact", NaN>>
     ELSE IF SignBit(x) = 1 /\ ~Whole(y) /\ ~zeroinfnan(x) THEN r = <<"exact", NaN>>
     ELSE IF zeroinfnan(x) \/ zeroinfnan(y) THEN r = <<"exact", WithSign(sign, limit)>>
     ELSE CASE r[1] = "exp" -> r[2] = sign
            [] r[1] = "near one" ->
                 sign = 0 /\ AbsBits(x) # One /\ r[2] = IF grows THEN 1 ELSE -1
            [] r[1] = "exact" -> sign = 0 /\ r[2] = limit

\* pow chooses, from the bits of x and y, the result of C's table.
LEMMA PowIs ==
  ASSUME NEW x \in Patterns, NEW y \in Patterns
  PROVE  PowerInC(x, y, pow(x, y))
  <1> DEFINE a == AbsBits(x)  I == Infinity  s == SignBit(x)  t == SignBit(y)  c == checkint(y)
             outside == Exponent(y) < PowTiny \/ Exponent(y) >= PowHuge
             sign == IF s = 1 /\ c = 1 THEN 1 ELSE 0
             odd == IF s = 1 /\ OddInteger(y) THEN 1 ELSE 0
             grows == (a > One) = (t = 0)
             limit == IF a = One THEN One ELSE IF grows THEN I ELSE Zero
             ofX == IF IsNaN(x) THEN NaN
                    ELSE WithSign(sign, IF IsZero(x) = (t = 0) THEN Zero ELSE I)
             zx == zeroinfnan(x)  zy == zeroinfnan(y)
             r == pow(x, y)
             Good == PowerInC(x, y, r)
  <1>1. s \in 0 .. 1 /\ a \in Nat /\ I \in Nat /\ t \in 0 .. 1 /\ AbsBits(y) \in Nat
    <2>1. a \in 0 .. SignWeight - 1 /\ AbsBits(y) \in 0 .. SignWeight - 1 /\ s \in 0 .. 1 /\ t \in 0 .. 1
      BY PatternParts
    <2>2. QED BY <2>1, Format
  <1>2. One \in Nat /\ One # 0 /\ One < I /\ SignBit(One) = 0 /\ AbsBits(One) = One
    <2>1. Finite(One) /\ SignBit(One) = 0 /\ AbsBits(One) = One
      BY FixedFloats
    <2>2. One < I
      BY <2>1 DEF Finite
    <2>3. One \in Nat /\ One # 0
      <3> DEFINE h == Hidden  B == Bias
      <3>1. h \in Nat /\ h >= 2 /\ B \in Nat /\ B >= 9
        <4>1. h \in Nat /\ h >= 2 /\ B \in Nat /\ B >= 3 * MantBits + 6 /\ MantBits \in Nat \ {0}
          BY Format
        <4>2. QED BY <4>1
      <3>2. One = B * h
        BY DEF One
      <3> HIDE DEF h, B
      <3>3. B * h \in Nat /\ B * h >= 1
        BY <3>1, Z3T(60)
      <3>4. QED BY <3>2, <3>3
    <2>4. QED BY <2>1, <2>2, <2>3
  <1>3. WithSign(0, One) = One /\ WithSign(0, Zero) = Zero
    <2>1. Finite(One) /\ Finite(Zero) /\ SignBit(One) = 0 /\ SignBit(Zero) = 0
      BY FixedFloats
    <2>2. One \in Patterns /\ Zero \in Patterns
      BY <2>1 DEF Finite
    <2>3. WithSign(SignBit(One), One) = One /\ WithSign(SignBit(Zero), Zero) = Zero
      BY <2>2, PatternParts
    <2>4. QED BY <2>1, <2>3
  <1>4. /\ (IsNaN(x) <=> a > I) /\ (IsNaN(y) <=> AbsBits(y) > I)
        /\ (IsZero(x) <=> a = 0) /\ (zx <=> a = 0 \/ a >= I)
        /\ (IsZero(y) <=> AbsBits(y) = 0) /\ (zy <=> IsZero(y) \/ AbsBits(y) >= I)
    BY DEF IsNaN, IsZero, zeroinfnan
  <1>5. x = One => s = 0 /\ a = One
    BY <1>2
  <1>6. ASSUME ~zy PROVE /\ (c = 0 <=> ~Whole(y)) /\ (c = 1 <=> OddInteger(y))
                         /\ (Exponent(y) < PowTiny => c = 0) /\ (Exponent(y) >= PowHuge => c = 2)
                         /\ sign = odd
    <2>1. /\ (c = 0 <=> ~Whole(y)) /\ (c = 1 <=> OddInteger(y))
          /\ (Exponent(y) < Bias => c = 0) /\ (Exponent(y) > Bias + MantBits => c = 2)
      BY <1>6, CheckintIs
    <2>2. (Exponent(y) < PowTiny => Exponent(y) < Bias)
          /\ (Exponent(y) >= PowHuge => Exponent(y) > Bias + MantBits)
      <3> DEFINE e == Exponent(y)
      <3>1. e \in Int /\ Bias \in Nat /\ MantBits \in Nat /\ ExpMax \in Nat
        <4>1. e \in 0 .. ExpMax
          BY MagnitudeParts
        <4>2. QED BY <4>1, Format
      <3>2. PowTiny \in 1 .. Bias /\ PowHuge \in Bias + MantBits + 1 .. ExpMax - 1
        BY MathBitsAssumption
      <3> HIDE DEF e
      <3>3. (e < PowTiny => e < Bias) /\ (e >= PowHuge => e > Bias + MantBits)
        BY <3>1, <3>2
      <3>4. QED BY <3>3 DEF e
    <2>3. QED BY <2>1, <2>2
  <1>7. ASSUME zy, ~IsZero(y) PROVE Whole(y) /\ ~OddInteger(y)
    <2>1. AbsBits(y) >= I
      BY <1>4, <1>7
    <2>2. Exponent(y) = ExpMax
      BY <2>1, Kinds
    <2> DEFINE P == Pow(y)
    <2>3. ExpMax = 2 * Bias + 1 /\ Bias \in Nat /\ Bias >= 3 * MantBits + 6 /\ MantBits \in Nat \ {0}
          /\ UnitBits = Bias - 1 + MantBits
      BY Format, UnitsAre
    <2>4. P = ExpMax - 1
      <3>1. Exponent(y) # 0
        BY <2>2, <2>3
      <3>2. QED BY <2>2, <3>1, SigPow
    <2> HIDE DEF P
    <2>5. P >= UnitBits /\ ~(P < UnitBits + MantBits)
      BY <2>3, <2>4
    <2>6. QED BY <2>5 DEF Whole, OddInteger, P
  <1>8. r = IF zy
              THEN IF IsZero(y) \/ x = One THEN <<"exact", One>>
                   ELSE IF IsNaN(x) \/ IsNaN(y) THEN <<"exact", NaN>>
                   ELSE IF a = One THEN <<"exact", One>>
                   ELSE IF (a < One) = (t = 0) THEN <<"exact", Zero>>
                   ELSE <<"exact", I>>
            ELSE IF zx THEN <<"exact", ofX>>
            ELSE IF s = 1 /\ c = 0 THEN <<"exact", NaN>>
            ELSE IF ~outside THEN <<"exp", sign>>
            ELSE IF a = One THEN <<"exact", One>>
            ELSE IF Exponent(y) < PowTiny THEN <<"near one", IF grows THEN 1 ELSE -1>>
            ELSE <<"exact", IF grows THEN I ELSE Zero>>
    BY DEF pow
  <1>9. Good <=>
          IF IsZero(y) THEN r = <<"exact", One>>
          ELSE IF x = One THEN r \in {<<"exact", One>>, <<"exp", 0>>}
          ELSE IF IsNaN(x) \/ IsNaN(y) THEN r = <<"exact", NaN>>
          ELSE IF s = 1 /\ ~Whole(y) /\ ~zx THEN r = <<"exact", NaN>>
          ELSE IF zx \/ zy THEN r = <<"exact", WithSign(odd, limit)>>
          ELSE CASE r[1] = "exp" -> r[2] = odd
                 [] r[1] = "near one" -> odd = 0 /\ a # One /\ r[2] = IF grows THEN 1 ELSE -1
                 [] r[1] = "exact" -> odd = 0 /\ r[2] = limit
    BY DEF PowerInC
  <1>10. (a < One <=> ~(a > One) /\ a # One)
    BY <1>1, <1>2
  <1>11. ASSUME s = 1, OddInteger(y), ~zy PROVE ~outside
    <2>1. c = 1
      BY <1>6, <1>11
    <2>2. QED BY <1>6, <1>11, <2>1
  <1> HIDE DEF r, c, zx, zy, s, t, Good
  <1>12. ASSUME zy PROVE Good
    <2>1. CASE IsZero(y)
      BY <1>8, <1>9, <1>12, <2>1
    <2>2. CASE ~IsZero(y) /\ x = One
      BY <1>8, <1>9, <1>12, <2>2
    <2>3. CASE ~IsZero(y) /\ x # One /\ (IsNaN(x) \/ IsNaN(y))
      BY <1>8, <1>9, <1>12, <2>3
    <2>4. CASE ~IsZero(y) /\ x # One /\ ~(IsNaN(x) \/ IsNaN(y))
      <3>1. Whole(y) /\ odd = 0
        BY <1>7, <1>12, <2>4
      <3>2. WithSign(odd, limit) = IF a = One THEN One ELSE IF grows THEN WithSign(0, I) ELSE Zero
        BY <1>3, <3>1
      <3>3. WithSign(0, I) = I
        <4>1. I \in 0 .. SignWeight - 1 /\ 0 \in 0 .. 1
          BY Kinds
        <4>2. QED BY <4>1, SignedPattern
      <3>4. Good <=> r = <<"exact", IF a = One THEN One ELSE IF grows THEN I ELSE Zero>>
        BY <1>9, <1>12, <2>4, <3>1, <3>2, <3>3
      <3>5. a # One => ((a < One) = (t = 0) <=> ~grows)
        BY <1>10
      <3>6. r = <<"exact", IF a = One THEN One ELSE IF grows THEN I ELSE Zero>>
        BY <1>8, <1>12, <2>4, <3>5
      <3>7. QED BY <3>4, <3>6
    <2>5. QED BY <2>1, <2>2, <2>3, <2>4
  <1>13. ASSUME ~zy, zx PROVE Good
    <2>1. ~IsZero(y) /\ ~IsNaN(y) /\ x # One
      <3>1. ~(AbsBits(y) > I)
        BY <1>1, <1>4, <1>13
      <3>2. x # One
        BY <1>1, <1>2, <1>4, <1>5, <1>13
      <3>3. QED BY <1>4, <1>13, <3>1, <3>2
    <2>2. r = <<"exact", ofX>>
      BY <1>8, <1>13
    <2>3. CASE IsNaN(x)
      BY <1>9, <2>1, <2>2, <2>3
    <2>4. CASE ~IsNaN(x)
      <3>1. sign = odd
        BY <1>6, <1>13
      <3>2. IsZero(x) <=> ~(a > One)
        BY <1>1, <1>2, <1>4, <1>13
      <3>3. a # One
        BY <1>1, <1>2, <1>4, <1>13
      <3>4. limit = IF IsZero(x) = (t = 0) THEN Zero ELSE I
        BY <3>2, <3>3 DEF IsZero
      <3>5. Good <=> r = <<"exact", WithSign(odd, limit)>>
        <4> HIDE DEF odd, limit
        <4>1. QED BY <1>9, <1>13, <2>1, <2>4
      <3>6. ofX = WithSign(odd, limit)
        <4>1. ofX = WithSign(sign, IF IsZero(x) = (t = 0) THEN Zero ELSE I)
          BY <2>4
        <4> HIDE DEF odd, limit, sign, ofX
        <4>2. QED BY <3>1, <3>4, <4>1
      <3> HIDE DEF odd, limit, ofX
      <3>7. QED BY <2>2, <3>5, <3>6
    <2>5. QED BY <2>3, <2>4
  <1>14. ASSUME ~zy, ~zx PROVE Good
    <2>1. ~IsZero(y) /\ ~IsNaN(y) /\ ~IsNaN(x)
      BY <1>1, <1>4, <1>14
    <2>2. /\ (c = 0 <=> ~Whole(y)) /\ sign = odd
          /\ (Exponent(y) < PowTiny => c = 0) /\ (Exponent(y) >= PowHuge => c = 2)
          /\ (c = 1 <=> OddInteger(y))
      BY <1>6, <1>14
    <2>3. CASE s = 1 /\ c = 0
      <3>1. x # One
        BY <1>5, <2>3
      <3>2. r = <<"exact", NaN>>
        BY <1>8, <1>14, <2>3
      <3> HIDE DEF odd, limit, grows, sign
      <3>3. QED BY <1>9, <1>14, <2>1, <2>2, <2>3, <3>1, <3>2
    <2>4. CASE ~(s = 1 /\ c = 0) /\ x = One
      <3>1. sign = 0 /\ a = One
        BY <1>5, <2>4
      <3>2. r \in {<<"exact", One>>, <<"exp", 0>>}
        BY <1>8, <1>14, <2>4, <3>1
      <3> HIDE DEF odd, limit, grows, sign
      <3>3. QED BY <1>9, <2>1, <2>4, <3>2
    <2>5. CASE ~(s = 1 /\ c = 0) /\ x # One
      <3>1. Good <=> CASE r[1] = "exp" -> r[2] = odd
                       [] r[1] = "near one" -> odd = 0 /\ a # One /\ r[2] = IF grows THEN 1 ELSE -1
                       [] r[1] = "exact" -> odd = 0 /\ r[2] = limit
        <4> HIDE DEF odd, limit, grows, sign
        <4>1. QED BY <1>9, <1>14, <2>1, <2>2, <2>5
      <3>2. ASSUME outside PROVE odd = 0
        BY <1>11, <1>14, <3>2
      <3>3. CASE ~outside
        <4>1. r = <<"exp", sign>>
          <5> HIDE DEF sign
          <5>1. QED BY <1>8, <1>14, <2>5, <3>3
        <4>2. r[1] = "exp" /\ r[2] = odd
          <5> HIDE DEF sign, odd
          <5>1. QED BY <2>2, <4>1
        <4> HIDE DEF odd, limit, grows, sign
        <4>3. QED BY <3>1, <4>2
      <3>4. CASE outside /\ a = One
        <4>1. r = <<"exact", One>>
          BY <1>8, <1>14, <2>5, <3>4
        <4>2. r[1] = "exact" /\ r[2] = limit
          BY <3>4, <4>1
        <4> HIDE DEF odd, limit, grows, sign, outside
        <4>3. QED BY <3>1, <3>2, <3>4, <4>2
      <3>5. CASE outside /\ a # One /\ Exponent(y) < PowTiny
        <4>1. r = <<"near one", IF grows THEN 1 ELSE -1>>
          BY <1>8, <1>14, <2>5, <3>5
        <4>2. r[1] = "near one" /\ r[2] = IF grows THEN 1 ELSE -1
          BY <4>1
        <4> HIDE DEF odd, limit, grows, sign, outside
        <4>3. QED BY <3>1, <3>2, <3>5, <4>2
      <3>6. CASE outside /\ a # One /\ ~(Exponent(y) < PowTiny)
        <4>1. r = <<"exact", IF grows THEN I ELSE Zero>>
          BY <1>8, <1>14, <2>5, <3>6
        <4>2. r[1] = "exact" /\ r[2] = limit
          BY <3>6, <4>1
        <4> HIDE DEF odd, limit, grows, sign, outside
        <4>3. QED BY <3>1, <3>2, <3>6, <4>2
      <3>7. QED BY <3>3, <3>4, <3>5, <3>6
    <2>6. QED BY <2>3, <2>4, <2>5
  <1>15. Good
    BY <1>12, <1>13, <1>14
  <1>16. QED BY <1>15 DEF Good, r

-----------------------------------------------------------------------------
\* Every function of MathBits gives, for all floats of any width that
\* FloatsAssumption allows, the results that C determines.
THEOREM MathFollowsC == MathSpec => []MathAsInC
  <1>1. MathInit => MathAsInC
    BY DEF MathInit, MathAsInC, RoundsAsInC, ExactAsInC, SpecialAsInC
  <1>2. MathAsInC /\ [MathNext]_mathVars => MathAsInC'
    <2> SUFFICES ASSUME MathAsInC, [MathNext]_mathVars PROVE MathAsInC'
      OBVIOUS
    <2>1. CASE UNCHANGED mathVars
      <3>1. fn' = fn /\ result' = result /\ X' = X /\ Y' = Y
        BY <2>1 DEF mathVars, X, Y
      <3>2. RoundsAsInC'
        BY <3>1 DEF MathAsInC, RoundsAsInC
      <3>3. ExactAsInC'
        BY <3>1 DEF MathAsInC, ExactAsInC
      <3>4. PowInC => PowInC'
        BY <3>1 DEF PowInC, Grows, PowLimit
      <3>5. Atan2InC => Atan2InC'
        BY <3>1 DEF Atan2InC
      <3>6. SpecialAsInC'
        BY <3>1, <3>4, <3>5 DEF MathAsInC, SpecialAsInC
      <3>7. QED BY <3>2, <3>3, <3>6 DEF MathAsInC
    <2>2. CASE MathNext
      <3>1. fn' \notin {"floor", "ceil", "trunc", "rint", "round", "lrint", "modf"} => RoundsAsInC'
        BY DEF RoundsAsInC
      <3>2. fn' \notin {"scalbn", "frexp", "fabs", "copysign", "fmod", "sqrt", "fmax", "fmin"}
              => ExactAsInC'
        BY DEF ExactAsInC
      <3>3. fn' \notin {"pow", "atan2"} => SpecialAsInC'
        BY DEF SpecialAsInC
      <3>4. ASSUME NEW x \in Patterns, NEW f \in {"floor", "ceil", "trunc", "rint", "round"},
                   MathCall(f, <<x>>, <<Integral(f, x)>>)
            PROVE  MathAsInC'
        <4>1. fn' = f /\ X' = x /\ result' = <<Integral(f, x)>>
          BY <3>4 DEF MathCall, X
        <4>2. f # "lrint" /\ f # "modf"
          BY <3>4
        <4>3. RoundsAsInC'
          BY <4>1, <4>2 DEF RoundsAsInC
        <4>4. QED BY <3>2, <3>3, <3>4, <4>1, <4>3 DEF MathAsInC
      <3>5. ASSUME NEW x \in Patterns, MathCall("lrint", <<x>>, lrint(x)) PROVE MathAsInC'
        <4>1. fn' = "lrint" /\ X' = x /\ result' = lrint(x)
          BY <3>5 DEF MathCall, X
        <4>2. lrint(x) = LET r == Integral("rint", x) IN IF FitsLong(r) THEN <<IntegerOf(r)>> ELSE <<>>
          BY RintIs DEF lrint
        <4>3. RoundsAsInC'
          BY <4>1, <4>2 DEF RoundsAsInC
        <4>4. QED BY <3>2, <3>3, <4>1, <4>3 DEF MathAsInC
      <3>6. ASSUME NEW x \in Patterns, MathCall("modf", <<x>>, modf(x)) PROVE MathAsInC'
        <4>1. fn' = "modf" /\ X' = x /\ result' = SplitInC(x)
          BY <3>6, ModfIs DEF MathCall, X
        <4>2. RoundsAsInC'
          BY <4>1 DEF RoundsAsInC, SplitInC
        <4>3. QED BY <3>2, <3>3, <4>1, <4>2 DEF MathAsInC
      <3>7. ASSUME NEW x \in Patterns, MathCall("fabs", <<x>>, <<fabs(x)>>) PROVE MathAsInC'
        <4>1. fn' = "fabs" /\ X' = x /\ result'[1] = fabs(x)
          BY <3>7 DEF MathCall, X
        <4>2. ExactAsInC'
          BY <4>1, SignsAre DEF ExactAsInC
        <4>3. QED BY <3>1, <3>3, <4>1, <4>2 DEF MathAsInC
      <3>8. ASSUME NEW x \in Patterns, MathCall("frexp", <<x>>, frexp(x)) PROVE MathAsInC'
        <4>1. fn' = "frexp" /\ X' = x /\ result' = frexp(x)
          BY <3>8 DEF MathCall, X
        <4>2. ExactAsInC'
          BY <4>1, FrexpIs DEF ExactAsInC
        <4>3. QED BY <3>1, <3>3, <4>1, <4>2 DEF MathAsInC
      <3>9. ASSUME NEW x \in Patterns,
                   NEW s \in IF x \in 1 .. Infinity - 1 THEN Approximations(x) ELSE {0},
                   MathCall("sqrt", <<x>>, <<sqrt(x, s)>>)
            PROVE  MathAsInC'
        <4>1. fn' = "sqrt" /\ X' = x /\ result' = <<sqrt(x, s)>> /\ result'[1] = sqrt(x, s)
          BY <3>9 DEF MathCall, X
        <4>2. IF IsZero(x) \/ x = Infinity THEN sqrt(x, s) = x
              ELSE IF x > Infinity THEN sqrt(x, s) = NaN
              ELSE SignBit(sqrt(x, s)) = 0 /\ NearestRoot(sqrt(x, s), x)
          <5>1. CASE IsZero(x) \/ x = Infinity \/ x > Infinity
            BY <5>1 DEF sqrt
          <5>2. CASE ~(IsZero(x) \/ x = Infinity \/ x > Infinity)
            <6>1. x \in Nat /\ Infinity \in Nat
              BY Format DEF Patterns
            <6>2. x # 0
              <7>1. 0 \in 0 .. 1 /\ 0 \in 0 .. SignWeight - 1
                BY Format
              <7>2. AbsBits(0) = 0
                BY <7>1, SignedPattern
              <7>3. QED BY <5>2, <7>2 DEF IsZero
            <6>3. x \in 1 .. Infinity - 1
              BY <5>2, <6>1, <6>2
            <6>4. s \in Approximations(x)
              BY <6>3
            <6>5. QED BY <5>2, <6>3, <6>4, SqrtIs
          <5>3. QED BY <5>1, <5>2
        <4>3. ExactAsInC'
          BY <4>1, <4>2 DEF ExactAsInC
        <4>4. QED BY <3>1, <3>3, <4>1, <4>3 DEF MathAsInC
      <3>10. ASSUME NEW x \in Patterns, NEW n \in Shifts,
                    MathCall("scalbn", <<x, n>>, <<scalbn(x, n)>>)
             PROVE  MathAsInC'
        <4>1. fn' = "scalbn" /\ X' = x /\ Y' = n /\ result' = <<scalbn(x, n)>>
          BY <3>10 DEF MathCall, X, Y
        <4>2. scalbn(x, n) = IF AbsBits(x) >= Infinity THEN x
                             ELSE WithSign(SignBit(x), Nearest(Sig(x), Pow(x) + n))
          <5>1. n \in Int
            BY MathBitsAssumption
          <5>2. QED BY <5>1, ScalbnIs DEF Scaled
        <4>3. ExactAsInC'
          BY <4>1, <4>2 DEF ExactAsInC
        <4>4. QED BY <3>1, <3>3, <4>1, <4>3 DEF MathAsInC
      <3>11. ASSUME NEW x \in Patterns, NEW y \in Patterns, MathCall("fmod", <<x, y>>, <<fmod(x, y)>>)
             PROVE  MathAsInC'
        <4>1. fn' = "fmod" /\ X' = x /\ Y' = y /\ result' = <<fmod(x, y)>>
          BY <3>11 DEF MathCall, X, Y
        <4>2. ExactAsInC'
          BY <4>1, FmodIs DEF ExactAsInC
        <4>3. QED BY <3>1, <3>3, <4>1, <4>2 DEF MathAsInC
      <3>12. ASSUME NEW x \in Patterns, NEW y \in Patterns, MathCall("fmax", <<x, y>>, <<fmax(x, y)>>)
             PROVE  MathAsInC'
        <4>1. fn' = "fmax" /\ X' = x /\ Y' = y /\ result'[1] = fmax(x, y)
          BY <3>12 DEF MathCall, X, Y
        <4>2. Greatest(result'[1], X', Y')
          BY <4>1, MaxMinAre
        <4>3. ExactAsInC'
          BY <4>1, <4>2 DEF ExactAsInC, Greatest
        <4>4. QED BY <3>1, <3>3, <4>1, <4>3 DEF MathAsInC
      <3>13. ASSUME NEW x \in Patterns, NEW y \in Patterns, MathCall("fmin", <<x, y>>, <<fmin(x, y)>>)
             PROVE  MathAsInC'
        <4>1. fn' = "fmin" /\ X' = x /\ Y' = y /\ result'[1] = fmin(x, y)
          BY <3>13 DEF MathCall, X, Y
        <4>2. Least(result'[1], X', Y')
          BY <4>1, MaxMinAre
        <4>3. ExactAsInC'
          BY <4>1, <4>2 DEF ExactAsInC, Least
        <4>4. QED BY <3>1, <3>3, <4>1, <4>3 DEF MathAsInC
      <3>14. ASSUME NEW x \in Patterns, NEW y \in Patterns,
                    MathCall("copysign", <<x, y>>, <<copysign(x, y)>>)
             PROVE  MathAsInC'
        <4>1. fn' = "copysign" /\ X' = x /\ Y' = y /\ result'[1] = copysign(x, y)
          BY <3>14 DEF MathCall, X, Y
        <4>2. ExactAsInC'
          BY <4>1, SignsAre DEF ExactAsInC
        <4>3. QED BY <3>1, <3>3, <4>1, <4>2 DEF MathAsInC
      <3>15. ASSUME NEW x \in Patterns, NEW y \in Patterns, MathCall("atan2", <<x, y>>, atan2(x, y))
             PROVE  MathAsInC'
        <4>1. fn' = "atan2" /\ X' = x /\ Y' = y /\ result' = atan2(x, y)
          BY <3>15 DEF MathCall, X, Y
        <4>2. AngleInC(X', Y', result')
          BY <4>1, Atan2Is
        <4>3. Atan2InC'
          BY <4>2 DEF Atan2InC, AngleInC
        <4>4. SpecialAsInC'
          BY <4>1, <4>3 DEF SpecialAsInC
        <4>5. QED BY <3>1, <3>2, <4>1, <4>4 DEF MathAsInC
      <3>16. ASSUME NEW x \in Patterns, NEW y \in Patterns, MathCall("pow", <<x, y>>, pow(x, y))
             PROVE  MathAsInC'
        <4>1. fn' = "pow" /\ X' = x /\ Y' = y /\ result' = pow(x, y)
          BY <3>16 DEF MathCall, X, Y
        <4>2. PowerInC(X', Y', result')
          BY <4>1, PowIs
        <4>3. PowInC'
          BY <4>2 DEF PowInC, PowerInC, Grows, PowLimit
        <4>4. SpecialAsInC'
          BY <4>1, <4>3 DEF SpecialAsInC
        <4>5. QED BY <3>1, <3>2, <4>1, <4>4 DEF MathAsInC
      <3>17. CASE OfOne
        <4>1. PICK x \in Patterns :
                \/ MathCall("floor", <<x>>, <<floor(x)>>) \/ MathCall("ceil", <<x>>, <<ceil(x)>>)
                \/ MathCall("trunc", <<x>>, <<trunc(x)>>) \/ MathCall("rint", <<x>>, <<rint(x)>>)
                \/ MathCall("round", <<x>>, <<round(x)>>) \/ MathCall("lrint", <<x>>, lrint(x))
                \/ MathCall("fabs", <<x>>, <<fabs(x)>>)
                \/ MathCall("modf", <<x>>, modf(x)) \/ MathCall("frexp", <<x>>, frexp(x))
                \/ \E s \in IF x \in 1 .. Infinity - 1 THEN Approximations(x) ELSE {0} :
                     MathCall("sqrt", <<x>>, <<sqrt(x, s)>>)
                \/ \E n \in Shifts : MathCall("scalbn", <<x, n>>, <<scalbn(x, n)>>)
          BY <3>17 DEF OfOne
        <4>2. /\ floor(x) = Integral("floor", x) /\ ceil(x) = Integral("ceil", x)
              /\ trunc(x) = Integral("trunc", x) /\ rint(x) = Integral("rint", x)
              /\ round(x) = Integral("round", x)
          BY FloorIs, CeilIs, TruncIs, RintIs, RoundIs
        <4>3. CASE MathCall("floor", <<x>>, <<floor(x)>>) \/ MathCall("ceil", <<x>>, <<ceil(x)>>)
                   \/ MathCall("trunc", <<x>>, <<trunc(x)>>) \/ MathCall("rint", <<x>>, <<rint(x)>>)
                   \/ MathCall("round", <<x>>, <<round(x)>>)
          BY <3>4, <4>2, <4>3
        <4>4. QED BY <3>5, <3>6, <3>7, <3>8, <3>9, <3>10, <4>1, <4>3
      <3>18. CASE OfTwo
        <4>1. CASE \E x, y \in Patterns : MathCall("fmod", <<x, y>>, <<fmod(x, y)>>)
          BY <3>11, <4>1
        <4>2. CASE \E x, y \in Corners :
                     \/ MathCall("fmax", <<x, y>>, <<fmax(x, y)>>)
                     \/ MathCall("fmin", <<x, y>>, <<fmin(x, y)>>)
                     \/ MathCall("copysign", <<x, y>>, <<copysign(x, y)>>)
                     \/ MathCall("atan2", <<x, y>>, atan2(x, y))
                     \/ MathCall("pow", <<x, y>>, pow(x, y))
          <5>1. \A x \in Corners : x \in Patterns
            BY MathBitsAssumption
          <5>2. QED BY <3>12, <3>13, <3>14, <3>15, <3>16, <4>2, <5>1
        <4>3. QED BY <3>18, <4>1, <4>2 DEF OfTwo
      <3>19. QED BY <2>2, <3>17, <3>18 DEF MathNext
    <2>3. QED BY <2>1, <2>2
  <1>3. QED BY <1>1, <1>2, PTL DEF MathSpec
=============================================================================
