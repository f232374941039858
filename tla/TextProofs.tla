----------------------------- MODULE TextProofs -----------------------------
(***************************************************************************)
(* Proofs about Strings, for memories of any size, and about Numbers, for  *)
(* texts of any length.                                                    *)
(***************************************************************************)
EXTENDS Strings, Numbers, SequenceTheorems, WellFoundedInduction, TLAPS

-----------------------------------------------------------------------------
(* Loops.                                                                  *)

\* Every set of numbers has a least one.
LEMMA LeastNumber ==
  ASSUME NEW T, T \subseteq Nat, T # {}
  PROVE  \E m \in T : \A k \in T : m <= k
  <1>1. \E m \in T : \A k \in T : <<k, m>> \notin OpToRel(<, Nat)
    BY NatLessThanWellFounded, WFMin
  <1>2. PICK m \in T : \A k \in T : <<k, m>> \notin OpToRel(<, Nat)
    BY <1>1
  <1>3. \A k \in T : ~(k < m)
    BY <1>2 DEF OpToRel
  <1>4. QED
    BY <1>3

\* Two functions that begin and go on alike are the same.
LEMMA SameSteps ==
  ASSUME NEW n \in Nat, NEW f, NEW g, f[0] = g[0],
         \A k \in 1 .. n : f[k - 1] = g[k - 1] => f[k] = g[k]
  PROVE  \A k \in 0 .. n : f[k] = g[k]
  <1> DEFINE Bad == {k \in 0 .. n : f[k] # g[k]}
  <1>1. Bad = {}
    <2> SUFFICES ASSUME Bad # {} PROVE FALSE
      OBVIOUS
    <2>1. Bad \subseteq Nat
      OBVIOUS
    <2>2. PICK m \in Bad : \A k \in Bad : m <= k
      <3> HIDE DEF Bad
      <3>1. QED BY <2>1, LeastNumber
    <2>3. m \in 1 .. n
      BY <2>2
    <2>4. m - 1 \in 0 .. n /\ m - 1 \notin Bad
      BY <2>2, <2>3
    <2>5. QED BY <2>2, <2>3, <2>4
  <1>2. QED BY <1>1

\* The same, of functions that go alike by name.
Alike(f, g, n) ==
  f[0] = g[0] /\ \A k \in 1 .. n : f[k - 1] = g[k - 1] => f[k] = g[k]

LEMMA AlikeSame ==
  ASSUME NEW n \in Nat, NEW f, NEW g, Alike(f, g, n)
  PROVE  \A k \in 0 .. n : f[k] = g[k]
  BY SameSteps DEF Alike

\* A loop that counts up, or down, until it comes to a place where it stops.
CountsUp(f, Stop, G) ==
  /\ f = [i \in Nat |-> f[i]]
  /\ \A i \in Nat : f[i] = IF i \in Stop THEN G[i] ELSE f[i + 1]
CountsDown(f, Stop, G) ==
  /\ f = [i \in Nat |-> f[i]]
  /\ \A i \in Nat : f[i] = IF i \in Stop THEN G[i] ELSE f[i - 1]

\* The least place ahead gives such a loop, and is what every such loop finds.
LEMMA UpExists ==
  ASSUME NEW Stop, NEW G
  PROVE  \E f : CountsUp(f, Stop, G)
  <1> DEFINE Ahead(i) == {j \in Nat : i <= j /\ j \in Stop}
             Least(T) == CHOOSE j \in T : \A k \in T : j <= k
             f == [i \in Nat |-> IF Ahead(i) = {} THEN 0 ELSE G[Least(Ahead(i))]]
  <1>1. ASSUME NEW i \in Nat
        PROVE  f[i] = IF i \in Stop THEN G[i] ELSE f[i + 1]
    <2>1. CASE i \in Stop
      <3>1. i \in Ahead(i) /\ \A j \in Ahead(i) : i <= j
        BY <2>1
      <3>2. Least(Ahead(i)) = i
        <4>1. Ahead(i) \subseteq Nat
          OBVIOUS
        <4> HIDE DEF Ahead
        <4>2. QED BY <3>1, <4>1
      <3>3. QED
        <4> HIDE DEF Ahead, Least
        <4>1. QED BY <2>1, <3>1, <3>2
    <2>2. CASE i \notin Stop
      <3>1. Ahead(i) = Ahead(i + 1)
        BY <2>2
      <3>2. QED
        <4> HIDE DEF Ahead, Least
        <4>1. QED BY <2>2, <3>1
    <2>3. QED BY <2>1, <2>2
  <1>2. f = [i \in Nat |-> f[i]]
    OBVIOUS
  <1>3. CountsUp(f, Stop, G)
    <2> HIDE DEF f
    <2>1. QED BY <1>1, <1>2 DEF CountsUp
  <1>4. QED BY <1>3

LEMMA UpFinds ==
  ASSUME NEW Stop, NEW G, NEW f, CountsUp(f, Stop, G),
         NEW i \in Nat, NEW j \in Nat, i <= j, j \in Stop,
         \A k \in i .. j - 1 : k \notin Stop
  PROVE  f[i] = G[j]
  <1> DEFINE g == [d \in 0 .. j - i |-> f[j - d]]
             c == [d \in 0 .. j - i |-> G[j]]
  <1>0. \A k \in Nat : f[k] = IF k \in Stop THEN G[k] ELSE f[k + 1]
    BY DEF CountsUp
  <1>1. g[0] = c[0]
    BY <1>0
  <1>2. ASSUME NEW d \in 1 .. j - i, g[d - 1] = c[d - 1]
        PROVE  g[d] = c[d]
    <2>1. j - d \in i .. j - 1 /\ (j - d) + 1 = j - (d - 1)
      OBVIOUS
    <2>2. f[j - d] = f[j - (d - 1)]
      BY <1>0, <2>1
    <2>3. QED BY <1>2, <2>1, <2>2
  <1>3. \A d \in 0 .. j - i : g[d] = c[d]
    <2> HIDE DEF g, c
    <2>1. j - i \in Nat
      OBVIOUS
    <2>2. \A d \in 1 .. j - i : g[d - 1] = c[d - 1] => g[d] = c[d]
      BY <1>2
    <2> DEFINE n == j - i
    <2>3. n \in Nat /\ \A d \in 1 .. n : g[d - 1] = c[d - 1] => g[d] = c[d]
      BY <2>1, <2>2
    <2> HIDE DEF n
    <2>4. \A d \in 0 .. n : g[d] = c[d]
      BY <1>1, <2>3, SameSteps
    <2>5. QED BY <2>4 DEF n
  <1>4. g[j - i] = f[i] /\ c[j - i] = G[j]
    OBVIOUS
  <1>5. QED BY <1>3, <1>4

\* The same for loops that count down, and stop at 0 at the latest.
LEMMA DownExists ==
  ASSUME NEW Stop, NEW G, 0 \in Stop
  PROVE  \E f : CountsDown(f, Stop, G)
  <1> DEFINE Behind(i) == {j \in Nat : j <= i /\ j \in Stop}
             Greatest(T) == CHOOSE j \in T : \A k \in T : k <= j
             f == [i \in Nat |-> G[Greatest(Behind(i))]]
  <1>1. ASSUME NEW i \in Nat
        PROVE  f[i] = IF i \in Stop THEN G[i] ELSE f[i - 1]
    <2>1. CASE i \in Stop
      <3>1. i \in Behind(i) /\ \A j \in Behind(i) : j <= i
        BY <2>1
      <3>2. Greatest(Behind(i)) = i
        <4>1. Behind(i) \subseteq Nat
          OBVIOUS
        <4> HIDE DEF Behind
        <4>2. QED BY <3>1, <4>1
      <3>3. QED
        <4> HIDE DEF Behind, Greatest
        <4>1. QED BY <2>1, <3>1, <3>2
    <2>2. CASE i \notin Stop
      <3>1. i - 1 \in Nat
        BY <2>2
      <3>2. Behind(i) = Behind(i - 1)
        BY <2>2, <3>1
      <3>3. QED
        <4> HIDE DEF Behind, Greatest
        <4>1. QED BY <2>2, <3>1, <3>2
    <2>3. QED BY <2>1, <2>2
  <1>2. f = [i \in Nat |-> f[i]]
    OBVIOUS
  <1>3. CountsDown(f, Stop, G)
    <2> HIDE DEF f
    <2>1. QED BY <1>1, <1>2 DEF CountsDown
  <1>4. QED BY <1>3

LEMMA DownFinds ==
  ASSUME NEW Stop, NEW G, NEW f, CountsDown(f, Stop, G),
         NEW i \in Nat, NEW j \in Nat, j <= i, j \in Stop,
         \A k \in j + 1 .. i : k \notin Stop
  PROVE  f[i] = G[j]
  <1> DEFINE n == i - j
             g == [d \in 0 .. n |-> f[j + d]]
             c == [d \in 0 .. n |-> G[j]]
  <1>0. \A k \in Nat : f[k] = IF k \in Stop THEN G[k] ELSE f[k - 1]
    BY DEF CountsDown
  <1>1. n \in Nat /\ g[0] = c[0]
    BY <1>0
  <1>2. \A d \in 1 .. n : g[d - 1] = c[d - 1] => g[d] = c[d]
    <2> SUFFICES ASSUME NEW d \in 1 .. n, g[d - 1] = c[d - 1]
                 PROVE  g[d] = c[d]
      OBVIOUS
    <2>1. j + d \in j + 1 .. i /\ (j + d) - 1 = j + (d - 1)
      OBVIOUS
    <2>2. f[j + d] = f[j + (d - 1)]
      BY <1>0, <2>1
    <2>3. QED BY <2>1, <2>2
  <1>3. g[n] = f[i] /\ c[n] = G[j]
    OBVIOUS
  <1> HIDE DEF n, g, c
  <1>4. \A d \in 0 .. n : g[d] = c[d]
    BY <1>1, <1>2, SameSteps
  <1>5. QED BY <1>1, <1>3, <1>4

-----------------------------------------------------------------------------
(* What the functions of string.c return.                                  *)

\* strlen counts the chars before the first NUL.
LEMMA LengthFound ==
  ASSUME NEW b, NEW s \in Nat, NEW e \in Nat, s <= e, b[e] = 0,
         \A k \in s .. e - 1 : b[k] # 0
  PROVE  strlen(b, s) = e - s
  <1> DEFINE Stop == {i \in Nat : b[i] = 0}
             G == [i \in Nat |-> i]
             H(f) == [i \in Nat |-> IF b[i] = 0 THEN i ELSE f[i + 1]]
             end == CHOOSE f : f = H(f)
  <1>1. \A f : CountsUp(f, Stop, G) <=> f = H(f)
    BY DEF CountsUp
  <1>2. CountsUp(end, Stop, G)
    <2> HIDE DEF Stop, G, H
    <2>1. \E f : f = H(f)
      BY <1>1, UpExists
    <2>2. QED BY <1>1, <2>1
  <1>3. e \in Stop /\ (\A k \in s .. e - 1 : k \notin Stop) /\ G[e] = e
    OBVIOUS
  <1>4. end[s] = e
    <2> HIDE DEF Stop, G, end
    <2>1. QED BY <1>2, <1>3, UpFinds
  <1>5. strlen(b, s) = end[s] - s
    BY DEF strlen
  <1>6. QED BY <1>4, <1>5

Memories == [Addresses -> CharValues]

LEMMA OneCopied ==
  ASSUME NEW b, b = [a \in Addresses |-> b[a]], NEW d, NEW s
  PROVE  CopyChar(b, d, s) = [a \in Addresses |-> IF a = d THEN b[s] ELSE b[a]]
  BY DEF CopyChar

\* A loop of n turns, with what there is before the first and after each.
Turns(so, n) == so = [k \in 0 .. n |-> so[k]]

\* The bytes that have been copied after each turn are what every such loop has
\* copied.
LEMMA CopiedFound ==
  ASSUME NEW b, NEW dest, NEW src, NEW order, NEW len \in Nat, Len(order) = len,
         NEW so, Turns(so, len), so[0] = b,
         \A k \in 1 .. len : so[k] = CopyChar(so[k - 1], dest + order[k], src + order[k])
  PROVE  CopyBytes(b, dest, src, order) = so[len]
  <1> DEFINE H(f) == [k \in 0 .. Len(order) |->
                        IF k = 0 THEN b
                        ELSE CopyChar(f[k - 1], dest + order[k], src + order[k])]
             copied == CHOOSE f : f = H(f)
  <1>1. so = H(so)
    <2>1. H(so) = [k \in 0 .. len |-> H(so)[k]]
      OBVIOUS
    <2>2. \A k \in 0 .. len : so[k] = H(so)[k]
      OBVIOUS
    <2> HIDE DEF H
    <2>3. QED BY <2>1, <2>2 DEF Turns
  <1>2. copied = H(copied)
    <2> HIDE DEF H
    <2>1. QED BY <1>1
  <1>3. copied[0] = so[0]
    <2> HIDE DEF copied
    <2>1. QED BY <1>2
  <1>4. \A k \in 1 .. len : copied[k - 1] = so[k - 1] => copied[k] = so[k]
    <2> HIDE DEF copied
    <2>1. \A k \in 1 .. len :
            copied[k] = CopyChar(copied[k - 1], dest + order[k], src + order[k])
      BY <1>2
    <2> HIDE DEF H
    <2>2. QED BY <2>1
  <1>5. copied[len] = so[len]
    <2> HIDE DEF copied, H
    <2>1. \A k \in 0 .. len : copied[k] = so[k]
      BY <1>3, <1>4, SameSteps
    <2>2. QED BY <2>1
  <1>6. CopyBytes(b, dest, src, order) = copied[Len(order)]
    BY DEF CopyBytes
  <1>7. QED BY <1>5, <1>6

\* Forward is right when the target begins below the source or beyond it.
LEMMA ForwardCopies ==
  ASSUME NEW b \in Memories, NEW dest \in Addresses, NEW src \in Addresses,
         NEW len \in Nat, Fits(dest, len), Fits(src, len),
         dest <= src \/ src + len <= dest
  PROVE  CopyBytes(b, dest, src, Forward(len)) = Copied(b, dest, src, len)
  <1> DEFINE so == [k \in 0 .. len |-> Copied(b, dest, src, k)]
             order == Forward(len)
  <1>1. Len(order) = len
    BY DEF Forward
  <1>2. Turns(so, len)
    BY DEF Turns
  <1>3. so[0] = b
    BY StringsAssumption DEF Copied, Memories
  <1>4. ASSUME NEW k \in 1 .. len
        PROVE  so[k] = CopyChar(so[k - 1], dest + order[k], src + order[k])
    <2> DEFINE d == dest + (k - 1)
               s == src + (k - 1)
               m == Copied(b, dest, src, k - 1)
    <2>1. order[k] = k - 1
      BY DEF Forward
    <2>2. s \in Addresses /\ d \in Addresses
      BY StringsAssumption DEF Fits
    <2>3. m[s] = b[s]
      <3>1. s \notin dest .. dest + (k - 1) - 1
        BY StringsAssumption
      <3>2. QED BY <2>2, <3>1 DEF Copied
    <2>4. CopyChar(m, d, s) = [a \in Addresses |-> IF a = d THEN m[s] ELSE m[a]]
      <3>1. m = [a \in Addresses |-> m[a]]
        BY DEF Copied
      <3> HIDE DEF m, d, s
      <3>2. QED BY <3>1, OneCopied
    <2>5. \A a \in Addresses :
            Copied(b, dest, src, k)[a] = IF a = d THEN b[s] ELSE m[a]
      <3> SUFFICES ASSUME NEW a \in Addresses
                   PROVE  Copied(b, dest, src, k)[a] = IF a = d THEN b[s] ELSE m[a]
        OBVIOUS
      <3>1. a = d => src + a - dest = s
        BY StringsAssumption
      <3>2. a \in dest .. dest + k - 1 <=> a = d \/ a \in dest .. dest + (k - 1) - 1
        BY StringsAssumption
      <3>3. a = d => a \notin dest .. dest + (k - 1) - 1
        BY StringsAssumption
      <3>4. Copied(b, dest, src, k)[a]
              = IF a \in dest .. dest + k - 1 THEN b[src + a - dest] ELSE b[a]
        BY DEF Copied
      <3>5. m[a] = IF a \in dest .. dest + (k - 1) - 1 THEN b[src + a - dest] ELSE b[a]
        BY DEF Copied
      <3> HIDE DEF m, d, s
      <3>6. QED BY <3>1, <3>2, <3>3, <3>4, <3>5
    <2>6. Copied(b, dest, src, k) = [a \in Addresses |-> Copied(b, dest, src, k)[a]]
      BY DEF Copied
    <2>7. Copied(b, dest, src, k) = CopyChar(m, d, s)
      <3> HIDE DEF m, d, s
      <3>1. QED BY <2>3, <2>4, <2>5, <2>6
    <2>8. QED BY <2>1, <2>7
  <1>5. so[len] = Copied(b, dest, src, len)
    OBVIOUS
  <1> HIDE DEF so, order
  <1>6. CopyBytes(b, dest, src, order) = so[len]
    BY <1>1, <1>2, <1>3, <1>4, CopiedFound
  <1>7. QED BY <1>5, <1>6 DEF order

\* Backward is right when the target begins above the source.
LEMMA BackwardCopies ==
  ASSUME NEW b \in Memories, NEW dest \in Addresses, NEW src \in Addresses,
         NEW len \in Nat, Fits(dest, len), Fits(src, len), src < dest
  PROVE  CopyBytes(b, dest, src, Backward(len)) = Copied(b, dest, src, len)
  <1> DEFINE done(k) == Copied(b, dest + (len - k), src + (len - k), k)
             so == [k \in 0 .. len |-> done(k)]
             order == Backward(len)
  <1>1. Len(order) = len
    BY DEF Backward
  <1>2. Turns(so, len)
    BY DEF Turns
  <1>3. so[0] = b
    BY StringsAssumption DEF Copied, Memories
  <1>4. ASSUME NEW k \in 1 .. len
        PROVE  so[k] = CopyChar(so[k - 1], dest + order[k], src + order[k])
    <2> DEFINE d == dest + (len - k)
               s == src + (len - k)
               m == done(k - 1)
    <2>1. order[k] = len - k
      BY DEF Backward
    <2>2. s \in Addresses /\ d \in Addresses
      BY StringsAssumption DEF Fits
    <2>3. m[s] = b[s]
      BY <2>2, StringsAssumption DEF Copied
    <2>4. CopyChar(m, d, s) = [a \in Addresses |-> IF a = d THEN m[s] ELSE m[a]]
      <3>1. m = [a \in Addresses |-> m[a]]
        BY DEF Copied
      <3> HIDE DEF m, d, s
      <3>2. QED BY <3>1, OneCopied
    <2>5. \A a \in Addresses : done(k)[a] = IF a = d THEN b[s] ELSE m[a]
      <3> SUFFICES ASSUME NEW a \in Addresses
                   PROVE  done(k)[a] = IF a = d THEN b[s] ELSE m[a]
        OBVIOUS
      <3>1. s + a - d = src + (len - (k - 1)) + a - (dest + (len - (k - 1)))
        BY StringsAssumption
      <3>2. a = d => s + a - d = s
        BY StringsAssumption
      <3>3. a \in d .. d + k - 1
              <=> a = d \/ a \in dest + (len - (k - 1)) .. dest + (len - (k - 1)) + (k - 1) - 1
        <4>1. /\ d \in Int /\ a \in Int /\ k \in Nat
              /\ dest + (len - (k - 1)) = d + 1
              /\ dest + (len - (k - 1)) + (k - 1) - 1 = d + k - 1
          BY StringsAssumption
        <4> HIDE DEF d
        <4>2. k > 0
          OBVIOUS
        <4>3. a \in d .. d + k - 1 <=> a = d \/ a \in d + 1 .. d + k - 1
          BY ONLY <4>1, <4>2
        <4>4. QED BY ONLY <4>1, <4>3
      <3>4. QED BY <3>1, <3>2, <3>3, <2>2, StringsAssumption DEF Copied
    <2>6. done(k) = [a \in Addresses |-> done(k)[a]]
      BY DEF Copied
    <2>7. done(k) = CopyChar(m, d, s)
      <3> HIDE DEF m, d, s, done
      <3>1. QED BY <2>3, <2>4, <2>5, <2>6
    <2>8. QED BY <2>1, <2>7
  <1>5. so[len] = Copied(b, dest, src, len)
    BY StringsAssumption
  <1> HIDE DEF so, order
  <1>6. CopyBytes(b, dest, src, order) = so[len]
    BY <1>1, <1>2, <1>3, <1>4, CopiedFound
  <1>7. QED BY <1>5, <1>6 DEF order

LEMMA MemoryIsCopied ==
  ASSUME NEW b \in Memories, NEW dest \in Addresses, NEW src \in Addresses,
         NEW len \in Nat, Fits(dest, len), Fits(src, len)
  PROVE  /\ memmove(b, dest, src, len) = Copied(b, dest, src, len)
         /\ Apart(dest, src, len) => memcpy(b, dest, src, len) = Copied(b, dest, src, len)
  <1>1. CASE src < dest /\ src + len > dest
    <2>1. memmove(b, dest, src, len) = Copied(b, dest, src, len)
      BY <1>1, BackwardCopies DEF memmove
    <2>2. ~Apart(dest, src, len)
      BY <1>1, StringsAssumption DEF Apart
    <2>3. QED BY <2>1, <2>2
  <1>2. CASE ~(src < dest /\ src + len > dest)
    <2>1. dest <= src \/ src + len <= dest
      BY <1>2, StringsAssumption
    <2>2. QED BY <1>2, <2>1, ForwardCopies DEF memmove, memcpy
  <1>3. QED BY <1>1, <1>2

\* Comparisons tell by the first place k where the two differ or end.
LEMMA MemcmpFound ==
  ASSUME NEW b, NEW v1 \in Nat, NEW v2 \in Nat, NEW len \in Nat, NEW k \in 0 .. len,
         \A i \in 0 .. k - 1 : ~(b[v1 + i] < b[v2 + i]) /\ ~(b[v1 + i] > b[v2 + i]),
         k = len \/ b[v1 + k] < b[v2 + k] \/ b[v1 + k] > b[v2 + k]
  PROVE  memcmp(b, v1, v2, len) = IF k = len THEN 0
                                  ELSE IF b[v1 + k] < b[v2 + k] THEN -1 ELSE 1
  <1> DEFINE Stop == {i \in Nat : i = len \/ b[v1 + i] < b[v2 + i] \/ b[v1 + i] > b[v2 + i]}
             G == [i \in Nat |-> IF i = len THEN 0
                                 ELSE IF b[v1 + i] < b[v2 + i] THEN -1 ELSE 1]
             H(f) == [i \in Nat |-> IF i = len THEN 0
                                    ELSE IF b[v1 + i] < b[v2 + i] THEN -1
                                    ELSE IF b[v1 + i] > b[v2 + i] THEN 1 ELSE f[i + 1]]
             from == CHOOSE f : f = H(f)
  <1>1. \A f : CountsUp(f, Stop, G) <=> f = H(f)
    BY DEF CountsUp
  <1>2. CountsUp(from, Stop, G)
    <2> HIDE DEF Stop, G, H
    <2>1. \E f : f = H(f)
      BY <1>1, UpExists
    <2>2. QED BY <1>1, <2>1
  <1>3. k \in Stop /\ (\A i \in 0 .. k - 1 : i \notin Stop)
    OBVIOUS
  <1>4. from[0] = G[k]
    <2> HIDE DEF Stop, G, from
    <2>1. QED BY <1>2, <1>3, UpFinds
  <1>5. memcmp(b, v1, v2, len) = from[0]
    BY DEF memcmp
  <1>6. QED BY <1>4, <1>5

Differ(b, s1, s2, k) == ~(b[s1 + k] # 0 /\ b[s1 + k] = b[s2 + k])
CharDifference(b, s1, s2, k) == Unsigned(b[s1 + k]) - Unsigned(b[s2 + k])

LEMMA StrcmpFound ==
  ASSUME NEW b, NEW s1, NEW s2, NEW k \in Nat,
         \A i \in 0 .. k - 1 : ~Differ(b, s1, s2, i), Differ(b, s1, s2, k)
  PROVE  strcmp(b, s1, s2) = CharDifference(b, s1, s2, k)
  <1> DEFINE Stop == {i \in Nat : Differ(b, s1, s2, i)}
             G == [i \in Nat |-> CharDifference(b, s1, s2, i)]
             H(f) == [i \in Nat |->
                        IF b[s1 + i] # 0 /\ b[s1 + i] = b[s2 + i] THEN f[i + 1]
                        ELSE Unsigned(b[s1 + i]) - Unsigned(b[s2 + i])]
             from == CHOOSE f : f = H(f)
  <1>1. \A f : CountsUp(f, Stop, G) <=> f = H(f)
    BY DEF CountsUp, Differ, CharDifference
  <1>2. CountsUp(from, Stop, G)
    <2> HIDE DEF Stop, G, H
    <2>1. \E f : f = H(f)
      BY <1>1, UpExists
    <2>2. QED BY <1>1, <2>1
  <1>3. k \in Stop /\ (\A i \in 0 .. k - 1 : i \notin Stop)
    OBVIOUS
  <1>4. from[0] = G[k]
    <2> HIDE DEF Stop, G, from
    <2>1. QED BY <1>2, <1>3, UpFinds
  <1>5. strcmp(b, s1, s2) = from[0]
    BY DEF strcmp
  <1>6. QED BY <1>4, <1>5

LEMMA StrncmpFound ==
  ASSUME NEW b, NEW s1, NEW s2, NEW n \in Nat, NEW k \in 0 .. n,
         \A i \in 0 .. k - 1 : ~Differ(b, s1, s2, i), k = n \/ Differ(b, s1, s2, k)
  PROVE  strncmp(b, s1, s2, n) = IF k = n THEN 0 ELSE CharDifference(b, s1, s2, k)
  <1> DEFINE Stop == {i \in Nat : i = n \/ Differ(b, s1, s2, i)}
             G == [i \in Nat |-> IF i = n THEN 0 ELSE CharDifference(b, s1, s2, i)]
             H(f) == [i \in Nat |->
                        IF i = n THEN 0
                        ELSE IF b[s1 + i] # 0 /\ b[s1 + i] = b[s2 + i] THEN f[i + 1]
                        ELSE Unsigned(b[s1 + i]) - Unsigned(b[s2 + i])]
             from == CHOOSE f : f = H(f)
  <1>1. \A f : CountsUp(f, Stop, G) <=> f = H(f)
    BY DEF CountsUp, Differ, CharDifference
  <1>2. CountsUp(from, Stop, G)
    <2> HIDE DEF Stop, G, H
    <2>1. \E f : f = H(f)
      BY <1>1, UpExists
    <2>2. QED BY <1>1, <2>1
  <1>3. k \in Stop /\ (\A i \in 0 .. k - 1 : i \notin Stop)
    OBVIOUS
  <1>4. from[0] = G[k]
    <2> HIDE DEF Stop, G, from
    <2>1. QED BY <1>2, <1>3, UpFinds
  <1>5. strncmp(b, s1, s2, n) = from[0]
    BY DEF strncmp
  <1>6. QED BY <1>4, <1>5

\* Searches return the first, or the last, place they come to.
LEMMA StrchrFound ==
  ASSUME NEW b, NEW str \in Nat, NEW c, NEW p \in Nat, str <= p,
         b[p] = c \/ b[p] = 0,
         \A k \in str .. p - 1 : b[k] # c /\ b[k] # 0
  PROVE  strchr(b, str, c) = IF b[p] = c THEN p ELSE NULL
  <1> DEFINE Stop == {i \in Nat : b[i] = c \/ b[i] = 0}
             G == [i \in Nat |-> IF b[i] = c THEN i ELSE NULL]
             H(f) == [i \in Nat |-> IF b[i] = c THEN i
                                    ELSE IF b[i] = 0 THEN NULL ELSE f[i + 1]]
             from == CHOOSE f : f = H(f)
  <1>1. \A f : CountsUp(f, Stop, G) <=> f = H(f)
    BY DEF CountsUp
  <1>2. CountsUp(from, Stop, G)
    <2> HIDE DEF Stop, G, H
    <2>1. \E f : f = H(f)
      BY <1>1, UpExists
    <2>2. QED BY <1>1, <2>1
  <1>3. p \in Stop /\ (\A i \in str .. p - 1 : i \notin Stop)
    OBVIOUS
  <1>4. from[str] = G[p]
    <2> HIDE DEF Stop, G, from
    <2>1. QED BY <1>2, <1>3, UpFinds
  <1>5. strchr(b, str, c) = from[str]
    BY DEF strchr
  <1>6. QED BY <1>4, <1>5

LEMMA StrstrFound ==
  ASSUME NEW b, NEW str \in Nat, NEW substr, NEW p \in Nat, str <= p,
         b[p] = 0 \/ strncmp(b, p, substr, strlen(b, substr)) = 0,
         \A k \in str .. p - 1 : b[k] # 0 /\ strncmp(b, k, substr, strlen(b, substr)) # 0
  PROVE  strstr(b, str, substr) = IF b[p] = 0 THEN NULL ELSE p
  <1> DEFINE len == strlen(b, substr)
             Same(i) == strncmp(b, i, substr, len) = 0
             Stop == {i \in Nat : b[i] = 0 \/ Same(i)}
             G == [i \in Nat |-> IF b[i] = 0 THEN NULL ELSE i]
             H(f) == [i \in Nat |-> IF b[i] = 0 THEN NULL
                                    ELSE IF Same(i) THEN i ELSE f[i + 1]]
             from == CHOOSE f : f = H(f)
  <1>1. \A f : CountsUp(f, Stop, G) <=> f = H(f)
    <2> HIDE DEF Same
    <2>1. QED BY DEF CountsUp
  <1>2. CountsUp(from, Stop, G)
    <2> HIDE DEF Stop, G, H
    <2>1. \E f : f = H(f)
      BY <1>1, UpExists
    <2>2. QED BY <1>1, <2>1
  <1>3. p \in Stop /\ (\A i \in str .. p - 1 : i \notin Stop)
    OBVIOUS
  <1>4. from[str] = G[p]
    <2> HIDE DEF Stop, G, from
    <2>1. QED BY <1>2, <1>3, UpFinds
  <1>5. strstr(b, str, substr) = from[str]
    BY DEF strstr
  <1>6. QED BY <1>4, <1>5

LEMMA StrrchrFound ==
  ASSUME NEW b, NEW s \in Nat, NEW c, NEW e \in Nat,
         strlen(b, s) \in Nat, e = s + strlen(b, s),
         NEW p \in Nat, s <= p, p < e, s > 0,
         b[p] = c \/ p = s,
         \A k \in p + 1 .. e - 1 : b[k] # c
  PROVE  strrchr(b, s, c) = IF b[p] = c THEN p ELSE NULL
  <1> DEFINE Stop == {i \in Nat : i = 0 \/ b[i] = c \/ i = s}
             G == [i \in Nat |-> IF i = 0 THEN Outside ELSE IF b[i] = c THEN i ELSE NULL]
             H(f) == [i \in Nat |-> IF i = 0 THEN Outside
                                    ELSE IF b[i] = c THEN i
                                    ELSE IF i = s THEN NULL ELSE f[i - 1]]
             down == CHOOSE f : f = H(f)
  <1>1. \A f : CountsDown(f, Stop, G) <=> f = H(f)
    BY DEF CountsDown
  <1>2. CountsDown(down, Stop, G)
    <2>1. 0 \in Stop
      OBVIOUS
    <2> HIDE DEF Stop, G, H
    <2>2. \E f : f = H(f)
      BY <1>1, <2>1, DownExists
    <2>3. QED BY <1>1, <2>2
  <1>3. p \in Stop /\ (\A i \in p + 1 .. e - 1 : i \notin Stop) /\ e - 1 \in Nat
    OBVIOUS
  <1>4. down[e - 1] = G[p]
    <2> HIDE DEF Stop, G, down
    <2>1. p <= e - 1
      OBVIOUS
    <2>2. QED BY <1>2, <1>3, <2>1, DownFinds
  <1>5. strrchr(b, s, c) = down[e - 1]
    <2>1. strrchr(b, s, c) = down[s + strlen(b, s) - 1]
      BY DEF strrchr
    <2>2. s + (strlen(b, s) - 1) = e - 1
      OBVIOUS
    <2> HIDE DEF down
    <2>3. QED BY <2>1, <2>2
  <1>6. QED BY <1>4, <1>5

-----------------------------------------------------------------------------
(* What C says.                                                            *)

\* A quotient and a rest determine each other.
LEMMA DivUnique ==
  ASSUME NEW g \in Int, NEW j \in Nat \ {0}, NEW q \in Int, NEW r \in 0 .. j - 1,
         g = j * q + r
  PROVE  g \div j = q /\ g % j = r
  BY Z3T(60)

LEMMA DivInt ==
  ASSUME NEW g \in Int, NEW j \in Nat \ {0}
  PROVE  /\ g \div j \in Int /\ g % j \in 0 .. j - 1
         /\ g = j * (g \div j) + (g % j)
  BY Z3T(60)

\* Signed and unsigned chars are the same bytes.
LEMMA UnsignedIs ==
  ASSUME NEW c \in Int
  PROVE  /\ Unsigned(c) \in 0 .. 255
         /\ Unsigned(ToChar(c)) = Unsigned(c)
         /\ ToChar(c) \in -128 .. 127
         /\ c \in -128 .. 127 => Unsigned(c) = IF c < 0 THEN c + 256 ELSE c
  <1> DEFINE q == c \div 256
             r == c % 256
             p == (c + 128) \div 256
             m == (c + 128) % 256
  <1>1. q \in Int /\ r \in 0 .. 255 /\ c = 256 * q + r
    <2>1. 256 - 1 = 255 /\ 256 \in Nat \ {0}
      OBVIOUS
    <2>2. QED BY <2>1, DivInt
  <1>2. p \in Int /\ m \in 0 .. 255 /\ c + 128 = 256 * p + m
    <2>1. 256 - 1 = 255 /\ 256 \in Nat \ {0} /\ c + 128 \in Int
      OBVIOUS
    <2>2. QED BY <2>1, DivInt
  <1>3. Unsigned(c) = r /\ ToChar(c) = m - 128
    BY DEF Unsigned, ToChar
  <1>4. Unsigned(ToChar(c)) = r
    <2> DEFINE g == m - 128
               n == q - p
    <2>1. g \in Int /\ n \in Int /\ g = 256 * n + r
      <3> HIDE DEF q, r, p, m
      <3>1. QED BY <1>1, <1>2
    <2> HIDE DEF g, n, r
    <2>2. 256 - 1 = 255 /\ 256 \in Nat \ {0}
      OBVIOUS
    <2>3. g % 256 = r
      BY <1>1, <2>1, <2>2, DivUnique
    <2>4. QED BY <1>3, <2>3 DEF g, Unsigned
  <1>5. c \in -128 .. 127 => r = IF c < 0 THEN c + 256 ELSE c
    <2> HIDE DEF q, r
    <2>1. QED BY <1>1
  <1>6. m - 128 \in -128 .. 127
    <2> HIDE DEF m
    <2>1. QED BY <1>2
  <1> HIDE DEF q, r, p, m
  <1>7. QED BY <1>1, <1>3, <1>4, <1>5, <1>6

Chars == -128 .. 127

LEMMA CharsDiffer ==
  ASSUME NEW c \in Chars, NEW d \in Chars
  PROVE  /\ Unsigned(c) \in 0 .. 255 /\ Unsigned(d) \in 0 .. 255
         /\ Unsigned(c) = Unsigned(d) <=> c = d
         /\ Unsigned(c) = 0 <=> c = 0
         /\ (Unsigned(c) < 128) = (Unsigned(d) < 128) =>
              (c < d <=> Unsigned(c) < Unsigned(d))
         /\ c = d => ~(c < d) /\ ~(c > d)
         /\ c # d => c < d \/ c > d
  <1>1. c \in Int /\ d \in Int /\ c \in -128 .. 127 /\ d \in -128 .. 127
    BY DEF Chars
  <1>2. /\ Unsigned(c) = IF c < 0 THEN c + 256 ELSE c
        /\ Unsigned(d) = IF d < 0 THEN d + 256 ELSE d
    BY <1>1, UnsignedIs
  <1>3. QED BY <1>1, <1>2

LEMMA CharsAre ==
  ASSUME NEW b \in Memories
  PROVE  \A a \in Addresses : b[a] \in Chars
  BY StringsAssumption DEF Memories, Chars

\* A block, byte by byte.
LEMMA BlockIs ==
  ASSUME NEW b \in Memories, NEW a \in Addresses, NEW len \in Nat, Fits(a, len)
  PROVE  /\ Block(b, a, len) \in [1 .. len -> 0 .. 255]
         /\ Len(Block(b, a, len)) = len
         /\ \A i \in 0 .. len - 1 : /\ a + i \in Addresses
                                    /\ b[a + i] \in Chars
                                    /\ Block(b, a, len)[i + 1] = Unsigned(b[a + i])
  <1>1. \A i \in 0 .. len - 1 : a + i \in Addresses
    BY StringsAssumption DEF Fits
  <1>2. \A i \in 0 .. len - 1 : b[a + i] \in Chars
    BY <1>1, CharsAre
  <1>3. ASSUME NEW i \in 1 .. len
        PROVE  /\ Block(b, a, len)[i] = Unsigned(b[a + (i - 1)])
               /\ Block(b, a, len)[i] \in 0 .. 255
    <2>1. i - 1 \in 0 .. len - 1 /\ a + i - 1 = a + (i - 1)
      BY StringsAssumption
    <2>2. b[a + (i - 1)] \in Chars
      BY <1>2, <2>1
    <2>3. Unsigned(b[a + (i - 1)]) \in 0 .. 255
      <3> DEFINE c == b[a + (i - 1)]
      <3>1. c \in Int
        BY <2>2 DEF Chars
      <3> HIDE DEF c
      <3>2. Unsigned(c) \in 0 .. 255
        BY <3>1, UnsignedIs
      <3>3. QED BY <3>2 DEF c
    <2>4. Block(b, a, len)[i] = Unsigned(b[a + (i - 1)])
      BY <2>1 DEF Block
    <2>5. QED BY <2>3, <2>4
  <1>4. Block(b, a, len) = [i \in 1 .. len |-> Block(b, a, len)[i]]
    BY DEF Block
  <1>5. Block(b, a, len) \in [1 .. len -> 0 .. 255]
    BY <1>3, <1>4
  <1>6. Len(Block(b, a, len)) = len
    BY <1>5
  <1>7. ASSUME NEW i \in 0 .. len - 1
        PROVE  Block(b, a, len)[i + 1] = Unsigned(b[a + i])
    <2>1. i + 1 \in 1 .. len /\ (i + 1) - 1 = i
      OBVIOUS
    <2>2. QED BY <1>3, <2>1
  <1>8. QED BY <1>1, <1>2, <1>5, <1>6, <1>7

\* A string ends at its first NUL.
LEMMA StringIs ==
  ASSUME NEW b \in Memories, NEW a \in Addresses, IsString(b, a)
  PROVE  /\ EndOf(b, a) \in Addresses /\ EndOf(b, a) >= a /\ b[EndOf(b, a)] = 0
         /\ EndOf(b, a) \in Nat /\ a \in Nat /\ EndOf(b, a) - a \in Nat
         /\ \A k \in a .. EndOf(b, a) - 1 : k \in Addresses /\ b[k] # 0
         /\ strlen(b, a) = EndOf(b, a) - a
         /\ Len(StringAt(b, a)) = EndOf(b, a) - a
         /\ Fits(a, EndOf(b, a) - a) /\ Fits(a, EndOf(b, a) - a + 1)
  <1> DEFINE Ends == {x \in Addresses : x >= a /\ b[x] = 0}
             e == EndOf(b, a)
  <1>1. Ends \subseteq Nat /\ Ends # {}
    BY StringsAssumption DEF IsString
  <1>2. e \in Ends /\ \A x \in Ends : e <= x
    <2>1. e = CHOOSE x \in Ends : \A y \in Ends : x <= y
      BY DEF EndOf, Min
    <2> HIDE DEF Ends, e
    <2>2. \E x \in Ends : \A y \in Ends : x <= y
      BY <1>1, LeastNumber
    <2>3. QED BY <2>1, <2>2
  <1> HIDE DEF e
  <1>3. \A k \in a .. e - 1 : k \in Addresses /\ b[k] # 0
    BY <1>2, StringsAssumption
  <1>4. e \in Nat /\ a \in Nat /\ e \in Addresses /\ e >= a /\ b[e] = 0
    BY <1>2, StringsAssumption
  <1>5. strlen(b, a) = e - a
    BY <1>3, <1>4, LengthFound
  <1>6. Fits(a, e - a) /\ Fits(a, e - a + 1) /\ e - a \in Nat
    BY <1>4, StringsAssumption DEF Fits
  <1>7. Len(StringAt(b, a)) = e - a
    BY <1>6, BlockIs DEF StringAt, e
  <1>8. QED
    BY <1>3, <1>4, <1>5, <1>6, <1>7 DEF e

LEMMA MinIs ==
  ASSUME NEW T, T \subseteq Int, NEW m \in T, \A i \in T : m <= i
  PROVE  Min(T) = m
  <1>1. Min(T) = CHOOSE x \in T : \A y \in T : x <= y
    BY DEF Min
  <1>2. Min(T) \in T /\ \A y \in T : Min(T) <= y
    BY <1>1
  <1> DEFINE x == Min(T)
  <1> HIDE DEF x
  <1>3. x \in Int /\ m \in Int /\ x <= m /\ m <= x
    BY <1>2 DEF x
  <1>4. x = m
    BY <1>3
  <1>5. QED BY <1>4 DEF x

LEMMA MaxIs ==
  ASSUME NEW T, T \subseteq Int, NEW m \in T, \A i \in T : m >= i
  PROVE  Max(T) = m
  <1>1. Max(T) = CHOOSE x \in T : \A y \in T : x >= y
    BY DEF Max
  <1>2. Max(T) \in T /\ \A y \in T : Max(T) >= y
    BY <1>1
  <1> DEFINE x == Max(T)
  <1> HIDE DEF x
  <1>3. x \in Int /\ m \in Int /\ x >= m /\ m >= x
    BY <1>2 DEF x
  <1>4. x = m
    BY <1>3
  <1>5. QED BY <1>4 DEF x

\* What r says of n and of m bytes that first differ, or end, at place i, where
\* they hold x and y.
Verdict(r, n, m, i, x, y) ==
  \/ i > n /\ i > m /\ r = 0
  \/ i > n /\ i <= m /\ r < 0
  \/ i <= n /\ i > m /\ r > 0
  \/ i <= n /\ i <= m /\ x < y /\ r < 0
  \/ i <= n /\ i <= m /\ x > y /\ r > 0

\* Bytes are ordered by the first place where they differ.
LEMMA OrderedAt ==
  ASSUME NEW r \in Int, NEW n \in Nat, NEW m \in Nat,
         NEW s \in [1 .. n -> 0 .. 255], NEW t \in [1 .. m -> 0 .. 255],
         NEW i \in 1 .. n + 1, i <= m + 1, NEW x \in Int, NEW y \in Int,
         i <= n => x = s[i], i <= m => y = t[i], \A j \in 1 .. i - 1 : s[j] = t[j],
         Verdict(r, n, m, i, x, y)
  PROVE  Ordered(r, s, t)
  <1> DEFINE differing == {j \in 1 .. n : j > m \/ s[j] # t[j]}
  <1>1. Len(s) = n /\ Len(t) = m
    OBVIOUS
  <1>2. Ordered(r, s, t) <=>
          IF s = t THEN r = 0
          ELSE IF differing = {} THEN r < 0
          ELSE IF Min(differing) > m THEN r > 0
          ELSE IF s[Min(differing)] < t[Min(differing)] THEN r < 0 ELSE r > 0
    BY <1>1 DEF Ordered
  <1>3. CASE i > n /\ i > m
    <2>1. n = m /\ \A j \in 1 .. n : s[j] = t[j]
      BY <1>3
    <2>2. s = t
      BY <2>1
    <2>3. QED BY <1>2, <1>3, <2>2 DEF Verdict
  <1>4. CASE i > n /\ i <= m
    <2>1. n # m /\ differing = {}
      BY <1>4
    <2>2. s # t
      BY <1>1, <2>1
    <2>3. QED BY <1>2, <1>4, <2>1, <2>2 DEF Verdict
  <1>5. CASE i <= n
    <2>1. i > m \/ x # y
      BY <1>5 DEF Verdict
    <2>2. i \in differing /\ (\A j \in differing : i <= j)
      BY <1>5, <2>1
    <2>3. s # t
      <3>1. CASE i > m
        <4>1. n # m
          BY <1>5, <3>1
        <4>2. QED BY <1>1, <4>1
      <3>2. CASE i <= m /\ x # y
        BY <1>5, <3>2
      <3>3. QED BY <2>1, <3>1, <3>2
    <2>4. Min(differing) = i
      <3>1. differing \subseteq Int
        OBVIOUS
      <3> HIDE DEF differing
      <3>2. QED BY <2>2, <3>1, MinIs
    <2>5. differing # {}
      BY <2>2
    <2>6. Ordered(r, s, t) <=> IF i > m THEN r > 0 ELSE IF x < y THEN r < 0 ELSE r > 0
      <3> DEFINE d == Min(differing)
      <3>1. Ordered(r, s, t) <=>
              IF d > m THEN r > 0 ELSE IF s[d] < t[d] THEN r < 0 ELSE r > 0
        <4> HIDE DEF differing
        <4>1. QED BY <1>2, <2>3, <2>5
      <3>2. d = i
        BY <2>4
      <3> HIDE DEF d
      <3>3. CASE i > m
        BY <3>1, <3>2, <3>3
      <3>4. CASE ~(i > m)
        <4>1. s[i] = x /\ t[i] = y
          BY <1>5, <3>4
        <4>2. QED BY <3>1, <3>2, <3>4, <4>1
      <3>5. QED BY <3>3, <3>4
    <2>7. QED BY <1>5, <2>6 DEF Verdict
  <1>6. QED BY <1>3, <1>4, <1>5

\* memcmp orders blocks whose first differing chars have the same sign.
LEMMA MemcmpOrders ==
  ASSUME NEW b \in Memories, NEW v1 \in Addresses, NEW v2 \in Addresses,
         NEW len \in Nat, Fits(v1, len), Fits(v2, len)
  PROVE  LET s == Block(b, v1, len)  t == Block(b, v2, len)
             i == FirstOf({j \in 1 .. len : s[j] # t[j]})
         IN /\ memcmp(b, v1, v2, len) = 0 <=> s = t
            /\ i = 0 \/ (s[i] < 128) = (t[i] < 128)
                 => Ordered(memcmp(b, v1, v2, len), s, t)
  <1> DEFINE s == Block(b, v1, len)
             t == Block(b, v2, len)
             D == {j \in 1 .. len : s[j] # t[j]}
             r == memcmp(b, v1, v2, len)
             c(i) == b[v1 + i]
             d(i) == b[v2 + i]
  <1>1. /\ s \in [1 .. len -> 0 .. 255] /\ t \in [1 .. len -> 0 .. 255]
        /\ \A i \in 0 .. len - 1 : /\ c(i) \in Chars /\ d(i) \in Chars
                                   /\ s[i + 1] = Unsigned(c(i))
                                   /\ t[i + 1] = Unsigned(d(i))
    <2>1. /\ s \in [1 .. len -> 0 .. 255]
          /\ \A i \in 0 .. len - 1 : c(i) \in Chars /\ s[i + 1] = Unsigned(c(i))
      BY ONLY b \in Memories, v1 \in Addresses, len \in Nat, Fits(v1, len), BlockIs
    <2>2. /\ t \in [1 .. len -> 0 .. 255]
          /\ \A i \in 0 .. len - 1 : d(i) \in Chars /\ t[i + 1] = Unsigned(d(i))
      BY ONLY b \in Memories, v2 \in Addresses, len \in Nat, Fits(v2, len), BlockIs
    <2>3. QED BY <2>1, <2>2
  <1>2. \A k \in 0 .. len :
          /\ \A i \in 0 .. k - 1 : ~(c(i) < d(i)) /\ ~(c(i) > d(i))
          /\ k = len \/ c(k) < d(k) \/ c(k) > d(k)
          => r = IF k = len THEN 0 ELSE IF c(k) < d(k) THEN -1 ELSE 1
    <2> SUFFICES ASSUME NEW k \in 0 .. len,
                        \A i \in 0 .. k - 1 : ~(c(i) < d(i)) /\ ~(c(i) > d(i)),
                        k = len \/ c(k) < d(k) \/ c(k) > d(k)
                 PROVE  r = IF k = len THEN 0 ELSE IF c(k) < d(k) THEN -1 ELSE 1
      OBVIOUS
    <2>1. v1 \in Nat /\ v2 \in Nat
      BY StringsAssumption
    <2>2. QED BY <2>1, MemcmpFound
  <1> HIDE DEF s, t, c, d, r
  <1>3. ASSUME NEW i \in 0 .. len - 1
        PROVE  /\ s[i + 1] \in 0 .. 255 /\ t[i + 1] \in 0 .. 255
               /\ s[i + 1] = t[i + 1] => ~(c(i) < d(i)) /\ ~(c(i) > d(i))
               /\ s[i + 1] # t[i + 1] => c(i) < d(i) \/ c(i) > d(i)
               /\ (s[i + 1] < 128) = (t[i + 1] < 128) =>
                    (c(i) < d(i) <=> s[i + 1] < t[i + 1])
    <2>1. c(i) \in Chars /\ d(i) \in Chars
      BY <1>1
    <2>2. s[i + 1] = Unsigned(c(i)) /\ t[i + 1] = Unsigned(d(i))
      BY <1>1
    <2> DEFINE x == c(i)
               y == d(i)
    <2>3. x \in Chars /\ y \in Chars
      BY <2>1
    <2> HIDE DEF x, y
    <2>4. /\ Unsigned(x) \in 0 .. 255 /\ Unsigned(y) \in 0 .. 255
          /\ Unsigned(x) = Unsigned(y) <=> x = y
          /\ (Unsigned(x) < 128) = (Unsigned(y) < 128) =>
               (x < y <=> Unsigned(x) < Unsigned(y))
          /\ x = y => ~(x < y) /\ ~(x > y)
          /\ x # y => x < y \/ x > y
      BY <2>3, CharsDiffer
    <2>5. QED BY <2>2, <2>4 DEF x, y
  <1>4. CASE D = {}
    <2>1. \A i \in 0 .. len - 1 : ~(c(i) < d(i)) /\ ~(c(i) > d(i))
      <3>1. \A i \in 0 .. len - 1 : i + 1 \in 1 .. len
        OBVIOUS
      <3>2. \A i \in 0 .. len - 1 : s[i + 1] = t[i + 1]
        BY <1>4, <3>1
      <3>3. QED BY <1>3, <3>2
    <2>2. r = 0
      <3>1. len \in 0 .. len
        OBVIOUS
      <3>2. QED BY <1>2, <2>1, <3>1
    <2>3. s = t
      BY <1>1, <1>4
    <2>4. Ordered(r, s, t)
      BY <2>2, <2>3 DEF Ordered
    <2>5. QED BY <2>2, <2>3, <2>4 DEF r, s, t
  <1>5. CASE D # {}
    <2>1. PICK i \in D : \A j \in D : i <= j
      <3>1. D \subseteq Nat
        OBVIOUS
      <3> HIDE DEF D
      <3>2. QED BY <1>5, <3>1, LeastNumber
    <2>2. FirstOf(D) = i
      <3>1. D \subseteq Int
        OBVIOUS
      <3> HIDE DEF D
      <3>2. QED BY <1>5, <2>1, <3>1, MinIs DEF FirstOf
    <2>3. i \in 1 .. len /\ s[i] # t[i]
      BY <2>1
    <2>4. \A j \in 1 .. i - 1 : s[j] = t[j]
      <3> SUFFICES ASSUME NEW j \in 1 .. i - 1 PROVE s[j] = t[j]
        OBVIOUS
      <3>1. j \in 1 .. len /\ ~(i <= j)
        BY <2>3
      <3>2. j \notin D
        BY <2>1, <3>1
      <3>3. QED BY <3>1, <3>2
    <2> DEFINE k == i - 1
    <2>5. k \in 0 .. len - 1 /\ k \in 0 .. len /\ k # len /\ k + 1 = i
      BY <2>3
    <2> HIDE DEF k
    <2>6. \A j \in 0 .. k - 1 : ~(c(j) < d(j)) /\ ~(c(j) > d(j))
      <3> SUFFICES ASSUME NEW j \in 0 .. k - 1
                   PROVE  ~(c(j) < d(j)) /\ ~(c(j) > d(j))
        OBVIOUS
      <3>1. j \in 0 .. len - 1 /\ j + 1 \in 1 .. i - 1
        BY <2>3, <2>5
      <3>2. s[j + 1] = t[j + 1]
        BY <2>4, <3>1
      <3>3. QED BY <1>3, <3>1, <3>2
    <2>7. c(k) < d(k) \/ c(k) > d(k)
      BY <1>3, <2>3, <2>5
    <2>8. r = IF c(k) < d(k) THEN -1 ELSE 1
      BY <1>2, <2>5, <2>6, <2>7
    <2>9. ASSUME (s[i] < 128) = (t[i] < 128) PROVE Ordered(r, s, t)
      <3> DEFINE x == s[i]
                 y == t[i]
      <3>1. x \in Int /\ y \in Int /\ x # y
        <4>1. s[k + 1] \in 0 .. 255 /\ t[k + 1] \in 0 .. 255
          BY <1>3, <2>5
        <4>2. x \in 0 .. 255 /\ y \in 0 .. 255 /\ x # y
          BY <2>3, <2>5, <4>1
        <4> HIDE DEF x, y
        <4>3. QED BY <4>2
      <3>2. r = IF x < y THEN -1 ELSE 1
        BY <1>3, <2>5, <2>8, <2>9
      <3>3. /\ i \in 1 .. len + 1 /\ i <= len + 1 /\ i <= len
            /\ x = s[i] /\ y = t[i]
        BY <2>3
      <3> HIDE DEF x, y, k
      <3>4. r \in Int /\ Verdict(r, len, len, i, x, y)
        BY <3>1, <3>2, <3>3 DEF Verdict
      <3>5. i <= len => x = s[i] /\ y = t[i]
        BY <3>3
      <3>6. QED
        <4> HIDE DEF D
        <4>1. QED BY <1>1, <2>4, <3>1, <3>3, <3>4, <3>5, OrderedAt
    <2>10. i # 0
      BY <2>3
    <2>11. r # 0 /\ s # t
      BY <2>3, <2>8
    <2> HIDE DEF D
    <2>12. QED BY <2>2, <2>9, <2>11 DEF D, r, s, t
  <1>6. QED BY <1>4, <1>5

\* A string of n chars.
OfLength(b, s, n) ==
  /\ \A i \in 0 .. n : s + i \in Addresses /\ b[s + i] \in Chars
  /\ \A i \in 0 .. n - 1 : b[s + i] # 0
  /\ b[s + n] = 0

LEMMA LengthIs ==
  ASSUME NEW b \in Memories, NEW s \in Addresses, IsString(b, s),
         NEW n \in Nat, n = EndOf(b, s) - s
  PROVE  OfLength(b, s, n) /\ s + n = EndOf(b, s) /\ s \in Nat
  <1> DEFINE e == EndOf(b, s)
  <1>1. /\ e \in Addresses /\ e \in Nat /\ s \in Nat /\ e >= s /\ b[e] = 0
        /\ \A k \in s .. e - 1 : b[k] # 0
    BY StringIs
  <1> HIDE DEF e
  <1>2. n = e - s
    BY DEF e
  <1>3. s + n = e
    BY <1>1, <1>2
  <1>4. \A i \in 0 .. n : s + i \in Addresses
    BY <1>1, <1>2, StringsAssumption
  <1>5. \A i \in 0 .. n - 1 : b[s + i] # 0
    BY <1>1, <1>2
  <1>6. b[s + n] = 0
    BY <1>1, <1>3
  <1>7. QED
    BY <1>1, <1>3, <1>4, <1>5, <1>6, CharsAre DEF OfLength, e

LEMMA HeadFits ==
  ASSUME NEW b, NEW s \in Addresses, NEW n \in Nat, OfLength(b, s, n),
         NEW m \in Nat, m <= n
  PROVE  Fits(s, m)
  <1>1. s + n \in Addresses
    BY DEF OfLength
  <1>2. QED BY <1>1, StringsAssumption DEF Fits

\* Two strings first differ, or end, or come to n, no later than either ends.
LEMMA DiffersAt ==
  ASSUME NEW b, NEW s1, NEW s2, NEW n \in Nat,
         NEW n1 \in Nat, OfLength(b, s1, n1), NEW n2 \in Nat, OfLength(b, s2, n2)
  PROVE  \E k \in 0 .. n : /\ \A i \in 0 .. k - 1 : ~Differ(b, s1, s2, i)
                           /\ k = n \/ Differ(b, s1, s2, k)
                           /\ k <= n1 /\ k <= n2
  <1> DEFINE T == {i \in Nat : i = n \/ Differ(b, s1, s2, i)}
  <1>1. Differ(b, s1, s2, n1)
    BY DEF Differ, OfLength
  <1>2. Differ(b, s1, s2, n2)
    BY DEF Differ, OfLength
  <1>3. T \subseteq Nat /\ n \in T /\ n1 \in T /\ n2 \in T
    BY <1>1, <1>2
  <1>4. PICK k \in T : \A i \in T : k <= i
    <2> HIDE DEF T
    <2>1. QED BY <1>3, LeastNumber
  <1>5. k \in Nat /\ k <= n /\ k <= n1 /\ k <= n2
    BY <1>3, <1>4
  <1>6. \A i \in 0 .. k - 1 : ~Differ(b, s1, s2, i)
    <2> SUFFICES ASSUME NEW i \in 0 .. k - 1 PROVE ~Differ(b, s1, s2, i)
      OBVIOUS
    <2>1. i \in Nat /\ ~(k <= i)
      BY <1>5
    <2>2. i \notin T
      BY <1>4, <2>1
    <2>3. QED BY <2>1, <2>2
  <1>7. k = n \/ Differ(b, s1, s2, k)
    BY <1>4
  <1>8. QED BY <1>5, <1>6, <1>7

\* What that tells of their bytes, as many of them as n.
LEMMA StringsOrdered ==
  ASSUME NEW b \in Memories, NEW s1 \in Addresses, NEW s2 \in Addresses,
         NEW n \in Nat, NEW k \in 0 .. n,
         \A i \in 0 .. k - 1 : ~Differ(b, s1, s2, i),
         k = n \/ Differ(b, s1, s2, k),
         NEW n1 \in Nat, OfLength(b, s1, n1), k <= n1,
         NEW n2 \in Nat, OfLength(b, s2, n2), k <= n2,
         NEW m1 \in Nat, m1 = IF n1 <= n THEN n1 ELSE n,
         NEW m2 \in Nat, m2 = IF n2 <= n THEN n2 ELSE n
  PROVE  Ordered(IF k = n THEN 0 ELSE CharDifference(b, s1, s2, k),
                 Block(b, s1, m1), Block(b, s2, m2))
  <1> DEFINE s == Block(b, s1, m1)
             t == Block(b, s2, m2)
             c(i) == b[s1 + i]
             d(i) == b[s2 + i]
             r == IF k = n THEN 0 ELSE CharDifference(b, s1, s2, k)
  <1>1. m1 <= n1 /\ m2 <= n2 /\ Fits(s1, m1) /\ Fits(s2, m2)
    <2>1. m1 <= n1 /\ m2 <= n2
      OBVIOUS
    <2>2. QED BY <2>1, HeadFits
  <1>2. /\ s \in [1 .. m1 -> 0 .. 255] /\ t \in [1 .. m2 -> 0 .. 255]
        /\ \A i \in 0 .. m1 - 1 : s[i + 1] = Unsigned(c(i))
        /\ \A i \in 0 .. m2 - 1 : t[i + 1] = Unsigned(d(i))
    <2>1. s \in [1 .. m1 -> 0 .. 255] /\ \A i \in 0 .. m1 - 1 : s[i + 1] = Unsigned(c(i))
      BY ONLY <1>1, b \in Memories, s1 \in Addresses, m1 \in Nat, BlockIs
    <2>2. t \in [1 .. m2 -> 0 .. 255] /\ \A i \in 0 .. m2 - 1 : t[i + 1] = Unsigned(d(i))
      BY ONLY <1>1, b \in Memories, s2 \in Addresses, m2 \in Nat, BlockIs
    <2>3. QED BY <2>1, <2>2
  <1>3. /\ \A i \in 0 .. n1 : c(i) \in Chars
        /\ \A i \in 0 .. n2 : d(i) \in Chars
    BY DEF OfLength
  <1>4. /\ \A i \in 0 .. n1 - 1 : c(i) # 0
        /\ \A i \in 0 .. n2 - 1 : d(i) # 0
        /\ c(n1) = 0 /\ d(n2) = 0
    BY DEF OfLength
  <1>5. /\ \A i \in 0 .. k - 1 : c(i) = d(i)
        /\ k # n => c(k) = 0 \/ c(k) # d(k)
        /\ r = IF k = n THEN 0 ELSE Unsigned(c(k)) - Unsigned(d(k))
    BY DEF Differ, CharDifference
  <1> DEFINE x == Unsigned(c(k))
             y == Unsigned(d(k))
             i == k + 1
  <1> HIDE DEF s, t, c, d, r
  <1>6. /\ x \in Int /\ y \in Int /\ x >= 0 /\ y >= 0
        /\ k # n => c(k) = 0 \/ x # y
        /\ k < n1 => x # 0
        /\ k < n2 => y # 0
        /\ c(k) = 0 => x = 0
        /\ k = n2 => y = 0
    <2>1. c(k) \in Chars /\ d(k) \in Chars
      BY <1>3
    <2>2. (k < n1 => c(k) # 0) /\ (k < n2 => d(k) # 0) /\ (k = n2 => d(k) = 0)
      BY <1>4
    <2> DEFINE u == c(k)
               v == d(k)
    <2>3. u \in Chars /\ v \in Chars
      BY <2>1
    <2> HIDE DEF u, v
    <2>4. /\ Unsigned(u) \in 0 .. 255 /\ Unsigned(v) \in 0 .. 255
          /\ Unsigned(u) = Unsigned(v) <=> u = v
          /\ Unsigned(u) = 0 <=> u = 0
      BY <2>3, CharsDiffer
    <2>5. Unsigned(v) = 0 <=> v = 0
      BY <2>3, CharsDiffer
    <2>6. Unsigned(u) \in Int /\ Unsigned(v) \in Int /\ Unsigned(u) >= 0 /\ Unsigned(v) >= 0
      BY <2>4
    <2>7. QED
      BY <1>5, <2>2, <2>4, <2>5, <2>6 DEF u, v
  <1>7. r = IF k = n THEN 0 ELSE x - y
    BY <1>5
  <1>8. k = n1 => x = 0
    BY <1>4, <1>6
  <1>9. (i <= m1 => x = s[i]) /\ (i <= m2 => y = t[i])
    BY <1>2
  <1> HIDE DEF x, y
  <1>10. k < n1 /\ k # n => c(k) # 0
    BY <1>4
  <1>11. r \in Int /\ Verdict(r, m1, m2, i, x, y)
    <2>1. CASE k = n
      BY <1>7, <2>1 DEF Verdict
    <2>2. CASE k # n /\ k = n1 /\ k = n2
      BY <1>6, <1>7, <1>8, <2>2 DEF Verdict
    <2>3. CASE k # n /\ k = n1 /\ k < n2
      BY <1>6, <1>7, <1>8, <2>3 DEF Verdict
    <2>4. CASE k # n /\ k < n1 /\ k = n2
      BY <1>6, <1>7, <2>4 DEF Verdict
    <2>5. CASE k # n /\ k < n1 /\ k < n2
      BY <1>6, <1>7, <1>10, <2>5 DEF Verdict
    <2>6. QED BY <2>1, <2>2, <2>3, <2>4, <2>5
  <1>12. \A j \in 1 .. i - 1 : s[j] = t[j]
    <2> SUFFICES ASSUME NEW j \in 1 .. i - 1 PROVE s[j] = t[j]
      OBVIOUS
    <2> DEFINE h == j - 1
    <2>1. h \in 0 .. k - 1 /\ h \in 0 .. m1 - 1 /\ h \in 0 .. m2 - 1 /\ h + 1 = j
      OBVIOUS
    <2> HIDE DEF h
    <2>2. s[h + 1] = t[h + 1]
      BY <1>2, <1>5, <2>1
    <2>3. QED BY <2>1, <2>2
  <1>13. i \in 1 .. m1 + 1 /\ i <= m2 + 1
    OBVIOUS
  <1> HIDE DEF i
  <1>14. Ordered(r, s, t)
    <2>1. s \in [1 .. m1 -> 0 .. 255] /\ t \in [1 .. m2 -> 0 .. 255]
      BY <1>2
    <2>2. x \in Int /\ y \in Int
      BY <1>6
    <2>3. QED
      BY ONLY <2>1, <2>2, m1 \in Nat, m2 \in Nat, <1>9, <1>11, <1>12, <1>13, OrderedAt
  <1>15. QED BY <1>14 DEF r, s, t

LEMMA StrcmpOrders ==
  ASSUME NEW b \in Memories, NEW s1 \in Addresses, NEW s2 \in Addresses,
         IsString(b, s1), IsString(b, s2)
  PROVE  Ordered(strcmp(b, s1, s2), StringAt(b, s1), StringAt(b, s2))
  <1> DEFINE n1 == EndOf(b, s1) - s1
             n2 == EndOf(b, s2) - s2
             n == n1 + n2 + 1
  <1>1. n1 \in Nat /\ n2 \in Nat
    BY StringIs
  <1>2. OfLength(b, s1, n1) /\ OfLength(b, s2, n2)
    BY <1>1, LengthIs
  <1>3. PICK k \in 0 .. n : /\ \A i \in 0 .. k - 1 : ~Differ(b, s1, s2, i)
                            /\ k = n \/ Differ(b, s1, s2, k)
                            /\ k <= n1 /\ k <= n2
    <2>1. n \in Nat
      BY <1>1
    <2> HIDE DEF n, n1, n2
    <2>2. QED BY <1>1, <1>2, <2>1, DiffersAt
  <1>4. StringAt(b, s1) = Block(b, s1, n1) /\ StringAt(b, s2) = Block(b, s2, n2)
    BY DEF StringAt
  <1> HIDE DEF n1, n2
  <1>5. /\ n \in Nat /\ k \in Nat /\ k # n
        /\ n1 = (IF n1 <= n THEN n1 ELSE n) /\ n2 = (IF n2 <= n THEN n2 ELSE n)
    BY <1>1, <1>3
  <1> HIDE DEF n
  <1>6. strcmp(b, s1, s2) = CharDifference(b, s1, s2, k)
    BY <1>3, <1>5, StrcmpFound
  <1>7. Ordered(IF k = n THEN 0 ELSE CharDifference(b, s1, s2, k),
                Block(b, s1, n1), Block(b, s2, n2))
    BY <1>1, <1>2, <1>3, <1>5, StringsOrdered
  <1>8. QED BY <1>4, <1>5, <1>6, <1>7

LEMMA StrncmpFollows ==
  ASSUME NEW b \in Memories, NEW s1 \in Addresses, NEW s2 \in Addresses,
         IsString(b, s1), IsString(b, s2), NEW n \in Nat,
         NEW n1 \in Nat, n1 = EndOf(b, s1) - s1,
         NEW n2 \in Nat, n2 = EndOf(b, s2) - s2,
         NEW m1 \in Nat, m1 = IF n1 <= n THEN n1 ELSE n,
         NEW m2 \in Nat, m2 = IF n2 <= n THEN n2 ELSE n
  PROVE  Ordered(strncmp(b, s1, s2, n), Block(b, s1, m1), Block(b, s2, m2))
  <1>1. OfLength(b, s1, n1) /\ OfLength(b, s2, n2)
    BY LengthIs
  <1>2. PICK k \in 0 .. n : /\ \A i \in 0 .. k - 1 : ~Differ(b, s1, s2, i)
                            /\ k = n \/ Differ(b, s1, s2, k)
                            /\ k <= n1 /\ k <= n2
    BY ONLY <1>1, n \in Nat, n1 \in Nat, n2 \in Nat, DiffersAt
  <1>3. strncmp(b, s1, s2, n) = IF k = n THEN 0 ELSE CharDifference(b, s1, s2, k)
    BY <1>2, StrncmpFound
  <1>4. Ordered(IF k = n THEN 0 ELSE CharDifference(b, s1, s2, k),
                Block(b, s1, m1), Block(b, s2, m2))
    BY <1>1, <1>2, StringsOrdered
  <1>5. QED BY <1>3, <1>4

\* The first of the bytes of a string.
Lesser(m, n, z) == m = IF n <= z THEN n ELSE z

LEMMA HeadIs ==
  ASSUME NEW b \in Memories, NEW s \in Addresses, IsString(b, s), NEW z \in Nat,
         NEW n \in Nat, n = EndOf(b, s) - s,
         NEW m \in Nat, Lesser(m, n, z)
  PROVE  SubSeq(StringAt(b, s), 1, Min({Len(StringAt(b, s)), z})) = Block(b, s, m)
  <1> DEFINE t == StringAt(b, s)
             u == Block(b, s, m)
  <1>1. OfLength(b, s, n) /\ m <= n
    BY LengthIs DEF Lesser
  <1>2. Fits(s, n) /\ Fits(s, m)
    BY <1>1, HeadFits
  <1>3. t = Block(b, s, n)
    BY DEF StringAt
  <1>4. t \in [1 .. n -> 0 .. 255] /\ Len(t) = n
    <2>1. /\ Block(b, s, n) \in [1 .. n -> 0 .. 255]
          /\ Len(Block(b, s, n)) = n
      BY ONLY <1>2, b \in Memories, s \in Addresses, n \in Nat, BlockIs
    <2> HIDE DEF t
    <2>2. QED BY <1>3, <2>1
  <1>5. u \in [1 .. m -> 0 .. 255] /\ Len(u) = m
    BY ONLY <1>2, b \in Memories, s \in Addresses, m \in Nat, BlockIs
  <1>6. \A i \in 1 .. m : u[i] = t[i]
    BY <1>1, <1>3 DEF Block
  <1> HIDE DEF t, u
  <1>7. Min({n, z}) = m
    <2>1. {n, z} \subseteq Int /\ m \in {n, z} /\ \A i \in {n, z} : m <= i
      BY DEF Lesser
    <2>2. QED BY ONLY <2>1, MinIs
  <1>8. t \in Seq(0 .. 255) /\ u \in Seq(0 .. 255)
    BY ONLY <1>4, <1>5, n \in Nat, m \in Nat, SeqDef
  <1>9. SubSeq(t, 1, m) = [i \in 1 .. m |-> t[i]]
    BY <1>1, <1>4, <1>8
  <1>10. [i \in 1 .. m |-> t[i]] = u
    BY <1>5, <1>6
  <1>11. QED BY <1>4, <1>7, <1>9, <1>10 DEF t, u

LEMMA StrncmpOrders ==
  ASSUME NEW b \in Memories, NEW s1 \in Addresses, NEW s2 \in Addresses,
         IsString(b, s1), IsString(b, s2), NEW z \in Nat
  PROVE  Ordered(strncmp(b, s1, s2, z),
                 SubSeq(StringAt(b, s1), 1, Min({Len(StringAt(b, s1)), z})),
                 SubSeq(StringAt(b, s2), 1, Min({Len(StringAt(b, s2)), z})))
  <1> DEFINE n1 == EndOf(b, s1) - s1
             n2 == EndOf(b, s2) - s2
             m1 == IF n1 <= z THEN n1 ELSE z
             m2 == IF n2 <= z THEN n2 ELSE z
  <1>1. n1 \in Nat /\ n2 \in Nat
    BY StringIs
  <1>2. m1 \in Nat /\ m2 \in Nat
    <2> HIDE DEF n1, n2
    <2>1. QED BY <1>1
  <1> DEFINE t1 == SubSeq(StringAt(b, s1), 1, Min({Len(StringAt(b, s1)), z}))
             t2 == SubSeq(StringAt(b, s2), 1, Min({Len(StringAt(b, s2)), z}))
  <1>3. t1 = Block(b, s1, m1)
    <2>1. n1 = EndOf(b, s1) - s1 /\ Lesser(m1, n1, z)
      BY DEF Lesser
    <2>2. n1 \in Nat /\ m1 \in Nat
      BY <1>1, <1>2
    <2> HIDE DEF n1, m1
    <2>3. SubSeq(StringAt(b, s1), 1, Min({Len(StringAt(b, s1)), z})) = Block(b, s1, m1)
      BY ONLY <2>1, <2>2, b \in Memories, s1 \in Addresses, IsString(b, s1), z \in Nat,
              HeadIs
    <2>4. QED BY <2>3
  <1>4. t2 = Block(b, s2, m2)
    <2>1. n2 = EndOf(b, s2) - s2 /\ Lesser(m2, n2, z)
      BY DEF Lesser
    <2>2. n2 \in Nat /\ m2 \in Nat
      BY <1>1, <1>2
    <2> HIDE DEF n2, m2
    <2>3. SubSeq(StringAt(b, s2), 1, Min({Len(StringAt(b, s2)), z})) = Block(b, s2, m2)
      BY ONLY <2>1, <2>2, b \in Memories, s2 \in Addresses, IsString(b, s2), z \in Nat,
              HeadIs
    <2>4. QED BY <2>3
  <1>5. Ordered(strncmp(b, s1, s2, z), Block(b, s1, m1), Block(b, s2, m2))
    BY <1>1, <1>2, StrncmpFollows
  <1> HIDE DEF n1, n2, m1, m2, t1, t2
  <1>6. Ordered(strncmp(b, s1, s2, z), t1, t2)
    BY <1>3, <1>4, <1>5
  <1>7. QED BY <1>6 DEF t1, t2

\* A string starts with the bytes of another when strncmp finds no difference.
LEMMA EndIs ==
  ASSUME NEW b \in Memories, NEW s \in Addresses, NEW n \in Nat, OfLength(b, s, n)
  PROVE  IsString(b, s) /\ EndOf(b, s) = s + n
  <1> DEFINE Ends == {e \in Addresses : e >= s /\ b[e] = 0}
             e == s + n
  <1>1. e \in Ends /\ s \in Nat
    BY StringsAssumption DEF OfLength
  <1>2. ASSUME NEW d \in Ends PROVE e <= d
    <2> SUFFICES ASSUME d < e PROVE FALSE
      BY <1>1, StringsAssumption
    <2> DEFINE i == d - s
    <2>1. i \in 0 .. n - 1 /\ s + i = d
      BY <1>1, StringsAssumption
    <2> HIDE DEF i
    <2>2. QED BY <2>1 DEF OfLength
  <1>3. Ends \subseteq Int
    BY StringsAssumption
  <1>4. EndOf(b, s) = Min(Ends)
    BY DEF EndOf
  <1>5. IsString(b, s)
    BY <1>1 DEF IsString
  <1> HIDE DEF Ends, e
  <1>6. EndOf(b, s) = e
    BY <1>1, <1>2, <1>3, <1>4, MinIs
  <1>7. QED BY <1>5, <1>6 DEF e

LEMMA PrefixFound ==
  ASSUME NEW b \in Memories, NEW p \in Addresses, NEW s \in Addresses,
         NEW n \in Nat, OfLength(b, p, n), NEW m \in Nat, OfLength(b, s, m)
  PROVE  strncmp(b, p, s, m) = 0 <=> m <= n /\ Block(b, p, m) = Block(b, s, m)
  <1> DEFINE l == IF n <= m THEN n ELSE m
             r == strncmp(b, p, s, m)
             t == Block(b, p, l)
             u == Block(b, s, m)
  <1>1. l \in Nat /\ l <= n
    OBVIOUS
  <1>2. /\ IsString(b, p) /\ n = EndOf(b, p) - p
        /\ IsString(b, s) /\ m = EndOf(b, s) - s
    <2>1. p \in Nat /\ s \in Nat
      BY StringsAssumption
    <2>2. QED BY <2>1, EndIs
  <1>3. m = IF m <= m THEN m ELSE m
    OBVIOUS
  <1>4. Ordered(r, t, u)
    <2> DEFINE k == l
    <2>1. k \in Nat /\ k = (IF n <= m THEN n ELSE m)
      BY <1>1
    <2> HIDE DEF l, k, r
    <2>2. Ordered(strncmp(b, p, s, m), Block(b, p, k), Block(b, s, m))
      BY <1>2, <1>3, <2>1, StrncmpFollows
    <2>3. QED BY <2>2 DEF k, r
  <1>5. r = 0 <=> t = u
    <2> HIDE DEF r, t, u
    <2>1. QED BY <1>4 DEF Ordered
  <1>6. Len(t) = l
    <2>1. Fits(p, l)
      BY <1>1, HeadFits
    <2> HIDE DEF l
    <2>2. QED BY <1>1, <2>1, BlockIs
  <1>7. Len(u) = m
    <2>1. Fits(s, m)
      BY HeadFits
    <2>2. QED BY <2>1, BlockIs
  <1>8. t = u => m <= n
    <2> HIDE DEF t, u
    <2>1. QED BY <1>6, <1>7
  <1>9. m <= n => l = m
    OBVIOUS
  <1> HIDE DEF l, r, u
  <1>10. QED BY <1>5, <1>8, <1>9 DEF u, r

LEMMA GreatestNumber ==
  ASSUME NEW T, T \subseteq Nat, T # {}, NEW n \in Nat, \A k \in T : k <= n
  PROVE  \E m \in T : \A k \in T : k <= m
  <1> DEFINE Below == {n - k : k \in T}
  <1>1. Below \subseteq Nat /\ Below # {}
    <2>1. \A k \in T : k \in Nat /\ k <= n
      OBVIOUS
    <2>2. \A k \in T : n - k \in Nat
      BY <2>1
    <2>3. QED BY <2>2
  <1>2. PICK d \in Below : \A k \in Below : d <= k
    <2> HIDE DEF Below
    <2>1. QED BY <1>1, LeastNumber
  <1>3. PICK m \in T : d = n - m
    BY <1>2
  <1>4. \A k \in T : n - m <= n - k
    BY <1>2, <1>3
  <1>5. m \in Nat /\ \A k \in T : k \in Nat /\ k <= m
    BY <1>4
  <1>6. QED BY <1>5

\* Searches look for a char of the block.
LEMMA HoldingIs ==
  ASSUME NEW b \in Memories, NEW x \in Addresses, NEW len \in Nat, Fits(x, len),
         NEW y \in Int, y = ToChar(y)
  PROVE  Holding(b, y, x, len) = {p \in x .. x + len - 1 : b[p] = y}
  <1>1. y \in Chars
    BY UnsignedIs DEF Chars
  <1>2. \A p \in x .. x + len - 1 : b[p] \in Chars
    <2>1. \A p \in x .. x + len - 1 : p \in Addresses
      BY StringsAssumption DEF Fits
    <2>2. QED BY <2>1, CharsAre
  <1>3. \A p \in x .. x + len - 1 : Unsigned(b[p]) = Unsigned(y) <=> b[p] = y
    BY <1>1, <1>2, CharsDiffer
  <1>4. QED BY <1>3 DEF Holding

LEMMA FirstIs ==
  ASSUME NEW T, T \subseteq Nat, NEW p \in T, \A q \in T : p <= q
  PROVE  FirstOf(T) = p
  <1>1. T \subseteq Int /\ T # {}
    OBVIOUS
  <1>2. QED BY <1>1, MinIs DEF FirstOf

LEMMA LastIs ==
  ASSUME NEW T, T \subseteq Nat, NEW p \in T, \A q \in T : p >= q
  PROVE  LastOf(T) = p
  <1>1. T \subseteq Int /\ T # {}
    OBVIOUS
  <1>2. QED BY <1>1, MaxIs DEF LastOf

LEMMA StrchrFinds ==
  ASSUME NEW b \in Memories, NEW x \in Addresses, IsString(b, x),
         NEW y \in Int, y = ToChar(y)
  PROVE  strchr(b, x, y) = FirstOf(Holding(b, y, x, Len(StringAt(b, x)) + 1))
  <1> DEFINE e == EndOf(b, x)
             n == e - x
             H == {p \in x .. e : b[p] = y}
             T == {p \in x .. e : b[p] = y \/ b[p] = 0}
  <1>1. /\ e \in Nat /\ x \in Nat /\ e >= x /\ b[e] = 0 /\ n \in Nat
        /\ \A k \in x .. e - 1 : b[k] # 0
        /\ Fits(x, n + 1) /\ Len(StringAt(b, x)) = n
    BY StringIs
  <1>2. Holding(b, y, x, Len(StringAt(b, x)) + 1) = H
    <2> DEFINE l == n + 1
    <2>1. l \in Nat /\ x + l - 1 = e /\ Fits(x, l)
      <3> HIDE DEF e
      <3>1. QED BY <1>1
    <2> HIDE DEF l
    <2>2. Holding(b, y, x, l) = {p \in x .. x + l - 1 : b[p] = y}
      BY <2>1, HoldingIs
    <2> HIDE DEF e
    <2>3. QED BY <1>1, <2>1, <2>2 DEF l
  <1> HIDE DEF e
  <1>3. T \subseteq Nat /\ e \in T
    BY <1>1
  <1>4. PICK p \in T : \A q \in T : p <= q
    <2> HIDE DEF T
    <2>1. QED BY <1>3, LeastNumber
  <1>5. p \in Nat /\ p \in x .. e /\ (b[p] = y \/ b[p] = 0)
    BY <1>1, <1>4
  <1>6. \A k \in x .. p - 1 : b[k] # y /\ b[k] # 0
    <2> SUFFICES ASSUME NEW k \in x .. p - 1 PROVE b[k] # y /\ b[k] # 0
      OBVIOUS
    <2>1. k \in x .. e /\ ~(p <= k)
      BY <1>1, <1>5
    <2>2. k \notin T
      BY <1>4, <2>1
    <2>3. QED BY <2>1, <2>2
  <1>7. strchr(b, x, y) = IF b[p] = y THEN p ELSE NULL
    BY <1>1, <1>5, <1>6, StrchrFound
  <1>8. CASE b[p] = y
    <2>1. p \in H /\ H \subseteq Nat /\ H \subseteq T
      BY <1>1, <1>5, <1>8
    <2> HIDE DEF H, T
    <2>2. FirstOf(H) = p
      BY <1>4, <2>1, FirstIs
    <2>3. QED BY <1>2, <1>7, <1>8, <2>2
  <1>9. CASE b[p] # y
    <2>1. p = e
      BY <1>1, <1>5, <1>9
    <2>2. H = {}
      <3> SUFFICES ASSUME NEW q \in H PROVE FALSE
        OBVIOUS
      <3>1. q \in T /\ q \in x .. e /\ b[q] = y
        OBVIOUS
      <3>2. p <= q
        BY <1>4, <3>1
      <3>3. q = e
        BY <1>1, <2>1, <3>1, <3>2
      <3>4. QED BY <1>9, <2>1, <3>1, <3>3
    <2> HIDE DEF H, T
    <2>3. FirstOf(H) = NULL
      BY <2>2 DEF FirstOf
    <2>4. QED BY <1>2, <1>7, <1>9, <2>3
  <1>10. QED BY <1>8, <1>9

LEMMA StrrchrFinds ==
  ASSUME NEW b \in Memories, NEW x \in Addresses, IsString(b, x),
         StringAt(b, x) # <<>>, NEW y \in Int, y = ToChar(y)
  PROVE  strrchr(b, x, y) = LastOf(Holding(b, y, x, Len(StringAt(b, x))))
  <1> DEFINE e == EndOf(b, x)
             n == e - x
             H == {p \in x .. e - 1 : b[p] = y}
             T == {p \in x .. e - 1 : b[p] = y \/ p = x}
  <1>1. /\ e \in Nat /\ x \in Nat /\ e >= x /\ n \in Nat
        /\ Fits(x, n) /\ Len(StringAt(b, x)) = n /\ strlen(b, x) = n
    BY StringIs
  <1>2. n # 0
    <2>1. StringAt(b, x) \in [1 .. n -> 0 .. 255]
      BY <1>1, BlockIs DEF StringAt
    <2> DEFINE t == StringAt(b, x)
    <2> HIDE DEF n, t
    <2>2. t # <<>> /\ t \in [1 .. n -> 0 .. 255]
      BY <2>1 DEF t
    <2>3. QED BY <1>1, <2>2
  <1>3. x > 0
    BY StringsAssumption
  <1>4. Holding(b, y, x, Len(StringAt(b, x))) = H
    <2> DEFINE l == n
    <2>1. l \in Nat /\ x + l - 1 = e - 1 /\ Fits(x, l)
      <3> HIDE DEF e
      <3>1. QED BY <1>1
    <2> HIDE DEF l
    <2>2. Holding(b, y, x, l) = {p \in x .. x + l - 1 : b[p] = y}
      BY <2>1, HoldingIs
    <2> HIDE DEF e
    <2>3. QED BY <1>1, <2>1, <2>2 DEF l
  <1>5. strlen(b, x) \in Nat /\ e = x + strlen(b, x)
    <2> HIDE DEF e
    <2>1. QED BY <1>1
  <1> HIDE DEF e
  <1>6. T \subseteq Nat /\ x \in T /\ \A q \in T : q <= e
    BY <1>1, <1>2
  <1>7. PICK p \in T : \A q \in T : q <= p
    <2> HIDE DEF T
    <2>1. QED BY <1>1, <1>6, GreatestNumber
  <1>8. p \in Nat /\ p \in x .. e - 1 /\ (b[p] = y \/ p = x)
    BY <1>1, <1>7
  <1>9. \A k \in p + 1 .. e - 1 : b[k] # y
    <2> SUFFICES ASSUME NEW k \in p + 1 .. e - 1, b[k] = y PROVE FALSE
      OBVIOUS
    <2>1. k \in x .. e - 1 /\ ~(k <= p)
      BY <1>1, <1>8
    <2>2. k \notin T
      BY <1>7, <2>1
    <2>3. QED BY <2>1, <2>2
  <1>10. strrchr(b, x, y) = IF b[p] = y THEN p ELSE NULL
    <2>1. x <= p /\ p < e
      BY <1>1, <1>8
    <2>2. QED BY <1>1, <1>3, <1>5, <1>8, <1>9, <2>1, StrrchrFound
  <1>11. CASE b[p] = y
    <2>1. p \in H /\ H \subseteq Nat /\ H \subseteq T
      BY <1>1, <1>8, <1>11
    <2>2. \A q \in H : q \in Nat /\ q <= p
      BY <1>7, <2>1
    <2>3. \A q \in H : p >= q
      BY <1>8, <2>2
    <2> HIDE DEF H, T
    <2>4. LastOf(H) = p
      BY <2>1, <2>3, LastIs
    <2>5. QED BY <1>4, <1>10, <1>11, <2>4
  <1>12. CASE b[p] # y
    <2>1. p = x
      BY <1>8, <1>12
    <2>2. H = {}
      <3> SUFFICES ASSUME NEW q \in H PROVE FALSE
        OBVIOUS
      <3>1. q \in T /\ q \in x .. e - 1 /\ b[q] = y
        OBVIOUS
      <3>2. q <= p
        BY <1>7, <3>1
      <3>3. q = x
        BY <1>1, <2>1, <3>1, <3>2
      <3>4. QED BY <1>12, <2>1, <3>1, <3>3
    <2> HIDE DEF H, T
    <2>3. LastOf(H) = NULL
      BY <2>2 DEF LastOf
    <2>4. QED BY <1>4, <1>10, <1>12, <2>3
  <1>13. QED BY <1>11, <1>12

LEMMA MemchrFinds ==
  ASSUME NEW b \in Memories, NEW x \in Addresses, NEW len \in Nat, Fits(x, len),
         NEW y \in Int, y = ToChar(y), len <= 1 \/ memchr(b, x, y, len) # NULL
  PROVE  memchr(b, x, y, len) = FirstOf(Holding(b, y, x, len))
  <1> DEFINE H == {p \in x .. x + len - 1 : b[p] = y}
  <1>1. Holding(b, y, x, len) = H
    BY HoldingIs
  <1>2. x \in Nat
    BY StringsAssumption
  <1>3. CASE len > 0 /\ b[x] = y
    <2>1. x \in H /\ H \subseteq Nat /\ \A q \in H : x <= q
      BY <1>2, <1>3
    <2> HIDE DEF H
    <2>2. FirstOf(H) = x
      BY <2>1, FirstIs
    <2>3. QED BY <1>1, <1>3, <2>2 DEF memchr
  <1>4. CASE ~(len > 0 /\ b[x] = y)
    <2>1. H = {}
      <3>1. len <= 1
        BY <1>4 DEF memchr
      <3>2. QED BY <1>2, <1>4, <3>1
    <2>2. FirstOf(H) = NULL
      BY <2>1 DEF FirstOf
    <2> HIDE DEF H
    <2>3. QED BY <1>1, <1>4, <2>2 DEF memchr
  <1>5. QED BY <1>3, <1>4

LEMMA StrstrFinds ==
  ASSUME NEW b \in Memories, NEW x \in Addresses, NEW y \in Addresses,
         IsString(b, x), IsString(b, y), StringAt(b, x) # <<>> \/ StringAt(b, y) # <<>>
  PROVE  LET s == StringAt(b, x)  t == StringAt(b, y)
         IN strstr(b, x, y)
              = FirstOf({p \in x .. x + Len(s) - Len(t) : Block(b, p, Len(t)) = t})
  <1> DEFINE n == EndOf(b, x) - x
             m == EndOf(b, y) - y
             e == x + n
             Same(q) == strncmp(b, q, y, strlen(b, y)) = 0
             Equal(q) == Block(b, q, m) = Block(b, y, m)
             Places == {q \in x .. e - m : Equal(q)}
             T == {q \in x .. e : q = e \/ Same(q)}
  <1>1. /\ x \in Nat /\ y \in Nat /\ n \in Nat /\ m \in Nat
        /\ Len(StringAt(b, x)) = n /\ Len(StringAt(b, y)) = m
        /\ strlen(b, y) = m
        /\ StringAt(b, x) = Block(b, x, n) /\ StringAt(b, y) = Block(b, y, m)
    BY StringIs DEF StringAt
  <1>2. OfLength(b, x, n) /\ OfLength(b, y, m)
    BY <1>1, LengthIs
  <1> HIDE DEF n, m
  <1>3. n # 0 \/ m # 0
    <2> DEFINE s == StringAt(b, x)
               t == StringAt(b, y)
    <2>1. Fits(x, n) /\ Fits(y, m)
      BY <1>1, <1>2, HeadFits
    <2>2. /\ s \in [1 .. n -> 0 .. 255] /\ t \in [1 .. m -> 0 .. 255]
          /\ s # <<>> \/ t # <<>>
      BY <1>1, <2>1, BlockIs
    <2> HIDE DEF s, t
    <2>3. QED BY <1>1, <2>2
  <1>4. e \in Nat /\ b[e] = 0 /\ \A q \in x .. e - 1 : b[q] # 0
    <2>1. e \in Nat /\ b[e] = 0
      BY <1>1, <1>2 DEF OfLength
    <2>2. ASSUME NEW q \in x .. e - 1 PROVE b[q] # 0
      <3> DEFINE i == q - x
      <3>1. i \in 0 .. n - 1 /\ x + i = q
        BY <1>1
      <3> HIDE DEF i
      <3>2. b[x + i] # 0
        BY <1>2, <3>1 DEF OfLength
      <3>3. QED BY <3>1, <3>2
    <2>3. QED BY <2>1, <2>2
  <1>5. ASSUME NEW q \in x .. e - 1
        PROVE  Same(q) <=> q <= e - m /\ Equal(q)
    <2> DEFINE h == e - q
    <2>1. h \in Nat /\ q + h = e /\ q \in Addresses /\ (m <= h <=> q <= e - m)
      <3>1. x + n \in Addresses
        BY <1>1, <1>2 DEF OfLength
      <3>2. QED BY <1>1, <3>1, StringsAssumption
    <2>2. OfLength(b, q, h)
      <3>1. ASSUME NEW i \in 0 .. h
            PROVE  q + i \in Addresses /\ b[q + i] \in Chars
        <4>1. (q - x) + i \in 0 .. n /\ x + ((q - x) + i) = q + i
          BY <1>1
        <4>2. QED BY <1>2, <4>1 DEF OfLength
      <3>2. \A i \in 0 .. h - 1 : q + i \in x .. e - 1
        BY <1>1
      <3> HIDE DEF h, e
      <3>3. QED BY <1>4, <2>1, <3>1, <3>2 DEF OfLength
    <2> HIDE DEF h, e
    <2>3. strncmp(b, q, y, m) = 0 <=> m <= h /\ Block(b, q, m) = Block(b, y, m)
      BY <1>1, <1>2, <2>1, <2>2, PrefixFound
    <2>4. QED BY <1>1, <2>1, <2>3
  <1> HIDE DEF Same, Equal
  <1>6. T \subseteq Nat /\ e \in T
    BY <1>1, <1>4
  <1>7. PICK p \in T : \A q \in T : p <= q
    <2> HIDE DEF T
    <2>1. QED BY <1>6, LeastNumber
  <1>8. p \in Nat /\ p \in x .. e /\ (p = e \/ Same(p))
    BY <1>1, <1>7
  <1>9. \A q \in x .. p - 1 : q \in x .. e - 1 /\ ~Same(q)
    <2> SUFFICES ASSUME NEW q \in x .. p - 1
                 PROVE  q \in x .. e - 1 /\ ~Same(q)
      OBVIOUS
    <2>1. q \in x .. e - 1 /\ q \in x .. e /\ ~(p <= q)
      BY <1>1, <1>8
    <2>2. q \notin T
      BY <1>7, <2>1
    <2>3. QED BY <2>1, <2>2
  <1>10. p # e => b[p] # 0
    BY <1>1, <1>4, <1>8
  <1>11. strstr(b, x, y) = IF p = e THEN NULL ELSE p
    <2>1. b[p] = 0 \/ strncmp(b, p, y, strlen(b, y)) = 0
      BY <1>4, <1>8 DEF Same
    <2>2. \A q \in x .. p - 1 : b[q] # 0 /\ strncmp(b, q, y, strlen(b, y)) # 0
      BY <1>4, <1>9 DEF Same
    <2>3. x <= p
      BY <1>1, <1>8
    <2>4. strstr(b, x, y) = IF b[p] = 0 THEN NULL ELSE p
      BY <1>1, <1>8, <2>1, <2>2, <2>3, StrstrFound
    <2>5. QED BY <1>4, <1>10, <2>4
  \* The places are where the loop stops; without a char to find, the first is.
  <1>12. ASSUME NEW q \in Places PROVE q = e \/ q \in T
    <2>1. q \in x .. e
      BY <1>1
    <2>2. CASE q # e
      <3>1. q \in x .. e - 1
        BY <1>1, <2>1, <2>2
      <3>2. Same(q)
        BY <1>1, <1>5, <3>1
      <3>3. QED BY <2>1, <3>2
    <2>3. QED BY <2>2
  <1>13. \A q \in Places : p <= q
    <2> SUFFICES ASSUME NEW q \in Places PROVE p <= q
      OBVIOUS
    <2>1. q \in T
      BY <1>6, <1>12
    <2>2. QED BY <1>7, <2>1
  <1>14. FirstOf(Places) = strstr(b, x, y)
    <2>1. CASE p # e
      <3>1. p \in x .. e - 1
        BY <1>1, <1>8, <2>1
      <3>2. p \in Places /\ Places \subseteq Nat
        BY <1>1, <1>5, <1>8, <2>1, <3>1
      <3> HIDE DEF Places, e, T
      <3>3. FirstOf(Places) = p
        BY <1>13, <3>2, FirstIs
      <3>4. QED BY <1>11, <2>1, <3>3
    <2>2. CASE p = e
      <3>1. n # 0 => ~Same(x)
        BY <1>1, <1>9, <2>2
      <3>2. m # 0
        <4> SUFFICES ASSUME m = 0 PROVE FALSE
          OBVIOUS
        <4>1. n # 0 /\ x \in x .. e - 1 /\ x <= e - m
          BY <1>1, <1>3
        <4>2. Equal(x)
          BY DEF Equal, Block
        <4>3. QED BY <1>5, <3>1, <4>1, <4>2
      <3>3. Places = {}
        <4> SUFFICES ASSUME NEW q \in Places PROVE FALSE
          OBVIOUS
        <4>1. p <= q /\ q <= e - m /\ q \in Int
          BY <1>1, <1>13
        <4>2. QED BY <1>1, <2>2, <3>2, <4>1
      <3> HIDE DEF Places, e, T
      <3>4. FirstOf(Places) = NULL
        BY <3>3 DEF FirstOf
      <3>5. QED BY <1>11, <2>2, <3>4
    <2>3. QED BY <2>1, <2>2
  <1>15. Places = {q \in x .. x + Len(StringAt(b, x)) - Len(StringAt(b, y)) :
                     Block(b, q, Len(StringAt(b, y))) = StringAt(b, y)}
    BY <1>1 DEF Equal
  <1> HIDE DEF Places
  <1>16. QED BY <1>14, <1>15

-----------------------------------------------------------------------------
(* Every call.                                                             *)

\* What C says of a call; StringsAsInC says it of the one that was made.
CallAsInC(b, f, x, y, z, mem, ret) ==
  /\ CopiesAsInC(b, f, x, y, z, mem)
  /\ ComparesAsInC(b, f, x, y, z, ret)
  /\ FindsAsInC(b, f, x, y, z, ret)

LEMMA BlocksAsInC ==
  ASSUME NEW b \in Memories, NEW d \in Addresses, NEW s \in Addresses,
         NEW len \in Nat, Fits(d, len), Fits(s, len)
  PROVE  /\ Apart(d, s, len) =>
              CallAsInC(b, "memcpy", d, s, len, memcpy(b, d, s, len), d)
         /\ CallAsInC(b, "memmove", d, s, len, memmove(b, d, s, len), d)
         /\ CallAsInC(b, "memcmp", d, s, len, b, memcmp(b, d, s, len))
  <1>1. /\ memmove(b, d, s, len) = Copied(b, d, s, len)
        /\ Apart(d, s, len) => memcpy(b, d, s, len) = Copied(b, d, s, len)
    BY MemoryIsCopied
  <1>2. ASSUME Apart(d, s, len)
        PROVE  CallAsInC(b, "memcpy", d, s, len, memcpy(b, d, s, len), d)
    BY <1>1, <1>2 DEF CallAsInC, CopiesAsInC, ComparesAsInC, FindsAsInC, Changing
  <1>3. CallAsInC(b, "memmove", d, s, len, memmove(b, d, s, len), d)
    BY <1>1 DEF CallAsInC, CopiesAsInC, ComparesAsInC, FindsAsInC, Changing
  <1>4. ComparesAsInC(b, "memcmp", d, s, len, memcmp(b, d, s, len))
    BY MemcmpOrders DEF ComparesAsInC
  <1>5. CallAsInC(b, "memcmp", d, s, len, b, memcmp(b, d, s, len))
    BY <1>4 DEF CallAsInC, CopiesAsInC, FindsAsInC, Changing
  <1>6. QED BY <1>2, <1>3, <1>5

LEMMA FillsAsInC ==
  ASSUME NEW b \in Memories, NEW d \in Addresses, NEW len \in Nat, Fits(d, len),
         NEW c \in CharCodes
  PROVE  /\ CallAsInC(b, "memset", d, c, len, memset(b, d, c, len), d)
         /\ CallAsInC(b, "memchr", d, c, len, b, memchr(b, d, c, len))
  <1>1. c \in Int
    BY StringsAssumption
  <1>2. Unsigned(ToChar(c)) = Unsigned(c)
    BY <1>1, UnsignedIs
  <1>3. \A a \in Addresses :
          IF a \in d .. d + len - 1 THEN Unsigned(memset(b, d, c, len)[a]) = Unsigned(c)
          ELSE memset(b, d, c, len)[a] = b[a]
    BY <1>2 DEF memset
  <1>4. CopiesAsInC(b, "memset", d, c, len, memset(b, d, c, len))
    BY <1>3 DEF CopiesAsInC, Changing
  <1>5. CallAsInC(b, "memset", d, c, len, memset(b, d, c, len), d)
    BY <1>4 DEF CallAsInC, ComparesAsInC, FindsAsInC, Changing
  <1>6. c = ToChar(c) /\ (len <= 1 \/ memchr(b, d, c, len) # NULL) =>
          memchr(b, d, c, len) = FirstOf(Holding(b, c, d, len))
    BY <1>1, MemchrFinds
  <1>7. CallAsInC(b, "memchr", d, c, len, b, memchr(b, d, c, len))
    BY <1>6 DEF CallAsInC, CopiesAsInC, ComparesAsInC, FindsAsInC, Changing
  <1>8. QED BY <1>5, <1>7

LEMMA SearchesAsInC ==
  ASSUME NEW b \in Memories, NEW s \in Addresses, IsString(b, s),
         NEW c \in CharCodes, NEW z
  PROVE  /\ CallAsInC(b, "strlen", s, z, z, b, strlen(b, s))
         /\ CallAsInC(b, "strchr", s, c, z, b, strchr(b, s, c))
         /\ CallAsInC(b, "strrchr", s, c, z, b, strrchr(b, s, c))
  <1>1. c \in Int
    BY StringsAssumption
  <1>2. strlen(b, s) = Len(StringAt(b, s))
    BY StringIs
  <1>3. c = ToChar(c) =>
          strchr(b, s, c) = FirstOf(Holding(b, c, s, Len(StringAt(b, s)) + 1))
    BY <1>1, StrchrFinds
  <1>4. c = ToChar(c) /\ StringAt(b, s) # <<>> =>
          strrchr(b, s, c) = LastOf(Holding(b, c, s, Len(StringAt(b, s))))
    BY <1>1, StrrchrFinds
  <1>5. CallAsInC(b, "strlen", s, z, z, b, strlen(b, s))
    BY <1>2 DEF CallAsInC, CopiesAsInC, ComparesAsInC, FindsAsInC, Changing
  <1>6. CallAsInC(b, "strchr", s, c, z, b, strchr(b, s, c))
    BY <1>3 DEF CallAsInC, CopiesAsInC, ComparesAsInC, FindsAsInC, Changing
  <1>7. CallAsInC(b, "strrchr", s, c, z, b, strrchr(b, s, c))
    BY <1>4 DEF CallAsInC, CopiesAsInC, ComparesAsInC, FindsAsInC, Changing
  <1>8. QED BY <1>5, <1>6, <1>7

LEMMA PairsAsInC ==
  ASSUME NEW b \in Memories, NEW s \in Addresses, NEW t \in Addresses,
         IsString(b, s), IsString(b, t), NEW n \in Nat, NEW z
  PROVE  /\ CallAsInC(b, "strcmp", s, t, z, b, strcmp(b, s, t))
         /\ CallAsInC(b, "strstr", s, t, z, b, strstr(b, s, t))
         /\ CallAsInC(b, "strncmp", s, t, n, b, strncmp(b, s, t, n))
  <1>1. ComparesAsInC(b, "strcmp", s, t, z, strcmp(b, s, t))
    BY StrcmpOrders DEF ComparesAsInC
  <1>2. ComparesAsInC(b, "strncmp", s, t, n, strncmp(b, s, t, n))
    BY StrncmpOrders DEF ComparesAsInC
  <1>3. FindsAsInC(b, "strstr", s, t, z, strstr(b, s, t))
    BY StrstrFinds DEF FindsAsInC, Changing
  <1>4. CallAsInC(b, "strcmp", s, t, z, b, strcmp(b, s, t))
    BY <1>1 DEF CallAsInC, CopiesAsInC, FindsAsInC, Changing
  <1>5. CallAsInC(b, "strncmp", s, t, n, b, strncmp(b, s, t, n))
    BY <1>2 DEF CallAsInC, CopiesAsInC, FindsAsInC, Changing
  <1>6. CallAsInC(b, "strstr", s, t, z, b, strstr(b, s, t))
    BY <1>3 DEF CallAsInC, CopiesAsInC, ComparesAsInC, Changing
  <1>7. QED BY <1>4, <1>5, <1>6

\* A string is copied with its terminator.
LEMMA StringCopied ==
  ASSUME NEW b \in Memories, NEW d \in Addresses, NEW s \in Addresses,
         IsString(b, s), NEW len \in Nat, len = strlen(b, s) + 1,
         Fits(d, len), Apart(d, s, len)
  PROVE  strcpy(b, d, s) = Copied(b, d, s, Len(StringAt(b, s)) + 1)
  <1>1. /\ len = Len(StringAt(b, s)) + 1
        /\ len = EndOf(b, s) - s + 1 /\ Fits(s, EndOf(b, s) - s + 1)
    BY StringIs
  <1>2. strcpy(b, d, s) = memcpy(b, d, s, len)
    BY DEF strcpy
  <1>3. memcpy(b, d, s, len) = Copied(b, d, s, len)
    BY <1>1, MemoryIsCopied
  <1>4. QED BY <1>1, <1>2, <1>3

LEMMA StringsCopiedAsInC ==
  ASSUME NEW b \in Memories, NEW d \in Addresses, NEW s \in Addresses,
         IsString(b, s), NEW len, len = strlen(b, s) + 1, NEW z
  PROVE  /\ Fits(d, len) /\ Apart(d, s, len) =>
              CallAsInC(b, "strcpy", d, s, z, strcpy(b, d, s), d)
         /\ IsString(b, d) /\ Fits(d + strlen(b, d), len) /\ Apart(d + strlen(b, d), s, len) =>
              CallAsInC(b, "strcat", d, s, z, strcat(b, d, s), d)
  <1>1. len \in Nat
    BY StringIs
  <1>2. ASSUME Fits(d, len), Apart(d, s, len)
        PROVE  CallAsInC(b, "strcpy", d, s, z, strcpy(b, d, s), d)
    <2>1. strcpy(b, d, s) = Copied(b, d, s, Len(StringAt(b, s)) + 1)
      BY <1>1, <1>2, StringCopied
    <2>2. QED
      BY <2>1 DEF CallAsInC, CopiesAsInC, ComparesAsInC, FindsAsInC, Changing
  <1>3. ASSUME IsString(b, d), Fits(d + strlen(b, d), len), Apart(d + strlen(b, d), s, len)
        PROVE  CallAsInC(b, "strcat", d, s, z, strcat(b, d, s), d)
    <2> DEFINE e == d + strlen(b, d)
    <2>1. e \in Addresses /\ e = d + Len(StringAt(b, d))
      <3>1. /\ EndOf(b, d) \in Addresses /\ EndOf(b, d) \in Nat /\ d \in Nat
            /\ strlen(b, d) = EndOf(b, d) - d /\ Len(StringAt(b, d)) = EndOf(b, d) - d
        BY <1>3, StringIs
      <3>2. QED BY <3>1
    <2>2. strcat(b, d, s) = strcpy(b, e, s)
      BY DEF strcat
    <2> HIDE DEF e
    <2>3. Fits(e, len) /\ Apart(e, s, len)
      BY <1>3 DEF e
    <2>4. strcpy(b, e, s) = Copied(b, e, s, Len(StringAt(b, s)) + 1)
      BY <1>1, <2>1, <2>3, StringCopied
    <2>5. strcat(b, d, s) = Copied(b, d + Len(StringAt(b, d)), s, Len(StringAt(b, s)) + 1)
      BY <2>1, <2>2, <2>4
    <2>6. QED
      BY <2>5 DEF CallAsInC, CopiesAsInC, ComparesAsInC, FindsAsInC, Changing
  <1>4. QED BY <1>2, <1>3

\* What was made of a call is what C says of it.
LEMMA CallFollowsC ==
  ASSUME NEW call, NEW mem, NEW ret, StringsCall(call, mem, ret),
         CallAsInC(before, call[1], call[2], call[3], call[4], mem, ret)
  PROVE  StringsAsInC'
  BY DEF StringsCall, StringsAsInC, CallAsInC

\* A call is made of the memory as it was found, and is what C says of it.
LEMMA StringsStep ==
  ASSUME before \in Memories, StringsAsInC, StringsNext
  PROVE  StringsAsInC' /\ before' = before
  <1>1. called[1] = "none" /\ memory = before
    BY DEF StringsNext, StringsAsInC, CopiesAsInC, Changing
  <1>2. Lengths \subseteq Nat
    BY StringsAssumption DEF Lengths
  <1>3. before' = before
    BY DEF StringsNext, OfBlocks, OfStrings, StringsCall
  <1>4. ASSUME OfBlocks PROVE StringsAsInC'
    <2>1. PICK d \in Addresses, s \in Addresses, len \in Lengths :
            /\ Fits(d, len) /\ Fits(s, len)
            /\ \/ /\ Apart(d, s, len)
                  /\ StringsCall(<<"memcpy", d, s, len>>, memcpy(memory, d, s, len), d)
               \/ StringsCall(<<"memmove", d, s, len>>, memmove(memory, d, s, len), d)
               \/ StringsCall(<<"memcmp", d, s, len>>, memory, memcmp(memory, d, s, len))
               \/ \E c \in CharCodes :
                    /\ s = d
                    /\ \/ StringsCall(<<"memset", d, c, len>>, memset(memory, d, c, len), d)
                       \/ StringsCall(<<"memchr", d, c, len>>, memory, memchr(memory, d, c, len))
      BY <1>4 DEF OfBlocks
    <2>2. len \in Nat
      BY <1>2
    <2>3. CASE Apart(d, s, len)
               /\ StringsCall(<<"memcpy", d, s, len>>, memcpy(memory, d, s, len), d)
      <3>1. CallAsInC(before, "memcpy", d, s, len, memcpy(memory, d, s, len), d)
        BY <1>1, <2>1, <2>2, <2>3, BlocksAsInC
      <3>2. QED BY <2>3, <3>1, CallFollowsC
    <2>4. CASE StringsCall(<<"memmove", d, s, len>>, memmove(memory, d, s, len), d)
      <3>1. CallAsInC(before, "memmove", d, s, len, memmove(memory, d, s, len), d)
        BY <1>1, <2>1, <2>2, BlocksAsInC
      <3>2. QED BY <2>4, <3>1, CallFollowsC
    <2>5. CASE StringsCall(<<"memcmp", d, s, len>>, memory, memcmp(memory, d, s, len))
      <3>1. CallAsInC(before, "memcmp", d, s, len, memory, memcmp(memory, d, s, len))
        BY <1>1, <2>1, <2>2, BlocksAsInC
      <3>2. QED BY <2>5, <3>1, CallFollowsC
    <2>6. ASSUME NEW c \in CharCodes,
                 StringsCall(<<"memset", d, c, len>>, memset(memory, d, c, len), d)
          PROVE  StringsAsInC'
      <3>1. CallAsInC(before, "memset", d, c, len, memset(memory, d, c, len), d)
        BY <1>1, <2>1, <2>2, FillsAsInC
      <3>2. QED BY <2>6, <3>1, CallFollowsC
    <2>7. ASSUME NEW c \in CharCodes,
                 StringsCall(<<"memchr", d, c, len>>, memory, memchr(memory, d, c, len))
          PROVE  StringsAsInC'
      <3>1. CallAsInC(before, "memchr", d, c, len, memory, memchr(memory, d, c, len))
        BY <1>1, <2>1, <2>2, FillsAsInC
      <3>2. QED BY <2>7, <3>1, CallFollowsC
    <2>8. QED BY <2>1, <2>3, <2>4, <2>5, <2>6, <2>7
  <1>5. ASSUME OfStrings PROVE StringsAsInC'
    <2>1. PICK s \in Addresses :
            /\ IsString(memory, s)
            /\ \/ StringsCall(<<"strlen", s>>, memory, strlen(memory, s))
               \/ \E c \in CharCodes :
                    \/ StringsCall(<<"strchr", s, c>>, memory, strchr(memory, s, c))
                    \/ StringsCall(<<"strrchr", s, c>>, memory, strrchr(memory, s, c))
               \/ \E t \in Addresses :
                    /\ IsString(memory, t)
                    /\ \/ StringsCall(<<"strcmp", s, t>>, memory, strcmp(memory, s, t))
                       \/ StringsCall(<<"strstr", s, t>>, memory, strstr(memory, s, t))
                       \/ \E n \in Lengths :
                            StringsCall(<<"strncmp", s, t, n>>, memory, strncmp(memory, s, t, n))
               \/ \E d \in Addresses :
                    LET len == strlen(memory, s) + 1 IN
                    \/ /\ Fits(d, len) /\ Apart(d, s, len)
                       /\ StringsCall(<<"strcpy", d, s>>, strcpy(memory, d, s), d)
                    \/ LET e == d + strlen(memory, d) IN
                       /\ IsString(memory, d) /\ Fits(e, len) /\ Apart(e, s, len)
                       /\ StringsCall(<<"strcat", d, s>>, strcat(memory, d, s), d)
      BY <1>5 DEF OfStrings
    <2> DEFINE len == strlen(memory, s) + 1
    <2>2. CASE StringsCall(<<"strlen", s>>, memory, strlen(memory, s))
      <3> DEFINE call == <<"strlen", s>>
      <3>1. CallAsInC(before, call[1], call[2], call[3], call[4], memory, strlen(memory, s))
        BY <1>1, <2>1, StringIs DEF CallAsInC, CopiesAsInC, ComparesAsInC, FindsAsInC, Changing
      <3> HIDE DEF call
      <3>2. QED BY <2>2, <3>1, CallFollowsC DEF call
    <2>3. ASSUME NEW c \in CharCodes,
                 StringsCall(<<"strchr", s, c>>, memory, strchr(memory, s, c))
          PROVE  StringsAsInC'
      <3> DEFINE call == <<"strchr", s, c>>
      <3>1. CallAsInC(before, "strchr", s, c, call[4], memory, strchr(memory, s, c))
        BY <1>1, <2>1, SearchesAsInC
      <3>2. QED BY <2>3, <3>1, CallFollowsC
    <2>4. ASSUME NEW c \in CharCodes,
                 StringsCall(<<"strrchr", s, c>>, memory, strrchr(memory, s, c))
          PROVE  StringsAsInC'
      <3> DEFINE call == <<"strrchr", s, c>>
      <3>1. CallAsInC(before, "strrchr", s, c, call[4], memory, strrchr(memory, s, c))
        BY <1>1, <2>1, SearchesAsInC
      <3>2. QED BY <2>4, <3>1, CallFollowsC
    <2>5. ASSUME NEW t \in Addresses, IsString(memory, t),
                 StringsCall(<<"strcmp", s, t>>, memory, strcmp(memory, s, t))
          PROVE  StringsAsInC'
      <3> DEFINE call == <<"strcmp", s, t>>
      <3>1. CallAsInC(before, "strcmp", s, t, call[4], memory, strcmp(memory, s, t))
        BY <1>1, <2>1, <2>5, PairsAsInC
      <3>2. QED BY <2>5, <3>1, CallFollowsC
    <2>6. ASSUME NEW t \in Addresses, IsString(memory, t),
                 StringsCall(<<"strstr", s, t>>, memory, strstr(memory, s, t))
          PROVE  StringsAsInC'
      <3> DEFINE call == <<"strstr", s, t>>
      <3>1. CallAsInC(before, "strstr", s, t, call[4], memory, strstr(memory, s, t))
        BY <1>1, <2>1, <2>6, PairsAsInC
      <3>2. QED BY <2>6, <3>1, CallFollowsC
    <2>7. ASSUME NEW t \in Addresses, IsString(memory, t), NEW n \in Lengths,
                 StringsCall(<<"strncmp", s, t, n>>, memory, strncmp(memory, s, t, n))
          PROVE  StringsAsInC'
      <3>1. CallAsInC(before, "strncmp", s, t, n, memory, strncmp(memory, s, t, n))
        BY <1>1, <1>2, <2>1, <2>7, PairsAsInC
      <3>2. QED BY <2>7, <3>1, CallFollowsC
    <2>8. ASSUME NEW d \in Addresses, Fits(d, len), Apart(d, s, len),
                 StringsCall(<<"strcpy", d, s>>, strcpy(memory, d, s), d)
          PROVE  StringsAsInC'
      <3> DEFINE call == <<"strcpy", d, s>>
      <3>1. CallAsInC(before, "strcpy", d, s, call[4], strcpy(memory, d, s), d)
        BY <1>1, <2>1, <2>8, StringsCopiedAsInC
      <3>2. QED BY <2>8, <3>1, CallFollowsC
    <2>9. ASSUME NEW d \in Addresses, IsString(memory, d),
                 Fits(d + strlen(memory, d), len), Apart(d + strlen(memory, d), s, len),
                 StringsCall(<<"strcat", d, s>>, strcat(memory, d, s), d)
          PROVE  StringsAsInC'
      <3> DEFINE call == <<"strcat", d, s>>
      <3>1. CallAsInC(before, "strcat", d, s, call[4], strcat(memory, d, s), d)
        BY <1>1, <2>1, <2>9, StringsCopiedAsInC
      <3>2. QED BY <2>9, <3>1, CallFollowsC
    <2>10. QED BY <2>1, <2>2, <2>3, <2>4, <2>5, <2>6, <2>7, <2>8, <2>9
  <1>6. QED BY <1>3, <1>4, <1>5 DEF StringsNext

\* Whatever the memory holds and wherever in it the blocks and strings lie, the
\* functions of string.c copy and move what C says, compare as C says except for the
\* order of blocks that first differ in the sign of a char, and find the place that C
\* says.  For a code that is no char, for strrchr on an empty string or of the
\* terminator, for a memchr that finds nothing in more than one char and for an empty
\* string in an empty one nothing is claimed: there the code differs from C.
THEOREM StringsFollowC == StringsSpec => []StringsAsInC
  <1> DEFINE StringsIInv == before \in Memories /\ StringsAsInC
  <1>1. StringsInit => StringsIInv
    BY DEF StringsInit, StringsAsInC, CopiesAsInC, ComparesAsInC, FindsAsInC,
           Changing, Memories
  <1>2. StringsIInv /\ [StringsNext]_stringVars => StringsIInv'
    <2> SUFFICES ASSUME StringsIInv, [StringsNext]_stringVars PROVE StringsIInv'
      OBVIOUS
    <2>1. CASE StringsNext
      BY <2>1, StringsStep DEF Memories
    <2>2. CASE UNCHANGED stringVars
      BY <2>2 DEF stringVars, StringsAsInC, Memories
    <2>3. QED BY <2>1, <2>2
  <1>3. StringsIInv => StringsAsInC
    OBVIOUS
  <1>4. QED BY <1>1, <1>2, <1>3, PTL DEF StringsSpec

-----------------------------------------------------------------------------
(* Numbers: the places that strtod finds, and what digits are worth.       *)

\* What is computed from each number to the next exists.
Rules(h, S) == h \in [Nat -> [S -> S]]
Steps(f, S, a, h) ==
  f \in [Nat -> S] /\ f[0] = a /\ \A k \in Nat : f[k + 1] = h[k][f[k]]

LEMMA StepsExist ==
  ASSUME NEW S, NEW a \in S, NEW h, Rules(h, S)
  PROVE  \E f : Steps(f, S, a, h)
  <1> USE DEF Rules
  <1> DEFINE Goes(g, n) == /\ g \in [0 .. n -> S] /\ g[0] = a
                           /\ \A k \in 1 .. n : g[k] = h[k - 1][g[k - 1]]
             Bad == {n \in Nat : ~\E g : Goes(g, n)}
  <1>1. \A n \in Nat : \E g : Goes(g, n)
    <2> SUFFICES ASSUME Bad # {} PROVE FALSE
      OBVIOUS
    <2>1. PICK m \in Bad : \A k \in Bad : m <= k
      <3>1. Bad \subseteq Nat
        OBVIOUS
      <3> HIDE DEF Bad
      <3>2. QED BY <3>1, LeastNumber
    <2>2. CASE m = 0
      <3>1. Goes([k \in 0 .. 0 |-> a], 0)
        OBVIOUS
      <3>2. QED BY <2>1, <2>2, <3>1
    <2>3. CASE m # 0
      <3>1. m - 1 \in Nat /\ m - 1 \notin Bad
        BY <2>1, <2>3
      <3>2. PICK g : Goes(g, m - 1)
        BY <3>1
      <3> DEFINE e == [k \in 0 .. m |-> IF k = m THEN h[m - 1][g[m - 1]] ELSE g[k]]
      <3>3. e \in [0 .. m -> S] /\ e[0] = a
        BY <2>1, <2>3, <3>1, <3>2
      <3>4. \A k \in 1 .. m : e[k] = h[k - 1][e[k - 1]]
        BY <2>1, <2>3, <3>1, <3>2
      <3>5. Goes(e, m)
        <4> HIDE DEF e
        <4>1. QED BY <3>3, <3>4
      <3>6. QED BY <2>1, <3>5
    <2>4. QED BY <2>2, <2>3
  <1> DEFINE F(n) == CHOOSE g : Goes(g, n)
             f == [n \in Nat |-> F(n)[n]]
  <1>2. \A n \in Nat : Goes(F(n), n)
    <2> HIDE DEF Goes
    <2>1. QED BY <1>1
  <1>3. \A n \in Nat : /\ F(n) \in [0 .. n -> S] /\ F(n)[0] = a
                       /\ \A k \in 1 .. n : F(n)[k] = h[k - 1][F(n)[k - 1]]
    <2> HIDE DEF F
    <2>1. QED BY <1>2
  <1> HIDE DEF F
  <1>4. f \in [Nat -> S] /\ f[0] = a
    BY <1>3
  <1>5. ASSUME NEW n \in Nat PROVE f[n + 1] = h[n][f[n]]
    <2> DEFINE c == F(n + 1)
               b == F(n)
    <2>1. c[0] = b[0] /\ \A k \in 1 .. n : c[k - 1] = b[k - 1] => c[k] = b[k]
      <3>1. \A k \in 1 .. n : k \in 1 .. n + 1
        OBVIOUS
      <3>2. QED BY <1>3, <3>1
    <2>2. c[n + 1] = h[n][c[n]]
      BY <1>3
    <2>3. f[n + 1] = c[n + 1] /\ f[n] = b[n]
      OBVIOUS
    <2>4. c[n] = b[n]
      <3> HIDE DEF c, b
      <3>1. Alike(c, b, n)
        BY <2>1 DEF Alike
      <3>2. \A k \in 0 .. n : c[k] = b[k]
        BY <3>1, AlikeSame
      <3>3. QED BY <3>2
    <2>5. QED BY <2>2, <2>3, <2>4
  <1>6. Steps(f, S, a, h)
    <2> HIDE DEF f
    <2>1. QED BY <1>4, <1>5 DEF Steps
  <1>7. QED BY <1>6

\* A class of characters ends at e for the first time from p on.
EndsAt(t, p, class, e) ==
  /\ e \in Nat /\ p <= e /\ At(t, e) \notin class
  /\ \A q \in p .. e - 1 : At(t, q) \in class

LEMMA SkipEnds ==
  ASSUME NEW t \in Seq(STRING), NEW p \in Nat, NEW class, "NUL" \notin class
  PROVE  /\ EndsAt(t, p, class, Skip(t, p, class))
         /\ p <= Len(t) => Skip(t, p, class) <= Len(t)
  <1> DEFINE Stop == {q \in Nat : At(t, q) \notin class}
             G == [i \in Nat |-> i]
             H(f) == [q \in Nat |-> IF At(t, q) \in class THEN f[q + 1] ELSE q]
             end == CHOOSE f : f = H(f)
             Ahead == {q \in Nat : p <= q /\ At(t, q) \notin class}
  <1>1. \A f : CountsUp(f, Stop, G) <=> f = H(f)
    <2>1. ASSUME NEW f PROVE CountsUp(f, Stop, G) => f = H(f)
      BY DEF CountsUp
    <2>2. ASSUME NEW f, f = H(f) PROVE CountsUp(f, Stop, G)
      BY <2>2 DEF CountsUp
    <2>3. QED BY <2>1, <2>2
  <1>2. CountsUp(end, Stop, G)
    <2> HIDE DEF Stop, G, H
    <2>1. \E f : f = H(f)
      BY <1>1, UpExists
    <2>2. QED BY <1>1, <2>1
  <1>3. \A q \in Nat : Len(t) <= q => At(t, q) = "NUL"
    BY DEF At
  <1>4. Len(t) \in Nat /\ (p <= Len(t) => Len(t) \in Ahead) /\ (Len(t) <= p => p \in Ahead)
    BY <1>3
  <1>5. PICK e \in Ahead : \A q \in Ahead : e <= q
    <2>1. Ahead \subseteq Nat /\ Ahead # {}
      BY <1>4
    <2> HIDE DEF Ahead
    <2>2. QED BY <2>1, LeastNumber
  <1>6. EndsAt(t, p, class, e)
    BY <1>5 DEF EndsAt
  <1>7. p <= Len(t) => e <= Len(t)
    BY <1>4, <1>5
  <1>8. e \in Nat /\ p <= e /\ e \in Stop /\ (\A k \in p .. e - 1 : k \notin Stop) /\ G[e] = e
    BY <1>6 DEF EndsAt
  <1>9. end[p] = e
    <2> HIDE DEF Stop, G, end, Ahead
    <2>1. QED BY <1>2, <1>8, UpFinds
  <1>10. Skip(t, p, class) = end[p]
    BY DEF Skip
  <1>11. QED BY <1>6, <1>7, <1>9, <1>10

LEMMA EndsOnce ==
  ASSUME NEW t, NEW p \in Nat, NEW class, NEW e, EndsAt(t, p, class, e),
         NEW f \in Nat, p <= f, Are(class, t, p, f)
  PROVE  f <= e /\ (At(t, f) \notin class => f = e)
  BY DEF EndsAt, Are

LEMMA ValueOfDigit ==
  ASSUME NEW c \in isdigit
  PROVE  ValueOf(c) \in 0 .. 9
  <1>1. PICK d \in 1 .. 10 : Digits[d] = c
    BY DEF isdigit
  <1>2. (CHOOSE k \in 1 .. 10 : Digits[k] = c) \in 1 .. 10
    <2> HIDE DEF isdigit
    <2>1. \E k \in 1 .. 10 : Digits[k] = c
      BY <1>1
    <2> DEFINE P(k) == Digits[k] = c
    <2> HIDE DEF P
    <2>2. \E k \in 1 .. 10 : P(k)
      BY <2>1 DEF P
    <2>3. (CHOOSE k \in 1 .. 10 : P(k)) \in 1 .. 10
      BY <2>2
    <2>4. QED BY <2>3 DEF P
  <1>3. QED BY <1>2 DEF ValueOf

\* The numbers that the digits have collected after each.
Collects(s, v) ==
  /\ v \in [Nat -> Nat] /\ v[0] = 0
  /\ \A k \in 1 .. Len(s) : v[k] = 10 * v[k - 1] + ValueOf(s[k])

LEMMA CollectsExists ==
  ASSUME NEW s \in Seq(isdigit)
  PROVE  \E v : Collects(s, v)
  <1> DEFINE h == [k \in Nat |-> [x \in Nat |->
                     IF k < Len(s) THEN 10 * x + ValueOf(s[k + 1]) ELSE 0]]
  <1>1. \A k \in 1 .. Len(s) : ValueOf(s[k]) \in Nat
    <2> SUFFICES ASSUME NEW k \in 1 .. Len(s) PROVE ValueOf(s[k]) \in Nat
      OBVIOUS
    <2>1. s[k] \in isdigit
      OBVIOUS
    <2>2. ValueOf(s[k]) \in 0 .. 9
      BY <2>1, ValueOfDigit
    <2>3. QED BY <2>2
  <1>2. Len(s) \in Nat
    OBVIOUS
  <1>3. Rules(h, Nat)
    BY <1>1, <1>2 DEF Rules
  <1>4. PICK v \in [Nat -> Nat] : v[0] = 0 /\ \A k \in Nat : v[k + 1] = h[k][v[k]]
    <2> HIDE DEF h
    <2>1. \E v : Steps(v, Nat, 0, h)
      BY <1>3, StepsExist
    <2>2. QED BY <2>1 DEF Steps
  <1>5. ASSUME NEW k \in 1 .. Len(s) PROVE v[k] = 10 * v[k - 1] + ValueOf(s[k])
    <2>1. k - 1 \in Nat /\ k - 1 < Len(s) /\ (k - 1) + 1 = k /\ v[k - 1] \in Nat
      BY <1>2, <1>4
    <2>2. v[k] = h[k - 1][v[k - 1]]
      <3> HIDE DEF h
      <3>1. QED BY <1>4, <2>1
    <2>3. QED BY <2>1, <2>2
  <1>6. QED BY <1>4, <1>5 DEF Collects

LEMMA ValueFound ==
  ASSUME NEW s, Len(s) \in Nat, NEW v, Collects(s, v)
  PROVE  ValueIn(s) = v[Len(s)]
  <1> DEFINE H(f) == [k \in 0 .. Len(s) |->
                        IF k = 0 THEN 0 ELSE 10 * f[k - 1] + ValueOf(s[k])]
             value == CHOOSE f : f = H(f)
             w == [k \in 0 .. Len(s) |-> v[k]]
  <1>1. w = H(w)
    <2>1. H(w) = [k \in 0 .. Len(s) |-> H(w)[k]]
      OBVIOUS
    <2>2. ASSUME NEW k \in 0 .. Len(s) PROVE w[k] = H(w)[k]
      <3>1. CASE k = 0
        BY <3>1 DEF Collects
      <3>2. CASE k # 0
        <4>1. k \in 1 .. Len(s) /\ k - 1 \in 0 .. Len(s)
          BY <3>2
        <4>2. H(w)[k] = 10 * w[k - 1] + ValueOf(s[k])
          BY <3>2
        <4>3. w[k - 1] = v[k - 1] /\ w[k] = v[k]
          BY <4>1
        <4>4. QED
          <5> HIDE DEF H, w
          <5>1. QED BY <4>1, <4>2, <4>3 DEF Collects
      <3>3. QED BY <3>1, <3>2
    <2>3. w = [k \in 0 .. Len(s) |-> w[k]]
      OBVIOUS
    <2> HIDE DEF H, w
    <2>4. QED BY <2>1, <2>2, <2>3
  <1>2. value = H(value)
    <2> HIDE DEF H
    <2>1. QED BY <1>1
  <1>3. value[0] = w[0]
    <2> HIDE DEF value, w
    <2>1. value[0] = 0
      BY <1>2
    <2>2. w[0] = 0
      BY <1>1
    <2>3. QED BY <2>1, <2>2
  <1>4. \A k \in 1 .. Len(s) : value[k - 1] = w[k - 1] => value[k] = w[k]
    <2> HIDE DEF value, w
    <2>1. \A k \in 1 .. Len(s) : value[k] = 10 * value[k - 1] + ValueOf(s[k])
      BY <1>2
    <2>2. \A k \in 1 .. Len(s) : w[k] = 10 * w[k - 1] + ValueOf(s[k])
      BY <1>1
    <2> HIDE DEF H
    <2>3. QED BY <2>1, <2>2
  <1>5. value[Len(s)] = w[Len(s)]
    <2> HIDE DEF value, H, w
    <2>1. Alike(value, w, Len(s))
      BY <1>3, <1>4 DEF Alike
    <2>2. \A k \in 0 .. Len(s) : value[k] = w[k]
      BY <2>1, AlikeSame
    <2>3. QED BY <2>2
  <1>6. ValueIn(s) = value[Len(s)]
    BY DEF ValueIn
  <1>7. w[Len(s)] = v[Len(s)]
    OBVIOUS
  <1>8. QED BY <1>5, <1>6, <1>7

LEMMA TenToIs ==
  /\ TenTo \in [Nat -> Nat \ {0}] /\ TenTo[0] = 1
  /\ \A k \in Nat : TenTo[k + 1] = 10 * TenTo[k]
  <1> DEFINE H(f) == [k \in Nat |-> IF k = 0 THEN 1 ELSE 10 * f[k - 1]]
             h == [k \in Nat |-> [x \in Nat \ {0} |-> 10 * x]]
             ten == CHOOSE f : f = H(f)
  <1>1. Rules(h, Nat \ {0})
    BY DEF Rules
  <1>2. PICK f \in [Nat -> Nat \ {0}] : f[0] = 1 /\ \A k \in Nat : f[k + 1] = h[k][f[k]]
    <2>1. 1 \in Nat \ {0}
      OBVIOUS
    <2> HIDE DEF h
    <2>2. \E f : Steps(f, Nat \ {0}, 1, h)
      BY <1>1, <2>1, StepsExist
    <2>3. QED BY <2>2 DEF Steps
  <1>3. f = H(f)
    <2>1. \A k \in Nat : k # 0 => f[k] = 10 * f[k - 1]
      <3> SUFFICES ASSUME NEW k \in Nat, k # 0 PROVE f[k] = 10 * f[k - 1]
        OBVIOUS
      <3>1. k - 1 \in Nat /\ (k - 1) + 1 = k
        OBVIOUS
      <3>2. f[(k - 1) + 1] = h[k - 1][f[k - 1]]
        <4> HIDE DEF h
        <4>1. QED BY <1>2, <3>1
      <3>3. QED BY <1>2, <3>1, <3>2
    <2>2. QED BY <1>2, <2>1
  <1>4. ten = H(ten)
    <2> HIDE DEF H
    <2>1. QED BY <1>3
  <1>5. TenTo = ten
    BY DEF TenTo
  <1>6. TenTo = H(TenTo)
    BY <1>4, <1>5
  <1>7. \A n \in Nat : TenTo[n] = f[n]
    <2>1. TenTo[0] = f[0]
      BY <1>2, <1>6
    <2>2. \A k \in Nat : k # 0 => TenTo[k] = 10 * TenTo[k - 1] /\ f[k] = 10 * f[k - 1]
      BY <1>3, <1>6
    <2>3. ASSUME NEW n \in Nat PROVE TenTo[n] = f[n]
      <3>1. \A k \in 1 .. n : TenTo[k - 1] = f[k - 1] => TenTo[k] = f[k]
        BY <2>2
      <3>2. Alike(TenTo, f, n)
        BY <2>1, <3>1 DEF Alike
      <3>3. \A k \in 0 .. n : TenTo[k] = f[k]
        BY <3>2, AlikeSame
      <3>4. QED BY <3>3
    <2>4. QED BY <2>3
  <1>8. TenTo = f
    BY <1>2, <1>6, <1>7
  <1>9. QED BY <1>2, <1>8

LEMMA TenTimes ==
  ASSUME NEW a \in Nat, NEW b \in Nat
  PROVE  a * b \in Nat /\ a * (10 * b) = 10 * (a * b)
  BY Z3T(60)

\* Digits in front count for as many tens as digits follow.
LEMMA ValueJoins ==
  ASSUME NEW s \in Seq(isdigit), NEW u \in Seq(isdigit)
  PROVE  ValueIn(s \o u) = ValueIn(s) * TenTo[Len(u)] + ValueIn(u)
  <1> DEFINE c == s \o u
             n == Len(s)
             m == Len(u)
  <1>1. c \in Seq(isdigit) /\ n \in Nat /\ m \in Nat /\ Len(c) = n + m
    OBVIOUS
  <1>2. (\A k \in 1 .. n : c[k] = s[k]) /\ \A k \in 1 .. m : c[n + k] = u[k]
    OBVIOUS
  <1> HIDE DEF c
  <1>3. PICK v : Collects(s, v)
    BY CollectsExists
  <1>4. PICK w : Collects(u, w)
    BY CollectsExists
  <1>5. PICK z : Collects(c, z)
    BY <1>1, CollectsExists
  <1>6. ValueIn(s) = v[n] /\ ValueIn(u) = w[m] /\ ValueIn(c) = z[n + m]
    <2>1. ValueIn(s) = v[n]
      BY <1>1, <1>3, ValueFound
    <2>2. ValueIn(u) = w[m]
      BY <1>1, <1>4, ValueFound
    <2>3. ValueIn(c) = z[n + m]
      <3>1. ValueIn(c) = z[Len(c)]
        BY <1>1, <1>5, ValueFound
      <3>2. QED BY <1>1, <3>1
    <2>4. QED BY <2>1, <2>2, <2>3
  <1>7. z[n] = v[n]
    <2>1. z[0] = v[0]
      BY <1>3, <1>5 DEF Collects
    <2>2. ASSUME NEW k \in 1 .. n, z[k - 1] = v[k - 1] PROVE z[k] = v[k]
      <3>1. k \in 1 .. Len(c)
        BY <1>1
      <3>2. z[k] = 10 * z[k - 1] + ValueOf(c[k])
        BY <1>5, <3>1 DEF Collects
      <3>3. v[k] = 10 * v[k - 1] + ValueOf(s[k])
        BY <1>3 DEF Collects
      <3>4. QED BY <1>2, <2>2, <3>2, <3>3
    <2>3. n \in Nat /\ \A k \in 1 .. n : z[k - 1] = v[k - 1] => z[k] = v[k]
      BY <1>1, <2>2
    <2>4. Alike(z, v, n)
      BY <2>1, <2>3 DEF Alike
    <2> HIDE DEF n
    <2>5. \A k \in 0 .. n : z[k] = v[k]
      BY <2>3, <2>4, AlikeSame
    <2>6. QED BY <2>3, <2>5
  <1> DEFINE A == v[n]
             f == [k \in 0 .. m |-> z[n + k]]
             g == [k \in 0 .. m |-> A * TenTo[k] + w[k]]
  <1>8. A \in Nat /\ w \in [Nat -> Nat]
    BY <1>1, <1>3, <1>4 DEF Collects
  <1>9. f[0] = g[0]
    <2>1. A * TenTo[0] + w[0] = A
      <3>1. TenTo[0] = 1 /\ w[0] = 0
        BY <1>4, TenToIs DEF Collects
      <3> HIDE DEF A
      <3>2. QED BY <1>8, <3>1
    <2>2. n + 0 = n
      BY <1>1
    <2>3. f[0] = z[n + 0] /\ g[0] = A * TenTo[0] + w[0]
      BY <1>1
    <2>4. QED BY <1>7, <2>1, <2>2, <2>3
  <1>10. ASSUME NEW k \in 1 .. m, f[k - 1] = g[k - 1] PROVE f[k] = g[k]
    <2>1. n + k \in 1 .. Len(c) /\ (n + k) - 1 = n + (k - 1) /\ k - 1 \in 0 .. m
      BY <1>1
    <2>2. z[n + k] = 10 * z[n + (k - 1)] + ValueOf(u[k])
      <3>1. z[n + k] = 10 * z[(n + k) - 1] + ValueOf(c[n + k])
        BY <1>5, <2>1 DEF Collects
      <3>2. QED BY <1>2, <2>1, <3>1
    <2>3. w[k] = 10 * w[k - 1] + ValueOf(u[k])
      BY <1>4 DEF Collects
    <2>4. TenTo[k] = 10 * TenTo[k - 1] /\ TenTo[k - 1] \in Nat
      <3>1. k - 1 \in Nat /\ (k - 1) + 1 = k
        BY <1>1
      <3>2. QED BY <3>1, TenToIs
    <2>5. A * TenTo[k] = 10 * (A * TenTo[k - 1]) /\ A * TenTo[k - 1] \in Nat
      <3> DEFINE T == TenTo[k - 1]
      <3> HIDE DEF A, T
      <3>1. QED BY <1>8, <2>4, TenTimes DEF T
    <2>6. f[k - 1] = z[n + (k - 1)] /\ g[k - 1] = A * TenTo[k - 1] + w[k - 1]
      BY <2>1
    <2>7. f[k] = z[n + k] /\ g[k] = A * TenTo[k] + w[k]
      OBVIOUS
    <2>8. ValueOf(u[k]) \in 0 .. 9
      <3>1. u[k] \in isdigit
        OBVIOUS
      <3>2. QED BY <3>1, ValueOfDigit
    <2>9. w[k - 1] \in Nat
      <3>1. k - 1 \in Nat
        BY <1>1
      <3>2. QED BY <1>8, <3>1
    <2> DEFINE P == A * TenTo[k - 1]
               Q == A * TenTo[k]
               x == ValueOf(u[k])
    <2>10. Q = 10 * P /\ P \in Nat /\ x \in Nat
      BY <2>5, <2>8
    <2>11. f[k - 1] = P + w[k - 1] /\ f[k] = 10 * f[k - 1] + x
      BY <1>10, <2>2, <2>6, <2>7
    <2>12. g[k] = Q + (10 * w[k - 1] + x)
      BY <2>3, <2>7
    <2> HIDE DEF P, Q, x, f, g
    <2>13. QED BY <2>9, <2>10, <2>11, <2>12
  <1>11. f[m] = z[n + m] /\ g[m] = A * TenTo[m] + w[m]
    BY <1>1
  <1>12. f[m] = g[m]
    <2>1. m \in Nat /\ \A k \in 1 .. m : f[k - 1] = g[k - 1] => f[k] = g[k]
      BY <1>1, <1>10
    <2> HIDE DEF f, g, m
    <2>2. Alike(f, g, m)
      BY <1>9, <2>1 DEF Alike
    <2>3. \A k \in 0 .. m : f[k] = g[k]
      BY <2>1, <2>2, AlikeSame
    <2>4. QED BY <2>1, <2>3
  <1>13. QED BY <1>6, <1>11, <1>12 DEF c

\* So many digits are worth less than ten to so many.
LEMMA ValueBelow ==
  ASSUME NEW s \in Seq(isdigit)
  PROVE  ValueIn(s) \in 0 .. TenTo[Len(s)] - 1
  <1>1. PICK v : Collects(s, v)
    BY CollectsExists
  <1>2. Len(s) \in Nat /\ ValueIn(s) = v[Len(s)]
    BY <1>1, ValueFound
  <1> DEFINE Bad == {k \in 0 .. Len(s) : ~(v[k] < TenTo[k])}
  <1>3. Bad = {}
    <2> SUFFICES ASSUME Bad # {} PROVE FALSE
      OBVIOUS
    <2>1. PICK m \in Bad : \A k \in Bad : m <= k
      <3>1. Bad \subseteq Nat
        BY <1>2
      <3> HIDE DEF Bad
      <3>2. QED BY <3>1, LeastNumber
    <2>2. m # 0
      BY <1>1, <1>2, <2>1, TenToIs DEF Collects
    <2>3. m \in 1 .. Len(s) /\ m - 1 \in 0 .. Len(s) /\ m - 1 \in Nat /\ (m - 1) + 1 = m
      BY <1>2, <2>1, <2>2
    <2>4. v[m - 1] < TenTo[m - 1]
      <3>1. m - 1 \notin Bad
        BY <2>1, <2>3
      <3>2. QED BY <2>3, <3>1
    <2>5. v[m] = 10 * v[m - 1] + ValueOf(s[m]) /\ v[m - 1] \in Nat
      BY <1>1, <2>3 DEF Collects
    <2>6. TenTo[m] = 10 * TenTo[m - 1] /\ TenTo[m - 1] \in Nat
      BY <2>3, TenToIs
    <2>7. ValueOf(s[m]) \in 0 .. 9
      <3>1. s[m] \in isdigit
        BY <2>3
      <3>2. QED BY <3>1, ValueOfDigit
    <2> DEFINE x == v[m - 1]
               y == TenTo[m - 1]
               d == ValueOf(s[m])
    <2>8. v[m] < TenTo[m]
      <3>1. v[m] = 10 * x + d /\ TenTo[m] = 10 * y
        BY <2>5, <2>6
      <3>2. x \in Nat /\ y \in Nat /\ d \in 0 .. 9 /\ x < y
        BY <2>4, <2>5, <2>6, <2>7
      <3> HIDE DEF x, y, d
      <3>3. QED BY ONLY <3>1, <3>2
    <2>9. QED BY <2>1, <2>8
  <1>4. v[Len(s)] < TenTo[Len(s)] /\ v[Len(s)] \in Nat /\ TenTo[Len(s)] \in Nat
    <2>1. v[Len(s)] \in Nat /\ TenTo[Len(s)] \in Nat
      BY <1>1, <1>2, TenToIs DEF Collects
    <2>2. Len(s) \notin Bad /\ Len(s) \in 0 .. Len(s)
      BY <1>2, <1>3
    <2>3. QED BY <2>1, <2>2
  <1>5. QED BY <1>2, <1>4

LEMMA Halves ==
  ASSUME NEW s \in Seq(isdigit), NEW n \in 0 .. Len(s)
  PROVE  /\ SubSeq(s, 1, n) \in Seq(isdigit) /\ Len(SubSeq(s, 1, n)) = n
         /\ SubSeq(s, n + 1, Len(s)) \in Seq(isdigit)
         /\ Len(SubSeq(s, n + 1, Len(s))) = Len(s) - n
         /\ s = SubSeq(s, 1, n) \o SubSeq(s, n + 1, Len(s))
  <1> DEFINE l == SubSeq(s, 1, n)
             r == SubSeq(s, n + 1, Len(s))
  <1>1. Len(l) = n /\ \A i \in 1 .. n : l[i] = s[i]
    OBVIOUS
  <1>2. Len(r) = Len(s) - n /\ \A i \in 1 .. Len(s) - n : r[i] = s[n + i]
    BY Z3T(30)
  <1>3. l \in Seq(isdigit) /\ r \in Seq(isdigit)
    OBVIOUS
  <1>4. s = l \o r
    <2>1. n \in Nat /\ n <= Len(s) /\ Len(s) \in Nat
      OBVIOUS
    <2> HIDE DEF l, r
    <2> DEFINE w == l \o r
    <2>2. Len(w) = Len(l) + Len(r)
      BY <1>3, ConcatProperties
    <2>3. Len(w) = Len(s)
      <3> HIDE DEF w
      <3>1. QED BY <1>1, <1>2, <2>1, <2>2
    <2>4. ASSUME NEW i \in 1 .. Len(s) PROVE (l \o r)[i] = s[i]
      <3>1. CASE i <= n
        BY <1>1, <1>2, <1>3, <2>1, <3>1
      <3>2. CASE i > n
        <4>1. i - n \in 1 .. Len(r) /\ n + (i - n) = i
          BY <1>2, <2>1, <3>2
        <4>2. (l \o r)[i] = r[i - n]
          BY <1>1, <1>2, <1>3, <2>1, <3>2
        <4>3. QED BY <1>2, <4>1, <4>2
      <3>3. i <= n \/ i > n
        BY <2>1
      <3>4. QED BY <3>1, <3>2, <3>3
    <2>5. l \o r \in Seq(isdigit)
      BY <1>3
    <2>6. QED BY <2>3, <2>4, <2>5, SeqEqual
  <1>5. QED BY <1>1, <1>2, <1>3, <1>4

\* The two integers hold all the digits.
LEMMA FractionIs ==
  ASSUME NEW s \in Seq(isdigit)
  PROVE  Fraction(s) = ValueIn(s)
  <1> DEFINE n == Len(s) - HalfDigits
             l == SubSeq(s, 1, n)
             r == SubSeq(s, n + 1, Len(s))
  <1>1. CASE n <= 0
    BY <1>1 DEF Fraction
  <1>2. CASE ~(n <= 0)
    <2>1. n \in 0 .. Len(s) /\ Len(s) - n = HalfDigits
      BY <1>2, NumbersAssumption
    <2> HIDE DEF n
    <2>2. l \in Seq(isdigit) /\ r \in Seq(isdigit) /\ Len(r) = HalfDigits /\ s = l \o r
      BY <2>1, Halves
    <2>3. Fraction(s) = ValueIn(l) * TenTo[HalfDigits] + ValueIn(r)
      BY <1>2 DEF Fraction, n
    <2> HIDE DEF l, r
    <2>4. ValueIn(l \o r) = ValueIn(l) * TenTo[Len(r)] + ValueIn(r)
      BY <2>2, ValueJoins
    <2>5. QED BY <2>2, <2>3, <2>4
  <1>3. QED BY <1>1, <1>2

\* Digits that are dropped are divided away.
LEMMA DroppedIs ==
  ASSUME NEW s \in Seq(isdigit), NEW n \in 0 .. Len(s)
  PROVE  ValueIn(s) \div TenTo[Len(s) - n] = ValueIn(SubSeq(s, 1, n))
  <1> DEFINE l == SubSeq(s, 1, n)
             r == SubSeq(s, n + 1, Len(s))
             T == TenTo[Len(s) - n]
  <1>1. l \in Seq(isdigit) /\ r \in Seq(isdigit) /\ Len(r) = Len(s) - n /\ s = l \o r
    BY Halves
  <1>2. Len(s) - n \in Nat /\ Len(l) \in Nat
    BY <1>1
  <1>3. T \in Nat \ {0} /\ TenTo[Len(l)] \in Nat
    BY <1>2, TenToIs
  <1> HIDE DEF l, r
  <1>4. ValueIn(s) = ValueIn(l) * T + ValueIn(r)
    BY <1>1, ValueJoins
  <1>5. ValueIn(l) \in Nat /\ ValueIn(r) \in 0 .. T - 1
    <2>1. ValueIn(l) \in 0 .. TenTo[Len(l)] - 1 /\ ValueIn(r) \in 0 .. TenTo[Len(r)] - 1
      BY <1>1, ValueBelow
    <2>2. QED BY <1>1, <1>3, <2>1
  <1> DEFINE x == ValueIn(l)
             y == ValueIn(r)
  <1> HIDE DEF T, x, y
  <1>6. x \in Nat /\ y \in 0 .. T - 1 /\ ValueIn(s) = T * x + y /\ T * x + y \in Int
    <2>1. x \in Nat /\ y \in 0 .. T - 1
      BY <1>5 DEF x, y
    <2>2. ValueIn(s) = x * T + y
      BY <1>4 DEF x, y
    <2>3. x * T = T * x /\ T * x \in Int
      BY <1>3, <2>1
    <2>4. QED BY <2>1, <2>2, <2>3
  <1>7. (T * x + y) \div T = x
    <2> DEFINE z == T * x + y
    <2>1. z \in Int /\ z = T * x + y
      BY <1>6
    <2>0. T \in Nat \ {0} /\ x \in Int /\ y \in 0 .. T - 1
      BY <1>3, <1>6
    <2> HIDE DEF z
    <2>2. z \div T = x
      BY ONLY <2>0, <2>1, DivUnique
    <2>3. QED BY <2>2 DEF z
  <1>8. QED BY <1>6, <1>7 DEF T, x, l

LEMMA Classes ==
  /\ isdigit = {"0", "1", "2", "3", "4", "5", "6", "7", "8", "9"}
  /\ \A c \in {".", "e", "-", "+", "NUL", " "} : c \notin isdigit
  /\ \A c \in {".", "e", "NUL"} : c \notin {"-", "+"}
  /\ "NUL" \notin isspace
  <1>1. isdigit = {"0", "1", "2", "3", "4", "5", "6", "7", "8", "9"}
    <2>1. \A d \in 1 .. 10 : \/ d = 1 \/ d = 2 \/ d = 3 \/ d = 4 \/ d = 5
                             \/ d = 6 \/ d = 7 \/ d = 8 \/ d = 9 \/ d = 10
      OBVIOUS
    <2>2. /\ Digits[1] = "0" /\ Digits[2] = "1" /\ Digits[3] = "2" /\ Digits[4] = "3"
          /\ Digits[5] = "4" /\ Digits[6] = "5" /\ Digits[7] = "6" /\ Digits[8] = "7"
          /\ Digits[9] = "8" /\ Digits[10] = "9"
      BY DEF Digits
    <2>3. QED BY <2>1, <2>2 DEF isdigit
  <1>2. QED BY <1>1 DEF isspace

\* Where strtod finds the end of the blanks, of the sign, of the integer, of the
\* mantissa, of the sign of the exponent, and of the number.
Signs == {"-", "+"}
Marks(t, s, p, i, m, q, x) ==
  /\ EndsAt(t, 0, isspace, s)
  /\ p = IF At(t, s) \in Signs THEN s + 1 ELSE s
  /\ EndsAt(t, p, isdigit, i)
  /\ IF At(t, i) = "." THEN EndsAt(t, i + 1, isdigit, m) ELSE m = i
  /\ q = IF At(t, m + 1) \in Signs THEN m + 2 ELSE m + 1
  /\ IF At(t, m) = "e" THEN EndsAt(t, q, isdigit, x) ELSE x = m

\* They come in this order, inside the text.
InOrder(t, s, p, i, m, q, x) ==
  /\ s \in Nat /\ p \in Nat /\ i \in Nat /\ m \in Nat /\ q \in Nat /\ x \in Nat
  /\ s <= p /\ p <= s + 1 /\ p <= i /\ i <= m /\ m < q /\ m <= x /\ x <= Len(t)
  /\ At(t, i) = "." => i < m
  /\ At(t, m) = "e" => q <= x

LEMMA Within ==
  ASSUME NEW t \in Seq(STRING), NEW p \in Nat, At(t, p) # "NUL"
  PROVE  p < Len(t)
  BY DEF At

LEMMA MarksFound ==
  ASSUME NEW t \in Seq(STRING), NEW s, NEW p, NEW i, NEW m, NEW q, NEW x,
         s = Skip(t, 0, isspace),
         p = IF At(t, s) \in Signs THEN s + 1 ELSE s,
         i = Skip(t, p, isdigit),
         m = IF At(t, i) = "." THEN Skip(t, i + 1, isdigit) ELSE i,
         q = IF At(t, m + 1) \in Signs THEN m + 2 ELSE m + 1,
         x = IF At(t, m) = "e" THEN Skip(t, q, isdigit) ELSE m
  PROVE  Marks(t, s, p, i, m, q, x) /\ InOrder(t, s, p, i, m, q, x)
  <1>1. Len(t) \in Nat
    OBVIOUS
  <1>2. EndsAt(t, 0, isspace, s) /\ s \in Nat /\ s <= Len(t)
    <2>1. EndsAt(t, 0, isspace, s) /\ (0 <= Len(t) => s <= Len(t))
      BY ONLY 0 \in Nat, t \in Seq(STRING), s = Skip(t, 0, isspace), Classes, SkipEnds
    <2>2. QED BY <1>1, <2>1 DEF EndsAt
  <1>3. p \in Nat /\ s <= p /\ p <= s + 1 /\ p <= Len(t)
    <2>1. CASE At(t, s) \in Signs
      <3>1. At(t, s) # "NUL"
        BY <2>1 DEF Signs
      <3>2. s < Len(t)
        BY <1>2, <3>1, Within
      <3>3. QED BY <1>1, <1>2, <2>1, <3>2
    <2>2. CASE At(t, s) \notin Signs
      BY <1>2, <2>2
    <2>3. QED BY <2>1, <2>2
  <1>4. EndsAt(t, p, isdigit, i) /\ i \in Nat /\ p <= i /\ i <= Len(t)
    <2>1. EndsAt(t, p, isdigit, i) /\ (p <= Len(t) => i <= Len(t))
      BY ONLY <1>3, t \in Seq(STRING), i = Skip(t, p, isdigit), Classes, SkipEnds
    <2>2. QED BY <1>3, <2>1 DEF EndsAt
  <1>5. /\ IF At(t, i) = "." THEN EndsAt(t, i + 1, isdigit, m) ELSE m = i
        /\ m \in Nat /\ i <= m /\ m <= Len(t) /\ (At(t, i) = "." => i < m)
    <2>1. CASE At(t, i) = "."
      <3>1. i < Len(t)
        BY <1>4, <2>1, Within
      <3>2. i + 1 \in Nat /\ i + 1 <= Len(t)
        BY <1>1, <1>4, <3>1
      <3>3. m = Skip(t, i + 1, isdigit)
        BY <2>1
      <3> DEFINE k == i + 1
      <3>4. EndsAt(t, k, isdigit, m) /\ m <= Len(t)
        <4>1. k \in Nat /\ k <= Len(t) /\ m = Skip(t, k, isdigit)
          BY <3>2, <3>3
        <4> HIDE DEF k
        <4>2. QED BY ONLY <4>1, t \in Seq(STRING), Classes, SkipEnds
      <3>5. QED BY <1>4, <2>1, <3>4 DEF EndsAt
    <2>2. CASE At(t, i) # "."
      BY <1>4, <2>2
    <2>3. QED BY <2>1, <2>2
  <1>6. q \in Nat /\ m < q
    BY <1>5
  <1>7. /\ IF At(t, m) = "e" THEN EndsAt(t, q, isdigit, x) ELSE x = m
        /\ x \in Nat /\ m <= x /\ x <= Len(t) /\ (At(t, m) = "e" => q <= x)
    <2>1. CASE At(t, m) = "e"
      <3>1. m < Len(t)
        BY <1>5, <2>1, Within
      <3>2. q <= Len(t)
        <4>1. CASE At(t, m + 1) \in Signs
          <5>1. At(t, m + 1) # "NUL" /\ m + 1 \in Nat
            BY <1>5, <4>1 DEF Signs
          <5>2. m + 1 < Len(t)
            BY <5>1, Within
          <5>3. QED BY <1>1, <1>5, <4>1, <5>2
        <4>2. CASE At(t, m + 1) \notin Signs
          BY <1>1, <1>5, <3>1, <4>2
        <4>3. QED BY <4>1, <4>2
      <3>3. x = Skip(t, q, isdigit)
        BY <2>1
      <3>4. EndsAt(t, q, isdigit, x) /\ x <= Len(t)
        BY ONLY <1>6, <3>2, <3>3, t \in Seq(STRING), Classes, SkipEnds
      <3>5. QED BY <1>5, <1>6, <2>1, <3>4 DEF EndsAt
    <2>2. CASE At(t, m) # "e"
      BY <1>5, <2>2
    <2>3. QED BY <2>1, <2>2
  <1>8. Marks(t, s, p, i, m, q, x)
    BY <1>2, <1>4, <1>5, <1>7 DEF Marks
  <1>9. InOrder(t, s, p, i, m, q, x)
    BY <1>2, <1>3, <1>4, <1>5, <1>6, <1>7 DEF InOrder
  <1>10. QED BY <1>8, <1>9

\* The division of the text at these places.
Division10(t, s, p, i, m, q, x) ==
  [blanks |-> s, sign |-> p - s, integer |-> i - p, fraction |-> m - i,
   exponent |-> IF At(t, m) = "e" /\ q < x THEN x - m ELSE 0]

LEMMA BlanksAre ==
  ASSUME NEW t \in Seq(STRING), NEW s \in Nat, EndsAt(t, 0, isspace, s), s <= Len(t)
  PROVE  Blanks(t) = s
  <1>1. s \in 0 .. Len(t) /\ Are(isspace, t, 0, s) /\ At(t, s) \notin isspace
    BY DEF EndsAt, Are
  <1>2. ASSUME NEW b \in 0 .. Len(t), Are(isspace, t, 0, b), At(t, b) \notin isspace
        PROVE  b = s
    BY <1>2, EndsOnce
  <1> DEFINE P(b) == Are(isspace, t, 0, b) /\ At(t, b) \notin isspace
  <1>3. s \in 0 .. Len(t) /\ P(s) /\ \A b \in 0 .. Len(t) : P(b) => b = s
    BY <1>1, <1>2
  <1>4. Blanks(t) = CHOOSE b \in 0 .. Len(t) : P(b)
    BY DEF Blanks
  <1> HIDE DEF P
  <1>5. QED BY <1>3, <1>4

\* Every other number the text begins with ends earlier.
LEMMA Longest ==
  ASSUME NEW t \in Seq(STRING), NEW s, NEW p, NEW i, NEW m, NEW q, NEW x,
         Marks(t, s, p, i, m, q, x), InOrder(t, s, p, i, m, q, x),
         NEW d \in Floats10(t)
  PROVE  /\ NumberEnd(d) < (IF At(t, m) = "e" /\ q < x THEN x ELSE m)
              \/ d = Division10(t, s, p, i, m, q, x)
         /\ p < i \/ i + 1 < m
  <1>1. /\ d.blanks = s /\ d.sign \in {0, 1} /\ d.integer \in Nat /\ d.fraction \in Nat
        /\ d.exponent \in Nat /\ IsFloat(t, d)
        /\ d = [blanks |-> d.blanks, sign |-> d.sign, integer |-> d.integer,
                fraction |-> d.fraction, exponent |-> d.exponent]
    <2>1. Blanks(t) = s
      BY BlanksAre DEF Marks, InOrder
    <2>2. Len(t) \in Nat
      OBVIOUS
    <2>3. QED BY <2>1, <2>2 DEF Floats10
  <1> DEFINE g == d.sign
             n == d.integer
             f == d.fraction
             w == d.exponent
             a == SignEnd(d)
             b == IntegerEnd(d)
             c == MantissaEnd(d)
             e == NumberEnd(d)
             y == ExponentDigits(t, d)
             Top == IF At(t, m) = "e" /\ q < x THEN x ELSE m
  <1>0. g \in {0, 1} /\ n \in Nat /\ f \in Nat /\ w \in Nat
    BY <1>1
  <1>2. /\ a = s + g /\ b = a + n /\ c = b + f /\ e = c + w
        /\ a \in Nat /\ b \in Nat /\ c \in Nat /\ e \in Nat
        /\ a <= b /\ b <= c /\ c <= e
    <2>1. a = s + g /\ b = a + n /\ c = b + f /\ e = c + w
      BY <1>1 DEF SignEnd, IntegerEnd, MantissaEnd, NumberEnd
    <2>2. s \in Nat
      BY DEF InOrder
    <2> HIDE DEF g, n, f, w, a, b, c, e
    <2>3. QED BY <1>0, <2>1, <2>2
  <1>3. y = c + (IF At(t, c + 1) \in Signs THEN 2 ELSE 1) /\ y \in Nat
    BY <1>2 DEF ExponentDigits, Signs
  <1>4. /\ \A k \in s .. a - 1 : At(t, k) \in Signs
        /\ \A k \in a .. b - 1 : At(t, k) \in isdigit
        /\ f > 0 => /\ At(t, b) = "."
                             /\ \A k \in b + 1 .. c - 1 : At(t, k) \in isdigit
        /\ n > 0 \/ f > 1
        /\ w > 0 => /\ At(t, c) = "e" /\ y < e
                             /\ \A k \in y .. e - 1 : At(t, k) \in isdigit
    BY <1>1 DEF IsFloat, Are, Signs
  <1> HIDE DEF g, n, f, w, a, b, c, e, y
  <1>5. /\ s \in Nat /\ p \in Nat /\ i \in Nat /\ m \in Nat /\ q \in Nat /\ x \in Nat
        /\ s <= p /\ p <= s + 1 /\ p <= i /\ i <= m /\ m < q /\ m <= x
        /\ At(t, i) = "." => i < m
        /\ At(t, m) = "e" => q <= x
    BY DEF InOrder
  <1>6. /\ p = IF At(t, s) \in Signs THEN s + 1 ELSE s
        /\ At(t, i) \notin isdigit /\ \A k \in p .. i - 1 : At(t, k) \in isdigit
        /\ At(t, i) = "." => /\ At(t, m) \notin isdigit
                             /\ \A k \in i + 1 .. m - 1 : At(t, k) \in isdigit
        /\ At(t, i) # "." => m = i
        /\ q = IF At(t, m + 1) \in Signs THEN m + 2 ELSE m + 1
        /\ At(t, m) = "e" => /\ At(t, x) \notin isdigit
                             /\ \A k \in q .. x - 1 : At(t, k) \in isdigit
        /\ At(t, m) # "e" => x = m
    BY DEF Marks, EndsAt
  <1>7. "." \notin isdigit /\ "e" \notin isdigit /\ "." \notin Signs
        /\ \A k \in Signs : k \notin isdigit
    BY Classes DEF Signs
  <1>8. a = p
    <2>1. CASE g = 0
      <3>1. a = s
        BY <1>0, <1>2, <1>5, <2>1
      <3>2. At(t, s) \notin Signs
        <4>1. At(t, s) \in isdigit \/ At(t, s) = "."
          <5>1. CASE n > 0
            <6>1. s \in a .. b - 1
              BY <1>0, <1>2, <1>5, <3>1, <5>1
            <6>2. QED BY <1>4, <6>1
          <5>2. CASE ~(n > 0)
            <6>1. b = s /\ f > 0
              BY <1>0, <1>2, <1>4, <1>5, <3>1, <5>2
            <6>2. QED BY <1>4, <6>1
          <5>3. QED BY <5>1, <5>2
        <4>2. QED BY <1>7, <4>1
      <3>3. QED BY <1>6, <3>1, <3>2
    <2>2. CASE g = 1
      <3>1. a = s + 1 /\ s \in s .. a - 1
        BY <1>2, <1>5, <2>2
      <3>2. QED BY <1>4, <1>6, <3>1
    <2>3. QED BY <1>0, <2>1, <2>2
  <1>9. b <= i
    <2>1. ~(i \in a .. b - 1)
      BY <1>4, <1>6
    <2>2. QED BY <1>2, <1>5, <1>8, <2>1
  <1>10. CASE b < i
    <2>1. At(t, b) \in isdigit
      <3>1. b \in p .. i - 1
        BY <1>2, <1>5, <1>8, <1>10
      <3>2. QED BY <1>6, <3>1
    <2>2. f = 0 /\ c = b
      <3>1. ~(f > 0)
        BY <1>4, <1>7, <2>1
      <3>2. QED BY <1>0, <1>2, <3>1
    <2>3. w = 0 /\ e = c
      <3>1. ~(w > 0)
        BY <1>4, <1>7, <2>1, <2>2
      <3>2. QED BY <1>0, <1>2, <3>1
    <2>4. e < m /\ m <= Top /\ Top \in Nat /\ p < i
      BY <1>2, <1>5, <1>8, <1>10, <2>2, <2>3
    <2> HIDE DEF Top
    <2>5. e < Top
      BY <1>2, <1>5, <2>4
    <2>6. QED BY <2>4, <2>5 DEF Top, e
  <1>11. CASE b = i
    <2>1. p < i \/ i + 1 < m
      <3>1. CASE n > 0
        BY <1>0, <1>2, <1>5, <1>8, <1>11, <3>1
      <3>2. CASE f > 1
        <4>1. At(t, i) = "." /\ \A k \in i + 1 .. c - 1 : At(t, k) \in isdigit
          BY <1>0, <1>4, <1>11, <3>2
        <4>2. i + 1 \in i + 1 .. c - 1
          BY <1>0, <1>2, <1>5, <1>11, <3>2
        <4>3. At(t, i + 1) \in isdigit
          BY <4>1, <4>2
        <4>4. m # i + 1 /\ i < m
          BY <1>5, <1>6, <4>1, <4>3
        <4>5. QED BY <1>5, <4>4
      <3>3. QED BY <1>4, <3>1, <3>2
    <2>2. c <= m
      <3>1. CASE f > 0
        <4>1. At(t, i) = "." /\ \A k \in i + 1 .. c - 1 : At(t, k) \in isdigit
          BY <1>4, <1>11, <3>1
        <4>2. At(t, m) \notin isdigit /\ i < m
          BY <1>5, <1>6, <4>1
        <4>3. ~(m \in i + 1 .. c - 1)
          BY <4>1, <4>2
        <4>4. QED BY <1>2, <1>5, <4>2, <4>3
      <3>2. CASE ~(f > 0)
        BY <1>0, <1>2, <1>5, <1>11, <3>2
      <3>3. QED BY <3>1, <3>2
    <2>3. CASE c < m
      <3>1. At(t, c) = "." \/ At(t, c) \in isdigit
        <4>1. At(t, i) = "."
          BY <1>2, <1>5, <1>6, <1>11, <2>3
        <4>2. CASE c = i
          BY <4>1, <4>2
        <4>3. CASE c # i
          <5>1. c \in i + 1 .. m - 1
            BY <1>2, <1>5, <1>11, <2>3, <4>3
          <5>2. QED BY <1>6, <4>1, <5>1
        <4>4. QED BY <4>2, <4>3
      <3>2. w = 0 /\ e = c
        <4>1. ~(w > 0)
          BY <1>4, <1>7, <3>1
        <4>2. QED BY <1>0, <1>2, <4>1
      <3>3. e < m /\ m <= Top /\ Top \in Nat
        BY <1>2, <1>5, <2>3, <3>2
      <3> HIDE DEF Top
      <3>4. e < Top
        BY <1>2, <1>5, <3>3
      <3>5. QED BY <2>1, <3>4 DEF Top, e
    <2>4. CASE c = m
      <3>1. y = q
        BY <1>3, <1>5, <1>6, <2>4
      <3>2. CASE w = 0
        <4>1. e = m
          BY <1>2, <1>5, <2>4, <3>2
        <4>2. CASE At(t, m) = "e" /\ q < x
          <5>1. e < x
            BY <1>5, <4>1, <4>2
          <5>2. QED BY <2>1, <4>2, <5>1 DEF e
        <4>3. CASE ~(At(t, m) = "e" /\ q < x)
          <5>1. g = p - s /\ n = i - p /\ f = m - i
            BY <1>0, <1>2, <1>5, <1>8, <1>11, <2>4
          <5>2. d = Division10(t, s, p, i, m, q, x)
            BY <1>1, <3>2, <4>3, <5>1 DEF Division10, g, n, f, w
          <5>3. QED BY <2>1, <5>2
        <4>4. QED BY <4>2, <4>3
      <3>3. CASE w # 0
        <4>1. w > 0
          BY <1>0, <3>3
        <4>2. At(t, m) = "e" /\ q < e /\ \A k \in q .. e - 1 : At(t, k) \in isdigit
          BY <1>4, <2>4, <3>1, <4>1
        <4>3. At(t, x) \notin isdigit /\ q <= x
          BY <1>5, <1>6, <4>2
        <4>4. e <= x
          <5>1. ~(x \in q .. e - 1)
            BY <4>2, <4>3
          <5>2. QED BY <1>2, <1>5, <4>3, <5>1
        <4>5. q < x
          BY <1>2, <1>5, <4>2, <4>4
        <4>6. CASE e < x
          BY <2>1, <4>2, <4>5, <4>6 DEF e
        <4>7. CASE e = x
          <5>1. /\ g = p - s /\ n = i - p /\ f = m - i
                /\ w = x - m
            BY <1>0, <1>2, <1>5, <1>8, <1>11, <2>4, <4>7
          <5>2. d = Division10(t, s, p, i, m, q, x)
            BY <1>1, <4>2, <4>5, <5>1 DEF Division10, g, n, f, w
          <5>3. QED BY <2>1, <5>2
        <4>8. QED BY <1>2, <1>5, <4>4, <4>6, <4>7
      <3>4. QED BY <3>2, <3>3
    <2>5. QED BY <1>2, <1>5, <2>2, <2>3, <2>4
  <1>12. QED BY <1>2, <1>5, <1>9, <1>10, <1>11

LEMMA EndIsNat ==
  ASSUME NEW t \in Seq(STRING), NEW s \in Nat, EndsAt(t, 0, isspace, s), s <= Len(t),
         NEW d \in Floats10(t)
  PROVE  NumberEnd(d) \in Nat
  <1>1. Blanks(t) = s /\ Len(t) \in Nat
    BY BlanksAre
  <1> DEFINE a == d.blanks
             g == d.sign
             n == d.integer
             f == d.fraction
             w == d.exponent
  <1>2. a = s /\ g \in {0, 1} /\ n \in Nat /\ f \in Nat /\ w \in Nat
    BY <1>1 DEF Floats10
  <1>3. NumberEnd(d) = (((a + g) + n) + f) + w
    BY DEF SignEnd, IntegerEnd, MantissaEnd, NumberEnd
  <1> HIDE DEF a, g, n, f, w
  <1>4. QED BY <1>2, <1>3

LEMMA DivisionIs ==
  ASSUME NEW t, NEW s, NEW p, NEW i, NEW m, NEW q, NEW x,
         Marks(t, s, p, i, m, q, x), InOrder(t, s, p, i, m, q, x),
         NEW d, d = Division10(t, s, p, i, m, q, x)
  PROVE  /\ d.blanks = s /\ d.sign = p - s /\ d.integer = i - p /\ d.fraction = m - i
         /\ d.exponent = IF At(t, m) = "e" /\ q < x THEN x - m ELSE 0
         /\ SignEnd(d) = p /\ IntegerEnd(d) = i /\ MantissaEnd(d) = m
         /\ NumberEnd(d) = (IF At(t, m) = "e" /\ q < x THEN x ELSE m)
         /\ ExponentDigits(t, d) = q
  <1>1. /\ d.blanks = s /\ d.sign = p - s /\ d.integer = i - p /\ d.fraction = m - i
        /\ d.exponent = IF At(t, m) = "e" /\ q < x THEN x - m ELSE 0
    BY DEF Division10
  <1>2. SignEnd(d) = p /\ IntegerEnd(d) = i /\ MantissaEnd(d) = m
    BY <1>1 DEF InOrder, SignEnd, IntegerEnd, MantissaEnd
  <1>3. NumberEnd(d) = (IF At(t, m) = "e" /\ q < x THEN x ELSE m)
    BY <1>1, <1>2 DEF InOrder, NumberEnd
  <1>4. ExponentDigits(t, d) = q
    BY <1>2 DEF InOrder, ExponentDigits, Marks, Signs
  <1>5. QED BY <1>1, <1>2, <1>3, <1>4

\* With a digit it is a number.
LEMMA DivisionIsFloat ==
  ASSUME NEW t \in Seq(STRING), NEW s, NEW p, NEW i, NEW m, NEW q, NEW x,
         Marks(t, s, p, i, m, q, x), InOrder(t, s, p, i, m, q, x),
         p < i \/ i + 1 < m
  PROVE  Division10(t, s, p, i, m, q, x) \in Floats10(t)
  <1> DEFINE d == Division10(t, s, p, i, m, q, x)
  <1>1. /\ d.blanks = s /\ d.sign = p - s /\ d.integer = i - p /\ d.fraction = m - i
        /\ d.exponent = IF At(t, m) = "e" /\ q < x THEN x - m ELSE 0
        /\ SignEnd(d) = p /\ IntegerEnd(d) = i /\ MantissaEnd(d) = m
        /\ NumberEnd(d) = (IF At(t, m) = "e" /\ q < x THEN x ELSE m)
        /\ ExponentDigits(t, d) = q
    BY DivisionIs
  <1>2. /\ s \in Nat /\ p \in Nat /\ i \in Nat /\ m \in Nat /\ q \in Nat /\ x \in Nat
        /\ s <= p /\ p <= s + 1 /\ p <= i /\ i <= m /\ m < q /\ m <= x /\ x <= Len(t)
        /\ Len(t) \in Nat
    BY DEF InOrder
  <1>3. Blanks(t) = s
    BY <1>2, BlanksAre DEF Marks
  <1>4. d \in [blanks : {Blanks(t)}, sign : {0, 1}, integer : 0 .. Len(t),
               fraction : 0 .. Len(t), exponent : 0 .. Len(t)]
    BY <1>2, <1>3 DEF Division10
  <1> HIDE DEF d
  <1>5. IsFloat(t, d)
    <2>1. NumberEnd(d) <= Len(t)
      BY <1>1, <1>2
    <2>2. Are(isspace, t, 0, d.blanks)
      BY <1>1 DEF Marks, EndsAt, Are
    <2>3. Are({"-", "+"}, t, d.blanks, SignEnd(d))
      <3>1. CASE At(t, s) \in Signs
        <4>1. p = s + 1
          BY <3>1 DEF Marks
        <4>2. QED BY <1>1, <1>2, <3>1, <4>1 DEF Are, Signs
      <3>2. CASE At(t, s) \notin Signs
        <4>1. p = s
          BY <3>2 DEF Marks
        <4>2. QED BY <1>1, <1>2, <4>1 DEF Are
      <3>3. QED BY <3>1, <3>2
    <2>4. Are(isdigit, t, SignEnd(d), IntegerEnd(d))
      BY <1>1 DEF Marks, EndsAt, Are
    <2>5. d.fraction > 0 =>
            At(t, IntegerEnd(d)) = "." /\ Are(isdigit, t, IntegerEnd(d) + 1, MantissaEnd(d))
      BY <1>1, <1>2 DEF Marks, EndsAt, Are
    <2>6. d.integer > 0 \/ d.fraction > 1
      BY <1>1, <1>2
    <2>7. d.exponent > 0 =>
            /\ At(t, MantissaEnd(d)) = "e" /\ ExponentDigits(t, d) < NumberEnd(d)
            /\ Are(isdigit, t, ExponentDigits(t, d), NumberEnd(d))
      <3> SUFFICES ASSUME d.exponent > 0
                   PROVE  /\ At(t, m) = "e" /\ q < NumberEnd(d)
                          /\ Are(isdigit, t, q, NumberEnd(d))
        BY <1>1
      <3>1. At(t, m) = "e" /\ q < x
        BY <1>1
      <3>2. NumberEnd(d) = x
        BY <1>1, <3>1
      <3>3. Are(isdigit, t, q, x)
        BY <3>1 DEF Marks, EndsAt, Are
      <3>4. QED BY <3>1, <3>2, <3>3
    <2>8. QED BY <2>1, <2>2, <2>3, <2>4, <2>5, <2>6, <2>7 DEF IsFloat
  <1>6. QED BY <1>4, <1>5 DEF Floats10, d

LEMMA CutIs ==
  ASSUME NEW t \in Seq(STRING), NEW j \in Nat, NEW k \in Nat, k <= Len(t),
         NEW class, \A n \in j .. k - 1 : At(t, n) \in class
  PROVE  /\ Cut(t, j, k) \in Seq(class)
         /\ Len(Cut(t, j, k)) = IF j < k THEN k - j ELSE 0
  <1> DEFINE l == IF j < k THEN k - j ELSE 0
             c == Cut(t, j, k)
  <1>1. l \in Nat /\ Len(t) \in Nat
    OBVIOUS
  <1>2. c \in Seq(STRING) /\ Len(c) = l /\ \A n \in 1 .. l : c[n] = t[j + n]
    BY DEF Cut
  <1>3. ASSUME NEW n \in 1 .. l PROVE c[n] \in class
    <2>1. j + (n - 1) \in j .. k - 1 /\ j + (n - 1) < Len(t) /\ (j + (n - 1)) + 1 = j + n
      BY <1>1
    <2>2. At(t, j + (n - 1)) = t[j + n]
      BY <2>1 DEF At
    <2> HIDE DEF c, l
    <2>3. QED BY <1>2, <2>1, <2>2
  <1> HIDE DEF c, l
  <1>4. c \in Seq(class)
    BY <1>1, <1>2, <1>3
  <1>5. QED BY <1>2, <1>4 DEF c, l

\* The digits between these places.
DigitsAt(t, p, i, m) == Cut(t, p, i) \o Cut(t, i + 1, m)

LEMMA DigitsFound ==
  ASSUME NEW t \in Seq(STRING), NEW s, NEW p, NEW i, NEW m, NEW q, NEW x,
         Marks(t, s, p, i, m, q, x), InOrder(t, s, p, i, m, q, x)
  PROVE  /\ DigitsAt(t, p, i, m) \in Seq(isdigit)
         /\ Len(DigitsAt(t, p, i, m)) = (i - p) + (IF i < m THEN (m - i) - 1 ELSE 0)
         /\ DigitsAt(t, p, i, m) = <<>> <=> ~(p < i \/ i + 1 < m)
         /\ DigitsAt(t, p, i, m) # <<>> => Cut(t, q, x) \in Seq(isdigit) \/ At(t, m) # "e"
  <1> DEFINE l == Cut(t, p, i)
             r == Cut(t, i + 1, m)
             w == l \o r
  <1>1. /\ p \in Nat /\ i \in Nat /\ m \in Nat /\ q \in Nat /\ x \in Nat
        /\ p <= i /\ i <= m /\ m <= x /\ x <= Len(t) /\ Len(t) \in Nat
    BY DEF InOrder
  <1>2. l \in Seq(isdigit) /\ Len(l) = i - p
    <2>1. \A n \in p .. i - 1 : At(t, n) \in isdigit
      BY DEF Marks, EndsAt
    <2>2. i <= Len(t)
      BY <1>1
    <2>3. Cut(t, p, i) \in Seq(isdigit) /\ Len(Cut(t, p, i)) = IF p < i THEN i - p ELSE 0
      BY <1>1, <2>1, <2>2, CutIs
    <2>4. (IF p < i THEN i - p ELSE 0) = i - p
      BY <1>1
    <2>5. QED BY <2>3, <2>4
  <1>3. r \in Seq(isdigit) /\ Len(r) = IF i < m THEN (m - i) - 1 ELSE 0
    <2> DEFINE j == i + 1
    <2>1. \A n \in j .. m - 1 : At(t, n) \in isdigit
      BY <1>1 DEF Marks, EndsAt
    <2>2. m <= Len(t) /\ j \in Nat
      BY <1>1
    <2>3. (IF j < m THEN m - j ELSE 0) = IF i < m THEN (m - i) - 1 ELSE 0
      BY <1>1
    <2> HIDE DEF j
    <2>4. Cut(t, j, m) \in Seq(isdigit) /\ Len(Cut(t, j, m)) = IF j < m THEN m - j ELSE 0
      BY <1>1, <2>1, <2>2, CutIs
    <2>5. QED BY <2>3, <2>4 DEF j
  <1> HIDE DEF l, r
  <1>4. w \in Seq(isdigit) /\ Len(w) = Len(l) + Len(r)
    BY <1>2, <1>3, ConcatProperties
  <1>5. w = <<>> <=> Len(w) = 0
    <2> HIDE DEF w
    <2>1. QED BY <1>4, EmptySeq
  <1>6. w = DigitsAt(t, p, i, m)
    BY DEF DigitsAt, l, r
  <1> HIDE DEF w
  <1>7. Len(w) = 0 <=> ~(p < i \/ i + 1 < m)
    BY <1>1, <1>2, <1>3, <1>4
  <1>8. At(t, m) = "e" => Cut(t, q, x) \in Seq(isdigit)
    <2>1. At(t, m) = "e" => \A n \in q .. x - 1 : At(t, n) \in isdigit
      BY DEF Marks, EndsAt
    <2>2. QED BY <1>1, <2>1, CutIs
  <1>9. QED BY <1>2, <1>3, <1>4, <1>5, <1>6, <1>7, <1>8

\* What strtod returns, told from these places.
ExponentAt(t, m, q, x) ==
  IF At(t, m) # "e" THEN 0
  ELSE IF At(t, m + 1) = "-" THEN -ValueIn(Cut(t, q, x)) ELSE ValueIn(Cut(t, q, x))
FracExpAt(t, p, i, m) ==
  IF Len(DigitsAt(t, p, i, m)) > MaxDigits THEN (i - p) - MaxDigits
  ELSE (i - p) - Len(DigitsAt(t, p, i, m))
UsedAt(t, p, i, m) ==
  SubSeq(DigitsAt(t, p, i, m), 1,
         IF Len(DigitsAt(t, p, i, m)) > MaxDigits THEN MaxDigits
         ELSE Len(DigitsAt(t, p, i, m)))
InRange(exp) == exp \in -maxExponent .. maxExponent
CutExponent(exp) ==
  IF InRange(exp) THEN exp ELSE IF exp < 0 THEN -maxExponent ELSE maxExponent

ReturnedAt(t, s, p, i, m, q, x) ==
  LET e == FracExpAt(t, p, i, m) + ExponentAt(t, m, q, x) IN
  IF DigitsAt(t, p, i, m) = <<>>
  THEN [negative |-> At(t, s) = "-", double |-> Double(0, 0), end |-> 0,
        range |-> FALSE]
  ELSE [negative |-> At(t, s) = "-",
        double |-> Double(Fraction(UsedAt(t, p, i, m)), CutExponent(e)),
        end |-> x, range |-> ~InRange(e)]

LEMMA StrtodIs ==
  ASSUME NEW t \in Seq(STRING)
  PROVE  \E s, p, i, m, q, x :
           /\ Marks(t, s, p, i, m, q, x) /\ InOrder(t, s, p, i, m, q, x)
           /\ strtod(t) = ReturnedAt(t, s, p, i, m, q, x)
  <1> DEFINE s == Skip(t, 0, isspace)
             p == IF At(t, s) \in Signs THEN s + 1 ELSE s
             i == Skip(t, p, isdigit)
             m == IF At(t, i) = "." THEN Skip(t, i + 1, isdigit) ELSE i
             q == IF At(t, m + 1) \in Signs THEN m + 2 ELSE m + 1
             x == IF At(t, m) = "e" THEN Skip(t, q, isdigit) ELSE m
  <1>1. Marks(t, s, p, i, m, q, x) /\ InOrder(t, s, p, i, m, q, x)
    <2>1. /\ s = Skip(t, 0, isspace)
          /\ p = IF At(t, s) \in Signs THEN s + 1 ELSE s
          /\ i = Skip(t, p, isdigit)
          /\ m = IF At(t, i) = "." THEN Skip(t, i + 1, isdigit) ELSE i
          /\ q = IF At(t, m + 1) \in Signs THEN m + 2 ELSE m + 1
          /\ x = IF At(t, m) = "e" THEN Skip(t, q, isdigit) ELSE m
      OBVIOUS
    <2> HIDE DEF s, p, i, m, q, x
    <2>2. QED BY <2>1, MarksFound
  <1> DEFINE M == Mantissa10(t, p)
             X == Exponent10(t, m)
  <1>2. M = [end |-> m, decPt |-> i - p, digits |-> DigitsAt(t, p, i, m)]
    <2>1. SubSeq(t, (i + 1) + 1, m) = SubSeq(t, i + 2, m)
      <3> HIDE DEF s, p, i, m, q, x
      <3>1. (i + 1) + 1 = i + 2
        BY <1>1 DEF InOrder
      <3>2. QED BY <3>1
    <2>2. i = Skip(t, p, isdigit) /\ m = IF At(t, i) = "." THEN Skip(t, i + 1, isdigit) ELSE i
      OBVIOUS
    <2> HIDE DEF p, i, m
    <2>3. QED BY <2>1, <2>2 DEF Mantissa10, DigitsAt, Cut
  <1>3. X = [end |-> x, exp |-> ExponentAt(t, m, q, x)]
    <2>1. /\ q = IF At(t, m + 1) \in Signs THEN m + 2 ELSE m + 1
          /\ x = IF At(t, m) = "e" THEN Skip(t, q, isdigit) ELSE m
      OBVIOUS
    <2> HIDE DEF m, q, x
    <2>2. QED BY <2>1 DEF Exponent10, ExponentAt, Cut, Signs
  <1>4. /\ M.end = m /\ M.digits = DigitsAt(t, p, i, m)
        /\ FracExp(M) = FracExpAt(t, p, i, m)
        /\ X.end = x /\ X.exp = ExponentAt(t, m, q, x)
    <2> HIDE DEF p, i, m, q, x, M, X
    <2>1. QED BY <1>2, <1>3 DEF FracExp, FracExpAt
  <1>5. strtod(t) = ReturnedAt(t, s, p, i, m, q, x)
    <2>1. strtod(t) =
            LET exp == FracExp(M) + Exponent10(t, M.end).exp
                used == SubSeq(M.digits, 1, IF Len(M.digits) > MaxDigits THEN MaxDigits
                                            ELSE Len(M.digits))
                range == exp \notin -maxExponent .. maxExponent
                cut == IF ~range THEN exp ELSE IF exp < 0 THEN -maxExponent ELSE maxExponent
            IN IF M.digits = <<>>
                 THEN [negative |-> At(t, s) = "-", double |-> Double(0, 0), end |-> 0,
                       range |-> FALSE]
               ELSE [negative |-> At(t, s) = "-", double |-> Double(Fraction(used), cut),
                     end |-> Exponent10(t, M.end).end, range |-> range]
      BY DEF strtod, Signs
    <2>2. Exponent10(t, M.end) = X
      BY <1>4
    <2> HIDE DEF s, p, i, m, q, x, M, X
    <2>3. QED BY <1>4, <2>1, <2>2 DEF UsedAt, CutExponent, InRange, ReturnedAt
  <1> HIDE DEF s, p, i, m, q, x
  <1>6. QED BY <1>1, <1>5

LEMMA ValueIsNat ==
  ASSUME NEW s \in Seq(isdigit)
  PROVE  ValueIn(s) \in Nat
  <1>1. Len(s) \in Nat
    OBVIOUS
  <1>2. TenTo[Len(s)] \in Nat
    BY <1>1, TenToIs
  <1>3. QED BY <1>2, ValueBelow

LEMMA ValueOfNone == ValueIn(<<>>) = 0
  <1>1. <<>> \in Seq(isdigit) /\ Len(<<>>) = 0
    OBVIOUS
  <1>2. PICK v : Collects(<<>>, v)
    BY <1>1, CollectsExists
  <1>3. ValueIn(<<>>) = v[Len(<<>>)]
    BY <1>1, <1>2, ValueFound
  <1>4. QED BY <1>1, <1>2, <1>3 DEF Collects

LEMMA ExponentFound ==
  ASSUME NEW t \in Seq(STRING), NEW s, NEW p, NEW i, NEW m, NEW q, NEW x,
         Marks(t, s, p, i, m, q, x), InOrder(t, s, p, i, m, q, x),
         NEW d, d = Division10(t, s, p, i, m, q, x)
  PROVE  ExponentIn(t, d) = ExponentAt(t, m, q, x) /\ ExponentAt(t, m, q, x) \in Int
  <1> DEFINE n == ValueIn(Cut(t, q, x))
  <1>1. /\ d.exponent = IF At(t, m) = "e" /\ q < x THEN x - m ELSE 0
        /\ MantissaEnd(d) = m /\ ExponentDigits(t, d) = q
        /\ NumberEnd(d) = (IF At(t, m) = "e" /\ q < x THEN x ELSE m)
    BY DivisionIs
  <1>2. m \in Nat /\ q \in Nat /\ x \in Nat /\ m < q /\ (At(t, m) = "e" => q <= x)
    BY DEF InOrder
  <1>3. CASE At(t, m) # "e"
    <2>1. d.exponent = 0
      BY <1>1, <1>3
    <2>2. QED BY <1>3, <2>1 DEF ExponentIn, ExponentAt
  <1>4. CASE At(t, m) = "e" /\ q < x
    <2>1. d.exponent # 0 /\ NumberEnd(d) = x
      BY <1>1, <1>2, <1>4
    <2>2. ExponentIn(t, d) = IF At(t, m + 1) = "-" THEN -n ELSE n
      BY <1>1, <2>1 DEF ExponentIn
    <2>3. n \in Nat
      <3>1. Cut(t, q, x) \in Seq(isdigit)
        <4>1. x <= Len(t) /\ \A k \in q .. x - 1 : At(t, k) \in isdigit
          BY <1>4 DEF InOrder, Marks, EndsAt
        <4>2. QED BY <1>2, <4>1, CutIs
      <3>2. QED BY <3>1, ValueIsNat
    <2>4. ExponentAt(t, m, q, x) = IF At(t, m + 1) = "-" THEN -n ELSE n
      BY <1>4 DEF ExponentAt
    <2> HIDE DEF n
    <2>5. QED BY <2>2, <2>3, <2>4
  <1>5. CASE At(t, m) = "e" /\ ~(q < x)
    <2>1. d.exponent = 0 /\ x = q
      BY <1>1, <1>2, <1>5
    <2>2. Cut(t, q, x) = <<>>
      <3>1. Len(Cut(t, q, x)) = 0 /\ Cut(t, q, x) \in Seq(STRING)
        BY <1>2, <2>1 DEF Cut
      <3>2. QED BY <3>1, EmptySeq
    <2>3. n = 0
      BY <2>2, ValueOfNone
    <2>4. ExponentAt(t, m, q, x) = IF At(t, m + 1) = "-" THEN -n ELSE n
      BY <1>5 DEF ExponentAt
    <2>5. ExponentIn(t, d) = 0
      BY <2>1 DEF ExponentIn
    <2> HIDE DEF n
    <2>6. -n = 0
      <3>1. \A z \in Int : z <= 0 /\ z >= 0 => -z = 0
        OBVIOUS
      <3>2. n \in Int /\ n <= 0 /\ n >= 0
        BY <2>3
      <3>3. QED BY <3>1, <3>2
    <2>7. ExponentAt(t, m, q, x) = 0
      BY <2>3, <2>4, <2>6
    <2>8. QED BY <2>5, <2>7
  <1>6. QED BY <1>3, <1>4, <1>5

LEMMA RangeIs == maxExponent \in Nat /\ MaxPower \in Nat /\ MaxPower < maxExponent
  <1> DEFINE T == 2 ^ PowerBits
  <1>1. T \in Nat /\ MaxPower \in Nat /\ MaxPower < T - 1 /\ maxExponent = T - 1
    BY NumbersAssumption DEF maxExponent
  <1> HIDE DEF T
  <1>2. QED BY <1>1

\* Where the power of ten is finite, so is the number; where it is not, it is an
\* infinity or zero.
LEMMA DoubleIs ==
  ASSUME NEW e \in Int, NEW f
  PROVE  /\ e \in -MaxPower .. MaxPower =>
              Double(f, CutExponent(e)) = [kind |-> "finite", fraction |-> f, exp |-> e]
         /\ e > MaxPower /\ f # 0 => Double(f, CutExponent(e)) = [kind |-> "infinite"]
         /\ e < -MaxPower =>
              Double(f, CutExponent(e)) = [kind |-> "finite", fraction |-> 0, exp |-> 0]
  <1> DEFINE c == CutExponent(e)
             M == maxExponent
  <1>1. M \in Nat /\ MaxPower \in Nat /\ MaxPower < M
    BY RangeIs
  <1>2. c = IF e \in -M .. M THEN e ELSE IF e < 0 THEN -M ELSE M
    BY DEF CutExponent, InRange
  <1> HIDE DEF c, M
  <1>3. CASE e \in -MaxPower .. MaxPower
    <2>1. /\ c = e /\ ~(c > MaxPower) /\ ~(c < -MaxPower)
          /\ ~(e > MaxPower) /\ ~(e < -MaxPower)
      BY <1>1, <1>2, <1>3
    <2>2. QED BY <1>3, <2>1 DEF Double, c
  <1>4. CASE e > MaxPower
    <2>1. c > MaxPower /\ e \notin -MaxPower .. MaxPower /\ ~(e < -MaxPower)
      BY <1>1, <1>2, <1>4
    <2>2. QED BY <2>1 DEF Double, c
  <1>5. CASE e < -MaxPower
    <2>1. /\ ~(c > MaxPower) /\ c < -MaxPower
          /\ e \notin -MaxPower .. MaxPower /\ ~(e > MaxPower)
      BY <1>1, <1>2, <1>5
    <2>2. QED BY <2>1 DEF Double, c
  <1>6. QED BY <1>1, <1>3, <1>4, <1>5

\* The exponent that strtod counts, and the digits it uses, are those of C.
LEMMA UsedIs ==
  ASSUME NEW t \in Seq(STRING), NEW s, NEW p, NEW i, NEW m, NEW q, NEW x,
         Marks(t, s, p, i, m, q, x), InOrder(t, s, p, i, m, q, x),
         NEW d, d = Division10(t, s, p, i, m, q, x), NEW w, w = DigitsAt(t, p, i, m),
         NEW k, k = IF Len(w) > MaxDigits THEN Len(w) - MaxDigits ELSE 0
  PROVE  /\ DigitsIn10(t, d) = w
         /\ FracExpAt(t, p, i, m) \in Int
         /\ (-(IF d.fraction = 0 THEN 0 ELSE d.fraction - 1)) + k = FracExpAt(t, p, i, m)
         /\ Fraction(UsedAt(t, p, i, m)) = ValueIn(w) \div TenTo[k]
  <1>1. SignEnd(d) = p /\ IntegerEnd(d) = i /\ MantissaEnd(d) = m /\ d.fraction = m - i
    BY DivisionIs
  <1>2. DigitsIn10(t, d) = w
    BY <1>1 DEF DigitsIn10, DigitsAt
  <1>3. w \in Seq(isdigit) /\ Len(w) = (i - p) + (IF i < m THEN (m - i) - 1 ELSE 0)
    BY DigitsFound
  <1>4. p \in Nat /\ i \in Nat /\ m \in Nat /\ p <= i /\ i <= m /\ MaxDigits \in Nat
    BY NumbersAssumption DEF InOrder
  <1> DEFINE l == Len(w)
             n == IF l > MaxDigits THEN MaxDigits ELSE l
             f == d.fraction
  <1>5. l \in Nat /\ n \in 0 .. l /\ l - n = k
    <2>1. l \in Nat
      BY <1>3
    <2>2. k = IF l > MaxDigits THEN l - MaxDigits ELSE 0
      OBVIOUS
    <2> HIDE DEF l
    <2>3. CASE l > MaxDigits
      <3>1. n = MaxDigits /\ k = l - MaxDigits
        BY <2>2, <2>3
      <3>2. QED BY ONLY <1>4, <2>1, <2>3, <3>1
    <2>4. CASE ~(l > MaxDigits)
      <3>1. n = l /\ k = 0
        BY <2>2, <2>4
      <3>2. QED BY ONLY <1>4, <2>1, <2>4, <3>1
    <2>5. QED BY <2>3, <2>4
  <1>6. FracExpAt(t, p, i, m) = (i - p) - n
    BY DEF FracExpAt
  <1>7. UsedAt(t, p, i, m) = SubSeq(w, 1, n)
    BY DEF UsedAt
  <1>8. l = (i - p) + (IF i < m THEN (m - i) - 1 ELSE 0) /\ f = m - i
    BY <1>1, <1>3
  <1> HIDE DEF l, n, f
  <1>9. (-(IF f = 0 THEN 0 ELSE f - 1)) + k = (i - p) - n /\ (i - p) - n \in Int
    <2>1. CASE f = 0
      <3>1. l = i - p
        BY ONLY <1>4, <1>8, <2>1
      <3>2. (i - p) - n = k /\ k \in Int
        BY ONLY <1>4, <1>5, <3>1
      <3>3. QED BY <2>1, <3>2
    <2>2. CASE f # 0
      <3>1. l = (i - p) + (f - 1) /\ f \in Int
        BY ONLY <1>4, <1>8, <2>2
      <3>2. (-(f - 1)) + k = (i - p) - n /\ (i - p) - n \in Int
        BY ONLY <1>4, <1>5, <3>1
      <3>3. QED BY <2>2, <3>2
    <2>3. QED BY <2>1, <2>2
  <1>10. Fraction(SubSeq(w, 1, n)) = ValueIn(w) \div TenTo[k]
    <2>1. ValueIn(w) \div TenTo[Len(w) - n] = ValueIn(SubSeq(w, 1, n))
      BY <1>3, <1>5, DroppedIs DEF l
    <2>2. SubSeq(w, 1, n) \in Seq(isdigit)
      BY <1>3, <1>5, Halves DEF l
    <2>3. Fraction(SubSeq(w, 1, n)) = ValueIn(SubSeq(w, 1, n))
      BY <2>2, FractionIs
    <2>4. Len(w) - n = k
      BY <1>5 DEF l
    <2>5. QED BY <2>1, <2>3, <2>4
  <1>11. QED BY <1>2, <1>6, <1>7, <1>9, <1>10 DEF f

LEMMA StrtodReads ==
  ASSUME NEW t \in Seq(STRING), NEW s, NEW p, NEW i, NEW m, NEW q, NEW x,
         Marks(t, s, p, i, m, q, x), InOrder(t, s, p, i, m, q, x),
         DigitsAt(t, p, i, m) # <<>>,
         NEW d, d = Division10(t, s, p, i, m, q, x),
         NEW r, r = ReturnedAt(t, s, p, i, m, q, x)
  PROVE  ReadsAsInC(t, r, d)
  <1> DEFINE w == DigitsAt(t, p, i, m)
             k == IF Len(w) > MaxDigits THEN Len(w) - MaxDigits ELSE 0
             f == IF d.fraction = 0 THEN 0 ELSE d.fraction - 1
             g == ExponentAt(t, m, q, x)
             h == FracExpAt(t, p, i, m)
             e == h + g
             exp == ExponentIn(t, d) - f
             shown == ValueIn(w) \div TenTo[k]
  <1>1. /\ r.negative = (At(t, s) = "-") /\ r.end = x /\ r.range = ~InRange(e)
        /\ r.double = Double(Fraction(UsedAt(t, p, i, m)), CutExponent(e))
    BY DEF ReturnedAt
  <1>2. /\ d.blanks = s /\ d.exponent = IF At(t, m) = "e" /\ q < x THEN x - m ELSE 0
        /\ NumberEnd(d) = IF At(t, m) = "e" /\ q < x THEN x ELSE m
    BY DivisionIs
  <1>3. DigitsIn10(t, d) = w /\ h \in Int /\ (-f) + k = h /\ Fraction(UsedAt(t, p, i, m)) = shown
    <2> DEFINE ww == w
               kk == k
    <2>1. ww = DigitsAt(t, p, i, m) /\ kk = IF Len(ww) > MaxDigits THEN Len(ww) - MaxDigits ELSE 0
      OBVIOUS
    <2> HIDE DEF ww, kk
    <2>2. /\ DigitsIn10(t, d) = ww
          /\ FracExpAt(t, p, i, m) \in Int
          /\ (-(IF d.fraction = 0 THEN 0 ELSE d.fraction - 1)) + kk = FracExpAt(t, p, i, m)
          /\ Fraction(UsedAt(t, p, i, m)) = ValueIn(ww) \div TenTo[kk]
      BY <2>1, UsedIs
    <2>3. QED BY <2>2 DEF ww, kk
  <1>4. ExponentIn(t, d) = g /\ g \in Int
    BY ExponentFound
  <1>5. f \in Int /\ k \in Int
    <2>1. d.fraction \in Int
      <3>1. d.fraction = m - i
        BY DivisionIs
      <3>2. QED BY <3>1 DEF InOrder
    <2>2. Len(w) \in Int
      BY DigitsFound
    <2>3. MaxDigits \in Int
      BY NumbersAssumption
    <2> DEFINE a == d.fraction
               b == Len(w)
    <2> HIDE DEF w, a, b
    <2>4. a \in Int /\ b \in Int
      BY <2>1, <2>2 DEF a, b
    <2>5. f = (IF a = 0 THEN 0 ELSE a - 1) /\ k = IF b > MaxDigits THEN b - MaxDigits ELSE 0
      BY DEF a, b
    <2> HIDE DEF f, k
    <2>6. QED BY <2>3, <2>4, <2>5
  <1> HIDE DEF w, k, f, g, h
  <1>6. exp + k = e /\ e \in Int
    BY <1>3, <1>4, <1>5
  <1> HIDE DEF e, exp, shown
  <1>7. r.negative = (At(t, d.blanks) = "-")
    BY <1>1, <1>2
  <1>8. ~BareE(t, d) => r.end = NumberEnd(d)
    <2>1. CASE At(t, m) = "e" /\ q < x
      BY <1>1, <1>2, <2>1
    <2>2. CASE At(t, m) # "e"
      <3>1. x = m
        BY <2>2 DEF Marks
      <3>2. QED BY <1>1, <1>2, <2>2, <3>1
    <2>3. CASE At(t, m) = "e" /\ ~(q < x)
      BY <1>2, <2>3 DEF BareE
    <2>4. QED BY <2>1, <2>2, <2>3
  <1>9. /\ e \in -MaxPower .. MaxPower =>
             r.double = [kind |-> "finite", fraction |-> shown, exp |-> e]
        /\ e > MaxPower /\ shown # 0 => r.double = [kind |-> "infinite"]
        /\ e < -MaxPower => r.double = [kind |-> "finite", fraction |-> 0, exp |-> 0]
    <2>1. r.double = Double(shown, CutExponent(e))
      BY <1>1, <1>3
    <2>2. QED BY <1>6, <2>1, DoubleIs
  <1>10. /\ r.range => e \notin -MaxPower .. MaxPower
         /\ e \notin -maxExponent .. maxExponent => r.range
    <2>1. e \notin -maxExponent .. maxExponent => e \notin -MaxPower .. MaxPower
      BY <1>6, RangeIs
    <2>2. QED BY <1>1, <2>1 DEF InRange
  <1>11. ReadsAsInC(t, r, d) <=>
           /\ r.negative = (At(t, d.blanks) = "-")
           /\ ~BareE(t, d) => r.end = NumberEnd(d)
           /\ NoEarlyZeros(w) =>
                /\ exp + k \in -MaxPower .. MaxPower =>
                     r.double = [kind |-> "finite", fraction |-> shown, exp |-> exp + k]
                /\ exp + k > MaxPower /\ shown # 0 => r.double = [kind |-> "infinite"]
                /\ exp + k < -MaxPower /\ shown = 0 =>
                     r.double = [kind |-> "finite", fraction |-> 0, exp |-> 0]
           /\ r.range => exp + k \notin -MaxPower .. MaxPower
           /\ exp + k \notin -maxExponent .. maxExponent /\ shown # 0 => r.range
    BY <1>3 DEF ReadsAsInC, exp, f, k, shown
  <1>12. QED BY <1>6, <1>7, <1>8, <1>9, <1>10, <1>11

\* strtod reads the longest number there is.
LEMMA StrtodFollowsC ==
  ASSUME NEW t \in Seq(STRING), NEW r, r = strtod(t)
  PROVE  IF Floats10(t) = {} THEN r.end = 0 /\ ~r.range /\ r.double = Double(0, 0)
         ELSE ReadsAsInC(t, r, LongestFloat(t))
  <1>1. PICK s, p, i, m, q, x : /\ Marks(t, s, p, i, m, q, x)
                                /\ InOrder(t, s, p, i, m, q, x)
                                /\ r = ReturnedAt(t, s, p, i, m, q, x)
    BY StrtodIs
  <1> DEFINE all == Floats10(t)
             D == Division10(t, s, p, i, m, q, x)
  <1>2. DigitsAt(t, p, i, m) = <<>> <=> ~(p < i \/ i + 1 < m)
    BY <1>1, DigitsFound
  <1>3. CASE DigitsAt(t, p, i, m) = <<>>
    <2>1. all = {}
      BY <1>1, <1>2, <1>3, Longest
    <2>2. r.end = 0 /\ ~r.range /\ r.double = Double(0, 0)
      BY <1>1, <1>3 DEF ReturnedAt
    <2>3. QED BY <2>1, <2>2
  <1>4. CASE DigitsAt(t, p, i, m) # <<>>
    <2>1. D \in all
      BY <1>1, <1>2, <1>4, DivisionIsFloat
    <2>2. \A d \in all : NumberEnd(d) \in Nat
      BY <1>1, EndIsNat DEF Marks, InOrder
    <2>3. NumberEnd(D) = IF At(t, m) = "e" /\ q < x THEN x ELSE m
      BY <1>1, DivisionIs
    <2>4. \A d \in all : NumberEnd(d) < NumberEnd(D) \/ d = D
      BY <1>1, <2>3, Longest
    <2> HIDE DEF all, D
    <2>5. \A d \in all : NumberEnd(d) <= NumberEnd(D)
      BY <2>1, <2>2, <2>4
    <2>6. ASSUME NEW d \in all, \A e \in all : NumberEnd(e) <= NumberEnd(d)
          PROVE  d = D
      BY <2>1, <2>2, <2>4, <2>6
    <2>7. (CHOOSE d \in all : \A e \in all : NumberEnd(e) <= NumberEnd(d)) = D
      <3> DEFINE LastToEnd(d) == \A e \in all : NumberEnd(e) <= NumberEnd(d)
      <3>1. D \in all /\ LastToEnd(D) /\ \A d \in all : LastToEnd(d) => d = D
        BY <2>1, <2>5, <2>6
      <3> HIDE DEF LastToEnd
      <3>2. (CHOOSE d \in all : LastToEnd(d)) = D
        BY <3>1
      <3>3. QED BY <3>2 DEF LastToEnd
    <2>8. ReadsAsInC(t, r, D)
      BY <1>1, <1>4, StrtodReads DEF D
    <2>9. all # {} /\ all = Floats10(t)
      BY <2>1 DEF all
    <2>10. LongestFloat(t) = D
      BY <2>7, <2>9 DEF LongestFloat
    <2>11. QED BY <2>8, <2>9, <2>10
  <1>5. QED BY <1>3, <1>4

\* atoi reads the digits that follow a sign.
LEMMA AtoiFollowsC ==
  ASSUME NEW t \in Seq(STRING)
  PROVE  LET s == IF At(t, 0) \in {"-", "+"} THEN 1 ELSE 0
             e == CHOOSE j \in s .. Len(t) :
                    Are(isdigit, t, s, j) /\ At(t, j) \notin isdigit
             n == ValueIn(Cut(t, s, e))
         IN atoi(t) = IF At(t, 0) = "-" THEN -n ELSE n
  <1> DEFINE s == IF At(t, 0) \in {"-", "+"} THEN 1 ELSE 0
             P(j) == Are(isdigit, t, s, j) /\ At(t, j) \notin isdigit
             z == Skip(t, s, isdigit)
  <1>1. Len(t) \in Nat /\ s \in Nat /\ s <= Len(t)
    <2>1. CASE At(t, 0) \in {"-", "+"}
      <3>1. At(t, 0) # "NUL"
        BY <2>1
      <3>2. 0 < Len(t)
        BY <3>1, Within
      <3>3. QED BY <2>1, <3>2
    <2>2. CASE At(t, 0) \notin {"-", "+"}
      BY <2>2
    <2>3. QED BY <2>1, <2>2
  <1> HIDE DEF s
  <1>2. EndsAt(t, s, isdigit, z) /\ z <= Len(t)
    BY <1>1, Classes, SkipEnds
  <1>3. z \in s .. Len(t) /\ P(z)
    BY <1>1, <1>2 DEF EndsAt, Are
  <1>4. ASSUME NEW j \in s .. Len(t), P(j) PROVE j = z
    <2>1. j \in Nat /\ s <= j
      BY <1>1
    <2>2. QED BY <1>1, <1>2, <1>4, <2>1, EndsOnce
  <1>5. (CHOOSE j \in s .. Len(t) : P(j)) = z
    <2> HIDE DEF P, z
    <2>1. QED BY <1>3, <1>4
  <1>6. atoi(t) = IF At(t, 0) = "-" THEN -ValueIn(Cut(t, s, z)) ELSE ValueIn(Cut(t, s, z))
    BY DEF atoi, Cut, s
  <1>7. QED BY <1>5, <1>6 DEF s

-----------------------------------------------------------------------------
\* From texts of any length, strtod reads the longest decimal number and its value,
\* cut to MaxDigits digits, with an infinity and errors of range for numbers beyond the
\* limits only, and atoi the digits after a sign.  What NumbersAsInC leaves out is not
\* claimed: the end of a number before a bare "e", the value behind many leading zeros,
\* 0 times an infinite power and small numbers with many digits.
THEOREM NumbersFollowC == NumbersSpec => []NumbersAsInC
  <1>1. NumbersInit => NumbersAsInC
    BY DEF NumbersInit, NumbersAsInC
  <1>2. NumbersAsInC /\ [NumbersNext]_numberVars => NumbersAsInC'
    <2> SUFFICES ASSUME NumbersAsInC, [NumbersNext]_numberVars PROVE NumbersAsInC'
      OBVIOUS
    <2>1. CASE UNCHANGED numberVars
      BY <2>1 DEF numberVars, NumbersAsInC
    <2>2. CASE NumbersNext
      <3>1. PICK t \in Texts : /\ text' = t
                               /\ \/ reader' = "atoi" /\ number' = [value |-> atoi(t)]
                                  \/ reader' = "strtod" /\ number' = strtod(t)
        BY <2>2 DEF NumbersNext
      <3>2. t \in Seq(STRING)
        BY NumbersAssumption
      <3>3. CASE reader' = "atoi" /\ number' = [value |-> atoi(t)]
        <4>1. reader' # "strtod" /\ number'.value = atoi(t)
          BY <3>3
        <4>2. QED BY <3>1, <3>2, <3>3, <4>1, AtoiFollowsC DEF NumbersAsInC
      <3>4. CASE reader' = "strtod" /\ number' = strtod(t)
        <4>1. reader' # "atoi" /\ number' = strtod(t)
          BY <3>4
        <4>2. QED BY <3>1, <3>2, <4>1, StrtodFollowsC DEF NumbersAsInC
      <3>5. QED BY <3>1, <3>3, <3>4
    <2>3. QED BY <2>1, <2>2
  <1>3. QED BY <1>1, <1>2, PTL DEF NumbersSpec
=============================================================================
