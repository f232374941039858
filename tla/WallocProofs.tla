---------------------------- MODULE WallocProofs ---------------------------
(***************************************************************************)
(* Proofs about module Walloc, for pages of any size, any requests and any *)
(* number of objects: live objects never overlap each other, the free      *)
(* memory or the headers they need, every object is as large as asked for, *)
(* the free lists are sound, the free large objects merged once they are   *)
(* compacted, and the ASSERTs hold but the one of RoomForHeader.           *)
(*                                                                         *)
(* The argument is about the items that the granted memory is cut into:    *)
(* the large objects, used and free, and the chunks of small objects.  An  *)
(* item starts at a chunk and ends at another; f maps the one to the       *)
(* other.  Splitting cuts an item in two, compaction joins two, and        *)
(* growing the heap adds one.                                              *)
(*                                                                         *)
(* Of compaction it also says that it ends: every turn takes an object off *)
(* the list or passes over one more of those before it, so that twice the  *)
(* length of the list less the place in it goes down (Looking).            *)
(***************************************************************************)
EXTENDS Walloc, ArenaProofs, SequenceTheorems, WellFoundedInduction, TLAPS

-----------------------------------------------------------------------------
(* Lists without repetitions.                                              *)

\* Every set of numbers has a least one.
LEMMA LeastNumber ==
  ASSUME NEW T, T \subseteq Nat, T # {}
  PROVE  \E m \in T : \A k \in T : m <= k
  <1>1. \E m \in T : \A k \in T : <<k, m>> \notin OpToRel(<, Nat)
    BY NatLessThanWellFounded, WFMin
  <1>2. PICK m \in T : \A k \in T : <<k, m>> \notin OpToRel(<, Nat)
    BY <1>1
  <1>3. \A k \in T : ~(k < m)
    BY <1>2 DEF OpToRel
  <1>4. QED
    BY <1>3

LEMMA EntryInRange ==
  ASSUME NEW S, NEW s \in Seq(S)
  PROVE  /\ \A i \in 1 .. Len(s) : s[i] \in Range(s) /\ s[i] \in S
         /\ \A e \in Range(s) : \E i \in 1 .. Len(s) : s[i] = e
         /\ Range(s) \subseteq S
  <1>1. DOMAIN s = 1 .. Len(s)
    BY LenProperties
  <1>2. \A i \in 1 .. Len(s) : s[i] \in S
    BY ElementOfSeq
  <1>3. QED
    BY <1>1, <1>2 DEF Range

\* A list with no repetitions, read by its positions.
LEMMA InjectiveList ==
  ASSUME NEW S, NEW s \in Seq(S)
  PROVE  IsInjective(s) <=> \A i, j \in 1 .. Len(s) : s[i] = s[j] => i = j
  <1>1. DOMAIN s = 1 .. Len(s)
    BY LenProperties
  <1>2. QED
    BY <1>1 DEF IsInjective

\* What pushing on a list does.
LEMMA Pushed ==
  ASSUME NEW S, NEW s \in Seq(S), NEW e \in S, IsInjective(s), e \notin Range(s)
  PROVE  /\ <<e>> \o s \in Seq(S)
         /\ IsInjective(<<e>> \o s)
         /\ Range(<<e>> \o s) = {e} \cup Range(s)
  <1> DEFINE t == <<e>> \o s
  <1>1. <<e>> \in Seq(S) /\ Len(<<e>>) = 1 /\ <<e>>[1] = e /\ Len(s) \in Nat
    BY LenProperties
  <1>2. /\ t \in Seq(S)
        /\ Len(t) = 1 + Len(s)
        /\ \A i \in 1 .. 1 + Len(s) : t[i] = IF i <= 1 THEN <<e>>[i] ELSE s[i - 1]
    BY <1>1, ConcatProperties
  <1> HIDE DEF t
  <1>3. t[1] = e /\ \A i \in 2 .. Len(t) : i - 1 \in 1 .. Len(s) /\ t[i] = s[i - 1]
    BY <1>1, <1>2
  <1>4. \A i \in 1 .. Len(s) : i + 1 \in 2 .. Len(t) /\ t[i + 1] = s[i]
    BY <1>1, <1>2, <1>3
  <1>5. Range(t) = {e} \cup Range(s)
    <2>1. ASSUME NEW x \in Range(t) PROVE x \in {e} \cup Range(s)
      <3>1. PICK i \in 1 .. Len(t) : t[i] = x
        BY <1>2, EntryInRange
      <3>2. CASE i = 1
        BY <3>1, <3>2, <1>3
      <3>3. CASE i # 1
        <4>1. i \in 2 .. Len(t)
          BY <3>3, <1>1, <1>2
        <4>2. i - 1 \in 1 .. Len(s) /\ s[i - 1] = x
          BY <4>1, <3>1, <1>3
        <4>3. QED
          BY <4>2, EntryInRange
      <3>4. QED BY <3>2, <3>3
    <2>2. e \in Range(t)
      <3>1. 1 \in 1 .. Len(t)
        BY <1>1, <1>2
      <3>2. QED BY <3>1, <1>2, <1>3, EntryInRange
    <2>3. ASSUME NEW x \in Range(s) PROVE x \in Range(t)
      <3>1. PICK i \in 1 .. Len(s) : s[i] = x
        BY EntryInRange
      <3>2. i + 1 \in 1 .. Len(t) /\ t[i + 1] = x
        BY <3>1, <1>1, <1>2, <1>4
      <3>3. QED BY <3>2, <1>2, EntryInRange
    <2>4. QED BY <2>1, <2>2, <2>3
  <1>6. IsInjective(t)
    <2>1. \A i, j \in 1 .. Len(s) : s[i] = s[j] => i = j
      BY InjectiveList
    <2>2. \A i \in 1 .. Len(s) : s[i] # e
      BY EntryInRange
    <2>3. \A i \in 1 .. Len(t) :
            \/ i = 1 /\ t[i] = e
            \/ i # 1 /\ i - 1 \in 1 .. Len(s) /\ t[i] = s[i - 1]
      BY <1>1, <1>2, <1>3
    <2>4. ASSUME NEW i \in 1 .. Len(t), NEW j \in 1 .. Len(t), t[i] = t[j]
          PROVE  i = j
      <3>1. CASE i = 1 \/ j = 1
        BY <3>1, <2>2, <2>3, <2>4
      <3>2. CASE i # 1 /\ j # 1
        <4>1. i - 1 = j - 1
          BY <3>2, <2>1, <2>3, <2>4
        <4>2. QED BY <4>1
      <3>3. QED BY <3>1, <3>2
    <2>5. QED BY <2>4, <1>2, InjectiveList
  <1>7. QED
    BY <1>2, <1>5, <1>6 DEF t

\* What popping a list does.
LEMMA Popped ==
  ASSUME NEW S, NEW s \in Seq(S), IsInjective(s), s # <<>>
  PROVE  /\ Head(s) \in Range(s) /\ Head(s) \in S
         /\ Tail(s) \in Seq(S)
         /\ IsInjective(Tail(s))
         /\ Range(Tail(s)) = Range(s) \ {Head(s)}
  <1> DEFINE t == Tail(s)
  <1>1. /\ Len(s) \in Nat \ {0} /\ t \in Seq(S) /\ Len(t) = Len(s) - 1
        /\ \A i \in 1 .. Len(t) : t[i] = s[i + 1]
        /\ Head(s) = s[1]
    BY EmptySeq, HeadTailProperties
  <1> HIDE DEF t
  <1>2. s[1] \in Range(s) /\ s[1] \in S
    BY <1>1, EntryInRange
  <1>3. \A i, j \in 1 .. Len(s) : s[i] = s[j] => i = j
    BY InjectiveList
  <1>4. IsInjective(t)
    <2>1. \A i, j \in 1 .. Len(t) : t[i] = t[j] => i = j
      BY <1>1, <1>3
    <2>2. QED BY <2>1, <1>1, InjectiveList
  <1>5. ASSUME NEW x \in Range(t) PROVE x \in Range(s) \ {s[1]}
    <2>1. PICK i \in 1 .. Len(t) : t[i] = x
      BY <1>1, EntryInRange
    <2>2. i + 1 \in 1 .. Len(s) /\ 1 \in 1 .. Len(s) /\ s[i + 1] = x /\ i + 1 # 1
      BY <2>1, <1>1
    <2>3. s[i + 1] # s[1]
      BY <2>2, <1>3
    <2>4. QED BY <2>2, <2>3, EntryInRange
  <1>6. ASSUME NEW x \in Range(s), x # s[1] PROVE x \in Range(t)
    <2>1. PICK i \in 1 .. Len(s) : s[i] = x
      BY EntryInRange
    <2>2. i - 1 \in 1 .. Len(t) /\ t[i - 1] = x
      BY <2>1, <1>1, <1>6
    <2>3. QED BY <2>2, <1>1, EntryInRange
  <1>7. QED
    BY <1>1, <1>2, <1>4, <1>5, <1>6 DEF t

\* SelectInSeq finds the first place of an entry.
LEMMA Selected ==
  ASSUME NEW S, NEW s \in Seq(S), NEW e \in Range(s)
  PROVE  LET i == SelectInSeq(s, LAMBDA w : w = e)
         IN i \in 1 .. Len(s) /\ s[i] = e
  <1> DEFINE I == {i \in 1 .. Len(s) : s[i] = e}
  <1>1. I # {} /\ I \subseteq Nat
    BY EntryInRange
  <1> HIDE DEF I
  <1>2. \E m \in I : \A k \in I : m <= k
    BY <1>1, LeastNumber
  <1>3. Min(I) \in I
    BY <1>2 DEF Min
  <1>4. SelectInSeq(s, LAMBDA w : w = e) = Min(I)
    BY <1>1 DEF SelectInSeq, I
  <1>5. QED
    BY <1>3, <1>4 DEF I

\* What taking an entry off a list does.
LEMMA Removed ==
  ASSUME NEW S, NEW s \in Seq(S), NEW e \in Range(s), IsInjective(s)
  PROVE  /\ RemoveFirst(s, e) \in Seq(S)
         /\ IsInjective(RemoveFirst(s, e))
         /\ Range(RemoveFirst(s, e)) = Range(s) \ {e}
         /\ \E m \in 1 .. Len(s) :
              /\ s[m] = e
              /\ Len(RemoveFirst(s, e)) = Len(s) - 1
              /\ \A i \in 1 .. Len(s) - 1 :
                   RemoveFirst(s, e)[i] = IF i < m THEN s[i] ELSE s[i + 1]
  <1> DEFINE m == SelectInSeq(s, LAMBDA w : w = e)
             a == SubSeq(s, 1, m - 1)
             b == SubSeq(s, m + 1, Len(s))
             t == a \o b
  <1>1. m \in 1 .. Len(s) /\ s[m] = e
    BY Selected
  <1>2. RemoveFirst(s, e) = t
    BY <1>1 DEF RemoveFirst, RemoveAt
  <1> HIDE DEF m
  <1>3. Len(s) \in Nat /\ \A i \in 1 .. Len(s) : s[i] \in S
    BY LenProperties, EntryInRange
  <1>4. /\ a \in Seq(S) /\ Len(a) = m - 1
        /\ \A i \in 1 .. m - 1 : a[i] = s[i]
    <2>1. m - 1 \in Int /\ 1 \in Int /\ \A i \in 1 .. m - 1 : s[i] \in S
      BY <1>1, <1>3
    <2>2. QED BY <1>1, <1>3, <2>1, SubSeqProperties
  <1>5. /\ b \in Seq(S) /\ Len(b) = Len(s) - m
        /\ \A i \in 1 .. Len(s) - m : b[i] = s[m + i]
    <2>1. m + 1 \in Int /\ Len(s) \in Int /\ \A i \in m + 1 .. Len(s) : s[i] \in S
      BY <1>1, <1>3
    <2>2. /\ b \in Seq(S)
          /\ Len(b) = IF m + 1 <= Len(s) THEN Len(s) - (m + 1) + 1 ELSE 0
          /\ \A i \in 1 .. Len(s) - (m + 1) + 1 : b[i] = s[(m + 1) + i - 1]
      BY <2>1, SubSeqProperties
    <2> HIDE DEF b
    <2>3. QED BY <1>1, <1>3, <2>2
  <1> HIDE DEF a, b
  <1>6. /\ t \in Seq(S) /\ Len(t) = Len(s) - 1
        /\ \A i \in 1 .. Len(s) - 1 : t[i] = IF i < m THEN s[i] ELSE s[i + 1]
    <2>1. /\ t \in Seq(S) /\ Len(t) = Len(a) + Len(b)
          /\ \A i \in 1 .. Len(a) + Len(b) : t[i] = IF i <= Len(a) THEN a[i] ELSE b[i - Len(a)]
      BY <1>4, <1>5, ConcatProperties
    <2> HIDE DEF t
    <2>2. Len(a) + Len(b) = Len(s) - 1
      BY <1>1, <1>3, <1>4, <1>5
    <2>3. ASSUME NEW i \in 1 .. Len(s) - 1
          PROVE  t[i] = IF i < m THEN s[i] ELSE s[i + 1]
      <3>1. CASE i < m
        <4>1. i <= Len(a) /\ i \in 1 .. m - 1
          BY <3>1, <1>1, <1>3, <1>4
        <4>2. t[i] = a[i]
          BY <4>1, <2>1, <2>2
        <4>3. QED BY <4>1, <4>2, <3>1, <1>4
      <3>2. CASE ~(i < m)
        <4>1. ~(i <= Len(a)) /\ i - Len(a) \in 1 .. Len(s) - m /\ m + (i - Len(a)) = i + 1
          BY <3>2, <1>1, <1>3, <1>4
        <4>2. t[i] = b[i - Len(a)]
          BY <4>1, <2>1, <2>2
        <4>3. QED BY <4>1, <4>2, <3>2, <1>5
      <3>3. QED BY <3>1, <3>2
    <2>4. QED BY <2>1, <2>2, <2>3
  <1> HIDE DEF t
  <1>7. \A i, j \in 1 .. Len(s) : s[i] = s[j] => i = j
    BY InjectiveList
  <1>8. IsInjective(t)
    <2>1. ASSUME NEW i \in 1 .. Len(t), NEW j \in 1 .. Len(t), t[i] = t[j] PROVE i = j
      <3>1. i \in 1 .. Len(s) /\ j \in 1 .. Len(s) /\ i + 1 \in 1 .. Len(s) /\ j + 1 \in 1 .. Len(s)
        BY <1>3, <1>6
      <3>2. QED BY <3>1, <2>1, <1>1, <1>3, <1>6, <1>7
    <2>2. QED BY <2>1, <1>6, InjectiveList
  <1>9. ASSUME NEW x \in Range(t) PROVE x \in Range(s) \ {e}
    <2>1. PICK i \in 1 .. Len(t) : t[i] = x
      BY <1>6, EntryInRange
    <2>2. i \in 1 .. Len(s) /\ i + 1 \in 1 .. Len(s)
      BY <1>3, <1>6
    <2>3. PICK j \in 1 .. Len(s) : s[j] = x /\ j # m
      <3>1. CASE i < m BY <3>1, <2>1, <2>2, <1>1, <1>6
      <3>2. CASE ~(i < m) BY <3>2, <2>1, <2>2, <1>1, <1>6
      <3>3. QED BY <3>1, <3>2
    <2>4. QED BY <2>3, <1>1, <1>7, EntryInRange
  <1>10. ASSUME NEW x \in Range(s), x # e PROVE x \in Range(t)
    <2>1. PICK i \in 1 .. Len(s) : s[i] = x
      BY EntryInRange
    <2>2. i # m
      BY <2>1, <1>1, <1>10
    <2>3. \E j \in 1 .. Len(t) : t[j] = x
      <3>1. CASE i < m
        <4>1. i \in 1 .. Len(s) - 1 BY <3>1, <1>1, <1>3
        <4>2. QED BY <4>1, <3>1, <2>1, <1>6
      <3>2. CASE ~(i < m)
        <4>1. i - 1 \in 1 .. Len(s) - 1 /\ ~(i - 1 < m) /\ (i - 1) + 1 = i
          BY <3>2, <2>2, <1>1, <1>3
        <4>2. t[i - 1] = x BY <4>1, <2>1, <1>6
        <4>3. QED BY <4>1, <4>2, <1>6
      <3>3. QED BY <3>1, <3>2
    <2>4. QED BY <2>3, <1>6, EntryInRange
  <1>11. QED
    BY <1>1, <1>2, <1>6, <1>8, <1>9, <1>10

-----------------------------------------------------------------------------
(* Pages.                                                                  *)

PageStart(c) == PageOf(c) * PageUnits
PageEnd(c) == PageStart(c) + PageUnits

LEMMA PageFacts ==
  ASSUME NEW c \in Nat
  PROVE  /\ PageUnits \in Nat /\ PageUnits > 2
         /\ PageOf(c) \in Nat
         /\ PageStart(c) \in Nat
         /\ PageEnd(c) = PageStart(c) + PageUnits
         /\ PageStart(c) <= c /\ c < PageEnd(c)
         /\ Index(c) = c - PageStart(c)
  <1>1. PageUnits \in Nat /\ PageUnits > 2
    BY PageAssumption, WallocAssumption
  <1>2. /\ c \div PageUnits \in Nat
        /\ c = (PageUnits * (c \div PageUnits)) + (c % PageUnits)
        /\ c % PageUnits \in Nat /\ c % PageUnits < PageUnits
    BY <1>1
  <1> DEFINE q == c \div PageUnits
  <1>3. q * PageUnits = PageUnits * q /\ q * PageUnits \in Nat
    BY <1>1, <1>2
  <1>4. QED
    BY <1>1, <1>2, <1>3 DEF PageOf, PageStart, PageEnd, Index

\* A multiple of the page size starts a page.
LEMMA PageMultiple ==
  ASSUME NEW q \in Nat
  PROVE  /\ q * PageUnits \in Nat
         /\ PageOf(q * PageUnits) = q
         /\ PageStart(q * PageUnits) = q * PageUnits
         /\ Index(q * PageUnits) = 0
  <1>1. PageUnits \in Nat /\ PageUnits > 2
    BY PageAssumption, WallocAssumption
  <1>2. q * PageUnits \in Nat
    BY <1>1
  <1>3. (q * PageUnits) \div PageUnits = q /\ (q * PageUnits) % PageUnits = 0
    BY <1>1, <1>2
  <1>4. QED
    BY <1>2, <1>3 DEF PageOf, PageStart, Index

\* The pages of two chunks are in the order of the chunks.
LEMMA PagesApart ==
  ASSUME NEW c \in Nat, NEW d \in Nat, c <= d
  PROVE  /\ PageOf(c) <= PageOf(d)
         /\ PageStart(c) = PageStart(d) \/ PageEnd(c) <= PageStart(d)
         /\ PageStart(c) = PageStart(d) => PageOf(c) = PageOf(d)
  <1> DEFINE p == PageOf(c)
             q == PageOf(d)
  <1>1. PageUnits \in Nat /\ PageUnits > 2 /\ p \in Nat /\ q \in Nat
    BY PageFacts
  <1>2. p * PageUnits <= c /\ d < q * PageUnits + PageUnits
    BY PageFacts DEF PageStart, PageEnd
  <1> HIDE DEF p, q
  <1>3. p <= q
    <2> SUFFICES ASSUME q + 1 <= p PROVE FALSE
      BY <1>1
    <2>1. (q + 1) * PageUnits <= p * PageUnits
      BY <1>1
    <2>2. (q + 1) * PageUnits = q * PageUnits + PageUnits
      BY <1>1
    <2>3. p * PageUnits \in Nat /\ q * PageUnits \in Nat
      BY <1>1
    <2>4. QED
      BY <1>1, <1>2, <2>1, <2>2, <2>3
  <1>4. p = q \/ p * PageUnits + PageUnits <= q * PageUnits
    <2> SUFFICES ASSUME p + 1 <= q PROVE p * PageUnits + PageUnits <= q * PageUnits
      BY <1>1, <1>3
    <2>1. (p + 1) * PageUnits <= q * PageUnits
      BY <1>1
    <2>2. (p + 1) * PageUnits = p * PageUnits + PageUnits
      BY <1>1
    <2>3. QED
      BY <2>1, <2>2
  <1>5. p * PageUnits = q * PageUnits => p = q
    <2>1. p * PageUnits \in Nat /\ q * PageUnits \in Nat
      BY <1>1
    <2>2. QED
      BY <1>1, <1>4, <2>1
  <1>6. QED
    BY <1>3, <1>4, <1>5 DEF PageStart, PageEnd, p, q

-----------------------------------------------------------------------------
(* Tilings: the items of memory up to top.  An item starts in a page, but  *)
(* not in its header; it ends at the end of a page, or in its first page   *)
(* where the next item starts.  No item covers the header of a page that   *)
(* another starts in.                                                      *)

ItemFits(f, i, top) ==
  /\ i \in Nat /\ f[i] \in Nat
  /\ Index(i) # 0
  /\ i < f[i] /\ f[i] <= top /\ PageEnd(i) <= top
  /\ Index(f[i]) = 0 \/ (f[i] < PageEnd(i) /\ f[i] \in DOMAIN f)

ItemsApart(f, i, j) ==
  /\ i # j => f[i] <= j \/ f[j] <= i
  /\ PageStart(j) < i \/ f[i] <= PageStart(j)

Tiling(f, top) ==
  /\ top \in Nat /\ top <= LastBreak
  /\ \A i \in DOMAIN f : ItemFits(f, i, top)
  /\ \A i, j \in DOMAIN f : ItemsApart(f, i, j)

\* Item i ends at c, and the rest of it starts at d.
CutAt(f, i, c, d) ==
  [x \in DOMAIN f \cup {d} |-> IF x = i THEN c ELSE IF x = d THEN f[i] ELSE f[x]]

\* Item i takes up the item after it.
JoinAt(f, i) ==
  [x \in DOMAIN f \ {f[i]} |-> IF x = i THEN f[f[i]] ELSE f[x]]

\* An item from o to e.
AddAt(f, o, e) ==
  [x \in DOMAIN f \cup {o} |-> IF x = o THEN e ELSE f[x]]

\* Items are chunks.
LEMMA ItemsAreChunks ==
  ASSUME NEW f, NEW top, Tiling(f, top), NEW i \in DOMAIN f
  PROVE  i \in Chunks /\ i \in Nat /\ i # 0
  <1>1. ItemFits(f, i, top) /\ top \in Nat /\ top <= LastBreak /\ LastBreak \in Nat
    BY PageAssumption DEF Tiling
  <1>2. i \in Nat /\ f[i] \in Nat /\ i < f[i] /\ f[i] <= top /\ Index(i) # 0
    BY <1>1 DEF ItemFits
  <1>3. Index(0) = 0
    <2>1. PageStart(0) \in Nat /\ PageStart(0) <= 0 /\ Index(0) = 0 - PageStart(0)
      BY PageFacts
    <2>2. QED BY <2>1
  <1>4. QED
    BY <1>1, <1>2, <1>3 DEF Chunks

\* A place to cut an item.
CutPlace(f, i, c, d) ==
  /\ c \in Nat /\ i < c /\ d < f[i]
  /\ \/ d = c /\ Index(c) # 0 /\ c < PageEnd(i)
     \/ d = c + 1 /\ Index(c) = 0

\* g is f with item i cut there.
Cuts(f, i, c, d, g) ==
  /\ i \in DOMAIN f
  /\ CutPlace(f, i, c, d)
  /\ g = CutAt(f, i, c, d)

LEMMA CutTiling ==
  ASSUME NEW f, NEW i, NEW c, NEW d, NEW g, Cuts(f, i, c, d, g),
         NEW top, Tiling(f, top)
  PROVE  /\ Tiling(g, top)
         /\ d \notin DOMAIN f
         /\ g[i] = c /\ g[d] = f[i]
         /\ \A x \in DOMAIN f \ {i} : g[x] = f[x]
  <1> i \in DOMAIN f
    BY DEF Cuts
  <1>1. /\ i \in Nat /\ f[i] \in Nat /\ Index(i) # 0 /\ i < f[i] /\ f[i] <= top
        /\ PageEnd(i) <= top
        /\ Index(f[i]) = 0 \/ (f[i] < PageEnd(i) /\ f[i] \in DOMAIN f)
        /\ top \in Nat /\ top <= LastBreak
    BY DEF Tiling, ItemFits
  <1>2. /\ c \in Nat /\ d \in Nat /\ i < c /\ d < f[i] /\ c <= d
        /\ \/ d = c /\ Index(c) # 0 /\ c < PageEnd(i)
           \/ d = c + 1 /\ Index(c) = 0
    BY DEF CutPlace, Cuts
  <1>3. /\ PageUnits \in Nat /\ PageUnits > 2
        /\ PageStart(i) \in Nat /\ PageEnd(i) = PageStart(i) + PageUnits
        /\ PageStart(i) <= i /\ i < PageEnd(i) /\ Index(i) = i - PageStart(i)
        /\ PageStart(c) \in Nat /\ PageEnd(c) = PageStart(c) + PageUnits
        /\ PageStart(c) <= c /\ c < PageEnd(c) /\ Index(c) = c - PageStart(c)
        /\ PageStart(d) \in Nat /\ PageEnd(d) = PageStart(d) + PageUnits
        /\ PageStart(d) <= d /\ d < PageEnd(d) /\ Index(d) = d - PageStart(d)
    BY <1>1, <1>2, PageFacts
  <1>4. /\ PageStart(f[i]) <= f[i] /\ Index(f[i]) = f[i] - PageStart(f[i])
        /\ PageStart(f[i]) \in Nat
    BY <1>1, PageFacts
  <1>5. /\ PageStart(i) = PageStart(c) \/ PageEnd(i) <= PageStart(c)
        /\ PageStart(c) = PageStart(d) \/ PageEnd(c) <= PageStart(d)
        /\ PageStart(d) = PageStart(f[i]) \/ PageEnd(d) <= PageStart(f[i])
    BY <1>1, <1>2, PagesApart
  <1>6. /\ d = c => PageStart(d) = PageStart(i) /\ PageEnd(d) = PageEnd(i)
        /\ d = c + 1 => PageStart(d) = c /\ PageEnd(d) <= f[i] /\ Index(f[i]) = 0
        /\ Index(d) # 0
    <2>1. CASE d = c /\ Index(c) # 0 /\ c < PageEnd(i)
      <3>1. PageStart(i) = PageStart(c)
        BY <2>1, <1>1, <1>2, <1>3, <1>5
      <3>2. QED BY <2>1, <3>1, <1>1, <1>2, <1>3
    <2>2. CASE d = c + 1 /\ Index(c) = 0
      <3>1. PageStart(c) = c /\ PageStart(d) = c
        BY <2>2, <1>2, <1>3, <1>5
      <3>2. PageEnd(i) <= c
        BY <3>1, <1>1, <1>2, <1>3, <1>5
      <3>3. Index(f[i]) = 0
        BY <3>2, <1>1, <1>2, <1>3
      <3>4. PageStart(f[i]) = f[i]
        BY <3>3, <1>1, <1>4
      <3>5. PageEnd(d) <= f[i]
        BY <3>1, <3>4, <1>1, <1>2, <1>3, <1>5
      <3>6. QED BY <2>2, <3>1, <3>3, <3>5, <1>2, <1>3
    <2>3. QED BY <2>1, <2>2, <1>2
  <1>7. \A j \in DOMAIN f : /\ j \in Nat /\ f[j] \in Nat /\ j < f[j]
                            /\ i # j => f[i] <= j \/ f[j] <= i
                            /\ PageStart(j) < i \/ f[i] <= PageStart(j)
                            /\ PageStart(i) < j \/ f[j] <= PageStart(i)
                            /\ PageStart(j) \in Nat
    BY PageFacts DEF Tiling, ItemsApart, ItemFits
  <1>8. d \notin DOMAIN f
    BY <1>1, <1>2, <1>7
  <1>9. /\ DOMAIN g = DOMAIN f \cup {d}
        /\ g[i] = c /\ g[d] = f[i]
        /\ \A x \in DOMAIN f \ {i} : g[x] = f[x]
    BY <1>1, <1>2, <1>8 DEF CutAt, Cuts
  <1>10. ASSUME NEW x \in DOMAIN g PROVE ItemFits(g, x, top)
    <2>1. CASE x = i
      <3>1. Index(c) = 0 \/ (c < PageEnd(i) /\ c \in DOMAIN g)
        BY <1>2, <1>9
      <3>2. c <= top
        BY <1>1, <1>2
      <3>3. QED BY <2>1, <3>1, <3>2, <1>1, <1>2, <1>9 DEF ItemFits
    <2>2. CASE x = d
      BY <2>2, <1>1, <1>2, <1>3, <1>6, <1>9 DEF ItemFits
    <2>3. CASE x # i /\ x # d
      <3>1. x \in DOMAIN f /\ ItemFits(f, x, top) /\ g[x] = f[x]
        BY <2>3, <1>9 DEF Tiling
      <3>2. QED BY <3>1, <1>9 DEF ItemFits
    <2>4. QED BY <2>1, <2>2, <2>3
  <1>11. ASSUME NEW x \in DOMAIN g, NEW y \in DOMAIN g PROVE ItemsApart(g, x, y)
    <2>1. CASE x \in {i, d} /\ y \in {i, d}
      BY <2>1, <1>1, <1>2, <1>3, <1>6, <1>9 DEF ItemsApart
    <2>2. CASE x \in {i, d} /\ y \notin {i, d}
      <3>1. /\ y \in DOMAIN f /\ g[y] = f[y]
            /\ y \in Nat /\ f[y] \in Nat /\ y < f[y]
            /\ f[i] <= y \/ f[y] <= i
            /\ PageStart(y) < i \/ f[i] <= PageStart(y)
            /\ PageStart(y) \in Nat
        BY <2>2, <1>7, <1>9
      <3>2. QED BY <2>2, <3>1, <1>1, <1>2, <1>9 DEF ItemsApart
    <2>3. CASE x \notin {i, d} /\ y \in {i, d}
      <3>1. /\ x \in DOMAIN f /\ g[x] = f[x]
            /\ x \in Nat /\ f[x] \in Nat /\ x < f[x]
            /\ f[i] <= x \/ f[x] <= i
            /\ PageStart(i) < x \/ f[x] <= PageStart(i)
        BY <2>3, <1>7, <1>9
      <3>2. QED BY <2>3, <3>1, <1>1, <1>2, <1>3, <1>6, <1>9 DEF ItemsApart
    <2>4. CASE x \notin {i, d} /\ y \notin {i, d}
      <3>1. x \in DOMAIN f /\ y \in DOMAIN f /\ g[x] = f[x] /\ g[y] = f[y]
        BY <2>4, <1>9
      <3>2. QED BY <3>1 DEF Tiling, ItemsApart
    <2>5. QED BY <2>1, <2>2, <2>3, <2>4
  <1>12. Tiling(g, top)
    BY <1>1, <1>10, <1>11 DEF Tiling
  <1>13. QED
    BY <1>8, <1>9, <1>12

LEMMA JoinTiling ==
  ASSUME NEW f, NEW top, Tiling(f, top), NEW i \in DOMAIN f, Index(f[i]) # 0
  PROVE  LET g == JoinAt(f, i)
         IN /\ Tiling(g, top)
            /\ f[i] \in DOMAIN f /\ f[i] # i
            /\ DOMAIN g = DOMAIN f \ {f[i]}
            /\ g[i] = f[f[i]]
            /\ \A x \in DOMAIN g \ {i} : g[x] = f[x]
  <1> DEFINE g == JoinAt(f, i)
             e == f[i]
  <1>1. /\ i \in Nat /\ e \in Nat /\ Index(i) # 0 /\ i < e /\ e <= top
        /\ PageEnd(i) <= top
        /\ e < PageEnd(i) /\ e \in DOMAIN f
        /\ top \in Nat /\ top <= LastBreak
    BY DEF Tiling, ItemFits
  <1>2. /\ f[e] \in Nat /\ e < f[e] /\ f[e] <= top
        /\ Index(f[e]) = 0 \/ (f[e] < PageEnd(e) /\ f[e] \in DOMAIN f)
    BY <1>1 DEF Tiling, ItemFits
  <1>3. /\ DOMAIN g = DOMAIN f \ {e}
        /\ g[i] = f[e]
        /\ \A x \in DOMAIN g \ {i} : g[x] = f[x]
    BY <1>1 DEF JoinAt
  <1>4. PageEnd(e) = PageEnd(i) /\ PageStart(e) = PageStart(i)
    <2>1. /\ PageStart(i) = PageStart(e) \/ PageEnd(i) <= PageStart(e)
          /\ PageStart(e) \in Nat /\ PageStart(e) <= e /\ PageStart(i) \in Nat
          /\ PageEnd(e) = PageStart(e) + PageUnits
          /\ PageEnd(i) = PageStart(i) + PageUnits /\ PageUnits \in Nat
      BY <1>1, PagesApart, PageFacts
    <2>2. QED BY <2>1, <1>1
  <1>5. \A j \in DOMAIN f : /\ j \in Nat /\ f[j] \in Nat /\ j < f[j]
                            /\ PageStart(j) \in Nat
                            /\ i # j => e <= j \/ f[j] <= i
                            /\ e # j => f[e] <= j \/ f[j] <= e
                            /\ PageStart(j) < i \/ e <= PageStart(j)
                            /\ PageStart(j) < e \/ f[e] <= PageStart(j)
                            /\ PageStart(i) < j \/ f[j] <= PageStart(i)
    BY <1>1, PageFacts DEF Tiling, ItemsApart, ItemFits
  <1> HIDE DEF g, e
  <1>6. ASSUME NEW x \in DOMAIN g PROVE ItemFits(g, x, top)
    <2>1. CASE x = i
      <3>1. f[e] \in DOMAIN f => f[e] \in DOMAIN g
        BY <1>2, <1>3
      <3>2. QED BY <2>1, <3>1, <1>1, <1>2, <1>3, <1>4 DEF ItemFits
    <2>2. CASE x # i
      <3>1. x \in DOMAIN f /\ ItemFits(f, x, top) /\ g[x] = f[x] /\ x # e
        BY <2>2, <1>3 DEF Tiling
      <3>2. f[x] # e
        BY <3>1, <2>2, <1>1, <1>5
      <3>3. QED BY <3>1, <3>2, <1>3 DEF ItemFits
    <2>3. QED BY <2>1, <2>2
  <1>7. ASSUME NEW x \in DOMAIN g, NEW y \in DOMAIN g PROVE ItemsApart(g, x, y)
    <2>1. CASE x = i /\ y = i
      <3>1. PageStart(i) < i \/ f[e] <= PageStart(i)
        BY <1>1, <1>2, <1>5
      <3>2. QED BY <2>1, <3>1, <1>3 DEF ItemsApart
    <2>2. CASE x = i /\ y # i
      <3>1. y \in DOMAIN f /\ g[y] = f[y] /\ y # e
        BY <2>2, <1>3
      <3>2. QED BY <2>2, <3>1, <1>1, <1>2, <1>3, <1>5 DEF ItemsApart
    <2>3. CASE x # i /\ y = i
      <3>1. x \in DOMAIN f /\ g[x] = f[x] /\ x # e
        BY <2>3, <1>3
      <3>2. QED BY <2>3, <3>1, <1>1, <1>2, <1>3, <1>5 DEF ItemsApart
    <2>4. CASE x # i /\ y # i
      <3>1. x \in DOMAIN f /\ y \in DOMAIN f /\ g[x] = f[x] /\ g[y] = f[y]
        BY <2>4, <1>3
      <3>2. QED BY <3>1 DEF Tiling, ItemsApart
    <2>5. QED BY <2>1, <2>2, <2>3, <2>4
  <1>8. Tiling(g, top)
    BY <1>1, <1>6, <1>7 DEF Tiling
  <1>9. QED
    BY <1>1, <1>3, <1>8 DEF g, e

\* Memory beyond the items is added to.
LEMMA AddTiling ==
  ASSUME NEW f, NEW top, Tiling(f, top), NEW new \in Nat, new <= LastBreak,
         NEW s \in Nat, Index(s) = 0, top <= s,
         NEW e \in Nat, Index(e) = 0, s < e, e <= new
  PROVE  LET g == AddAt(f, s + 1, e)
         IN /\ Tiling(g, new)
            /\ DOMAIN g = DOMAIN f \cup {s + 1}
            /\ s + 1 \notin DOMAIN f
            /\ g[s + 1] = e
            /\ \A x \in DOMAIN f : g[x] = f[x]
  <1> DEFINE o == s + 1
             g == AddAt(f, o, e)
  <1>1. \A j \in DOMAIN f : /\ j \in Nat /\ f[j] \in Nat /\ j < f[j] /\ f[j] <= top
                            /\ PageEnd(j) <= top /\ Index(j) # 0
                            /\ Index(f[j]) = 0 \/ (f[j] < PageEnd(j) /\ f[j] \in DOMAIN f)
                            /\ PageStart(j) \in Nat /\ PageStart(j) <= j
    BY PageFacts DEF Tiling, ItemFits
  <1>2. top \in Nat
    BY DEF Tiling
  <1>3. o \notin DOMAIN f
    BY <1>1, <1>2
  <1>4. /\ DOMAIN g = DOMAIN f \cup {o}
        /\ g[o] = e
        /\ \A x \in DOMAIN f : g[x] = f[x]
    BY <1>3 DEF AddAt
  <1>5. /\ PageStart(o) = s /\ PageEnd(o) <= e /\ Index(o) # 0 /\ o < e
        /\ PageEnd(o) \in Nat
    <2>1. /\ PageStart(s) \in Nat /\ Index(s) = s - PageStart(s)
          /\ PageEnd(s) = PageStart(s) + PageUnits /\ PageUnits \in Nat /\ PageUnits > 2
          /\ PageStart(o) \in Nat /\ PageStart(o) <= o /\ Index(o) = o - PageStart(o)
          /\ PageEnd(o) = PageStart(o) + PageUnits
          /\ PageStart(e) \in Nat /\ Index(e) = e - PageStart(e)
      <3>1. o \in Nat
        OBVIOUS
      <3> HIDE DEF o
      <3>2. QED BY <3>1, PageFacts
    <2>2. /\ PageStart(s) = PageStart(o) \/ PageEnd(s) <= PageStart(o)
          /\ PageStart(s) = PageStart(e) \/ PageEnd(s) <= PageStart(e)
      <3>1. o \in Nat /\ s <= o
        OBVIOUS
      <3> HIDE DEF o
      <3>2. QED BY <3>1, PagesApart
    <2>3. QED BY <2>1, <2>2
  <1> HIDE DEF g, o
  <1>6. o \in Nat /\ o = s + 1
    BY DEF o
  <1>7. ASSUME NEW x \in DOMAIN g PROVE ItemFits(g, x, new)
    <2>1. CASE x = o
      BY <2>1, <1>4, <1>5, <1>6 DEF ItemFits
    <2>2. CASE x # o
      <3>1. x \in DOMAIN f /\ g[x] = f[x] /\ PageEnd(x) \in Nat
        <4>1. x \in DOMAIN f /\ g[x] = f[x] /\ x \in Nat
          BY <2>2, <1>1, <1>4
        <4>2. PageStart(x) \in Nat /\ PageEnd(x) = PageStart(x) + PageUnits /\ PageUnits \in Nat
          BY <4>1, PageFacts
        <4>3. QED BY <4>1, <4>2
      <3>2. QED BY <3>1, <1>1, <1>2, <1>4 DEF ItemFits
    <2>3. QED BY <2>1, <2>2
  <1>8. ASSUME NEW x \in DOMAIN g, NEW y \in DOMAIN g PROVE ItemsApart(g, x, y)
    <2>1. CASE x = o /\ y = o
      BY <2>1, <1>4, <1>5, <1>6 DEF ItemsApart
    <2>2. CASE x = o /\ y # o
      <3>1. y \in DOMAIN f /\ g[y] = f[y]
        BY <2>2, <1>4
      <3>2. QED BY <2>2, <3>1, <1>1, <1>2, <1>4, <1>6 DEF ItemsApart
    <2>3. CASE x # o /\ y = o
      <3>1. x \in DOMAIN f /\ g[x] = f[x]
        BY <2>3, <1>4
      <3>2. QED BY <2>3, <3>1, <1>1, <1>2, <1>4, <1>5, <1>6 DEF ItemsApart
    <2>4. CASE x # o /\ y # o
      <3>1. x \in DOMAIN f /\ y \in DOMAIN f /\ g[x] = f[x] /\ g[y] = f[y]
        BY <2>4, <1>4
      <3>2. QED BY <3>1 DEF Tiling, ItemsApart
    <2>5. QED BY <2>1, <2>2, <2>3, <2>4
  <1>9. Tiling(g, new)
    BY <1>7, <1>8 DEF Tiling
  <1>10. QED
    BY <1>3, <1>4, <1>9 DEF g, o

\* No two of the items Y are beside each other in a page.
Spread(f, Y) == \A x, e \in Y : e = f[x] => Index(e) = 0

\* The part that is cut off stands in for the item, and is beside none.
LEMMA SpreadCut ==
  ASSUME NEW f, NEW i, NEW c, NEW d, NEW g, Cuts(f, i, c, d, g),
         NEW top, Tiling(f, top), NEW Y \in SUBSET DOMAIN f, Spread(f, Y \cup {i})
  PROVE  /\ Spread(g, (Y \ {i}) \cup {d})
         /\ Index(c) = 0 => Spread(g, Y \cup {i, d})
  <1>1. /\ d \notin DOMAIN f
        /\ g[i] = c /\ g[d] = f[i]
        /\ \A x \in DOMAIN f \ {i} : g[x] = f[x]
    BY CutTiling
  <1>2. i \in DOMAIN f /\ d < f[i] /\ f[i] \in Nat
    BY DEF Cuts, CutPlace, Tiling, ItemFits
  <1>3. \A x \in DOMAIN f : f[x] = d => Index(d) = 0
    BY <1>1 DEF Tiling, ItemFits
  <1>4. ASSUME NEW x \in Y \cup {i, d}, NEW e \in Y \cup {i, d}, e = g[x], x # i
        PROVE  Index(e) = 0
    <2>1. CASE x = d
      <3>1. e = f[i] /\ e # d
        BY <2>1, <1>1, <1>2, <1>4
      <3>2. QED BY <3>1, <1>4 DEF Spread
    <2>2. CASE x # d
      <3>1. x \in Y /\ e = f[x]
        BY <2>2, <1>1, <1>4
      <3>2. QED BY <3>1, <1>3, <1>4 DEF Spread
    <2>3. QED BY <2>1, <2>2
  <1>5. d # i
    BY <1>1, <1>2
  <1>6. Spread(g, (Y \ {i}) \cup {d})
    BY <1>4, <1>5 DEF Spread
  <1>7. Index(c) = 0 => Spread(g, Y \cup {i, d})
    BY <1>1, <1>4 DEF Spread
  <1>8. QED
    BY <1>6, <1>7

\* An item that is added is beside none: it is of whole pages.
LEMMA SpreadAdd ==
  ASSUME NEW f, NEW top, Tiling(f, top), NEW o, o \notin DOMAIN f,
         NEW e, Index(e) = 0, NEW Y \in SUBSET DOMAIN f, Spread(f, Y)
  PROVE  Spread(AddAt(f, o, e), Y \cup {o})
  <1> DEFINE g == AddAt(f, o, e)
  <1>1. g[o] = e /\ \A x \in DOMAIN f : g[x] = f[x]
    BY DEF AddAt
  <1>2. \A x \in DOMAIN f : f[x] = o => Index(o) = 0
    BY DEF Tiling, ItemFits
  <1> HIDE DEF g
  <1>3. Spread(g, Y \cup {o})
    BY <1>1, <1>2 DEF Spread
  <1>4. QED
    BY <1>3 DEF g

\* The heap's end moves up.
LEMMA MoreRoom ==
  ASSUME NEW f, NEW top, Tiling(f, top), NEW new \in Nat, new <= LastBreak, top <= new
  PROVE  Tiling(f, new)
  <1>1. ASSUME NEW x \in DOMAIN f PROVE ItemFits(f, x, new)
    <2>1. ItemFits(f, x, top) /\ top \in Nat
      BY DEF Tiling
    <2>2. PageEnd(x) \in Nat
      BY <2>1, PageFacts DEF ItemFits
    <2>3. QED BY <2>1, <2>2 DEF ItemFits
  <1>2. QED
    BY <1>1 DEF Tiling

-----------------------------------------------------------------------------
(* Kinds, and the slots of the small ones.                                 *)

LEMMA KindFacts ==
  /\ FREE_LARGE_OBJECT \in Nat /\ LARGE_OBJECT \in Nat
  /\ FREE_LARGE_OBJECT # LARGE_OBJECT
  /\ FREE_LARGE_OBJECT \notin SmallKinds /\ LARGE_OBJECT \notin SmallKinds
  /\ GRANULES_32 \in SmallKinds /\ SmallKinds \subseteq Nat
  BY DEF FREE_LARGE_OBJECT, LARGE_OBJECT, GRANULES_32, SmallKinds

\* The slots of a chunk lie in it, one after the other.
Slotted(size, slots) ==
  /\ size \in Nat \ {0}
  /\ slots \in Seq(Nat)
  /\ \A i \in 1 .. Len(slots) : slots[i] + size <= 256
  /\ \A i, j \in 1 .. Len(slots) : i < j => slots[i] + size <= slots[j]

LEMMA SlotsOfSize ==
  ASSUME NEW size \in Nat \ {0}, NEW n \in Nat, n * size <= 256
  PROVE  Slotted(size, [i \in 1 .. n |-> 256 - (n + 1 - i) * size])
  <1> DEFINE slots == [i \in 1 .. n |-> 256 - (n + 1 - i) * size]
  <1>1. ASSUME NEW i \in 1 .. n
        PROVE  /\ 256 - (n + 1 - i) * size \in Nat
               /\ 256 - (n + 1 - i) * size + size <= 256
    <2> DEFINE m == n + 1 - i
    <2>1. m \in Nat /\ m >= 1 /\ m <= n
      OBVIOUS
    <2> HIDE DEF m
    <2>2. m * size <= n * size /\ m * size >= size /\ m * size \in Nat
      BY <2>1
    <2>3. 256 - m * size \in Nat /\ 256 - m * size + size <= 256
      BY <2>2
    <2>4. QED BY <2>3 DEF m
  <1>2. ASSUME NEW i \in 1 .. n, NEW j \in 1 .. n, i < j
        PROVE  256 - (n + 1 - i) * size + size <= 256 - (n + 1 - j) * size
    <2> DEFINE m == n + 1 - i
               l == n + 1 - j
    <2>1. m \in Nat /\ l \in Nat /\ l + 1 <= m
      BY <1>2
    <2> HIDE DEF m, l
    <2>2. (l + 1) * size <= m * size /\ (l + 1) * size = l * size + size
      BY <2>1
    <2>3. l * size \in Nat /\ m * size \in Nat
      BY <2>1
    <2>4. 256 - m * size + size <= 256 - l * size
      BY <2>2, <2>3
    <2>5. QED BY <2>4 DEF m, l
  <1>3. slots \in Seq(Nat) /\ Len(slots) = n
    BY <1>1
  <1>4. \A i \in 1 .. n : slots[i] = 256 - (n + 1 - i) * size
    OBVIOUS
  <1> HIDE DEF slots
  <1>5. Slotted(size, slots)
    <2>1. ASSUME NEW i \in 1 .. n PROVE slots[i] + size <= 256
      BY <1>1, <1>4
    <2>2. ASSUME NEW i \in 1 .. n, NEW j \in 1 .. n, i < j
          PROVE  slots[i] + size <= slots[j]
      <3>1. slots[i] = 256 - (n + 1 - i) * size /\ slots[j] = 256 - (n + 1 - j) * size
        BY <1>4
      <3>2. QED BY <3>1, <2>2, <1>2
    <2>3. QED BY <2>1, <2>2, <1>3 DEF Slotted
  <1>6. QED
    BY <1>5 DEF slots

LEMMA SlotsFit ==
  ASSUME NEW k \in SmallKinds
  PROVE  Slotted(SmallSize(k), Slots(k))
  <1>1. k \in 1 .. 10
    BY DEF SmallKinds
  <1>2. SmallSize(k) \in Nat \ {0} /\ SmallSize(k) <= 256
    BY <1>1 DEF SmallSize, small_object_granule_sizes, GRANULE_SIZE
  <1> DEFINE s == SmallSize(k)
             n == 256 \div s
  <1>3. n \in Nat /\ n * s <= 256
    <2> HIDE DEF s
    <2>1. s \in Nat \ {0}
      BY <1>2 DEF s
    <2>2. n \in Nat /\ 256 = (s * n) + (256 % s) /\ 256 % s \in Nat
      BY <2>1
    <2>3. s * n = n * s /\ s * n \in Nat
      BY <2>1, <2>2
    <2>4. QED BY <2>2, <2>3
  <1>4. Slots(k) = [i \in 1 .. n |-> 256 - (n + 1 - i) * s]
    BY DEF Slots, CHUNK_SIZE
  <1> HIDE DEF s, n
  <1>5. s \in Nat \ {0}
    BY <1>2 DEF s
  <1>6. Slotted(s, [i \in 1 .. n |-> 256 - (n + 1 - i) * s])
    BY <1>3, <1>5, SlotsOfSize
  <1>7. QED
    BY <1>4, <1>6 DEF s

LEMMA SlotFacts ==
  ASSUME NEW k \in SmallKinds
  PROVE  /\ SmallSize(k) \in Nat \ {0}
         /\ Slots(k) \in Seq(Nat)
         /\ IsInjective(Slots(k))
         /\ \A q \in Range(Slots(k)) : q \in Nat /\ q + SmallSize(k) <= 256
         /\ \A q, r \in Range(Slots(k)) :
              q # r => q + SmallSize(k) <= r \/ r + SmallSize(k) <= q
  <1> DEFINE s == Slots(k)
             size == SmallSize(k)
  <1>1. /\ size \in Nat \ {0}
        /\ s \in Seq(Nat)
        /\ \A i \in 1 .. Len(s) : s[i] + size <= 256
        /\ \A i, j \in 1 .. Len(s) : i < j => s[i] + size <= s[j]
    BY SlotsFit DEF Slotted
  <1> HIDE DEF s, size
  <1>2. Len(s) \in Nat /\ \A i \in 1 .. Len(s) : s[i] \in Nat
    BY <1>1, LenProperties, EntryInRange
  <1>3. \A q \in Range(s) : \E i \in 1 .. Len(s) : s[i] = q
    BY <1>1, EntryInRange
  <1>4. \A i, j \in 1 .. Len(s) : s[i] = s[j] => i = j
    BY <1>1, <1>2
  <1>5. IsInjective(s)
    BY <1>1, <1>4, InjectiveList
  <1>6. \A q \in Range(s) : q \in Nat /\ q + size <= 256
    BY <1>1, <1>2, <1>3
  <1>7. ASSUME NEW q \in Range(s), NEW r \in Range(s), q # r
        PROVE  q + size <= r \/ r + size <= q
    <2>1. PICK i \in 1 .. Len(s) : s[i] = q
      BY <1>3
    <2>2. PICK j \in 1 .. Len(s) : s[j] = r
      BY <1>3
    <2>3. i < j \/ j < i
      BY <2>1, <2>2, <1>2, <1>7
    <2>4. QED BY <2>1, <2>2, <2>3, <1>1
  <1>8. QED
    BY <1>1, <1>5, <1>6, <1>7 DEF s, size

\* A chunk of kind GRANULES_32 has one slot.
LEMMA WholeSlot == Range(Slots(GRANULES_32)) = {0} /\ SmallSize(GRANULES_32) = 256
  <1>1. SmallSize(10) = 256
    BY DEF SmallSize, small_object_granule_sizes, GRANULE_SIZE
  <1>2. Slots(10) = [i \in 1 .. 1 |-> 256 - (1 + 1 - i) * 256]
    <2>1. 256 \div 256 = 1
      OBVIOUS
    <2>2. QED BY <1>1, <2>1 DEF Slots, CHUNK_SIZE
  <1>3. Range(Slots(10)) = {0}
    BY <1>2 DEF Range
  <1>4. QED
    BY <1>1, <1>3 DEF GRANULES_32

\* KindFor finds a kind that is large enough, and none only if there is none.
LEMMA KindForFits ==
  ASSUME NEW n \in Nat
  PROVE  \/ KindFor(n) \in SmallKinds /\ SmallSize(KindFor(n)) >= n
         \/ KindFor(n) = LARGE_OBJECT /\ n > 256
  <1> DEFINE fits == {k \in SmallKinds : SmallSize(k) >= n}
  <1>1. KindFor(n) = IF fits = {} THEN LARGE_OBJECT
                     ELSE CHOOSE k \in fits : \A j \in fits : k <= j
    BY DEF KindFor
  <1>2. fits \subseteq Nat
    BY KindFacts
  <1>3. CASE fits = {}
    <2>1. ~(SmallSize(GRANULES_32) >= n)
      BY <1>3, KindFacts
    <2>2. QED BY <1>1, <1>3, <2>1, WholeSlot
  <1>4. CASE fits # {}
    <2> HIDE DEF fits
    <2>1. \E k \in fits : \A j \in fits : k <= j
      BY <1>2, <1>4, LeastNumber
    <2>2. KindFor(n) \in fits
      BY <1>1, <1>4, <2>1
    <2>3. QED BY <2>2 DEF fits
  <1>5. QED
    BY <1>3, <1>4

-----------------------------------------------------------------------------
(* The heap over a tiling.  X holds the items that a step has in hand: they  *)
(* are in no list and no object is in them, so that nothing is said of their *)
(* headers.                                                                  *)

Heaps ==
  [kinds : [Chunks -> Nat], size : [Chunks -> Nat], large : Seq(Nat),
   small : [SmallKinds -> Seq(Nat \X Nat)], compact : BOOLEAN, pages : Nat,
   fits : BOOLEAN, sane : BOOLEAN]

\* The size field of the large object at i agrees with where it ends.
Spans(h, f, i) == h.size[i] + 16 = 256 * (f[i] - i)

Item(h, f, i) ==
  \/ h.kinds[i] \in SmallKinds /\ f[i] = i + 1
  \/ h.kinds[i] = LARGE_OBJECT /\ Spans(h, f, i)
  \/ h.kinds[i] = FREE_LARGE_OBJECT /\ Spans(h, f, i) /\ h.size[i] >= 256

SmallList(h, f, X, k) ==
  /\ IsInjective(h.small[k])
  /\ \A p \in Range(h.small[k]) :
       p[1] \in DOMAIN f \ X /\ h.kinds[p[1]] = k /\ p[2] \in Range(Slots(k))

Sound(h, f, X) ==
  /\ h \in Heaps /\ h.sane
  /\ X \subseteq DOMAIN f
  /\ \A i \in DOMAIN f \ X : Item(h, f, i)
  /\ IsInjective(h.large)
  /\ Range(h.large) = {i \in DOMAIN f \ X : h.kinds[i] = FREE_LARGE_OBJECT}
  /\ \A k \in SmallKinds : SmallList(h, f, X, k)

\* An object in use: its place, and that it is as large as asked for.
Object(h, f, X, x) ==
  /\ x \in (Nat \X Nat) \X Nat
  /\ x[1][1] \in DOMAIN f \ X
  /\ \/ /\ h.kinds[x[1][1]] = LARGE_OBJECT
        /\ x[1][2] = 16 /\ h.size[x[1][1]] >= x[2] /\ h.size[x[1][1]] >= 256
     \/ /\ h.kinds[x[1][1]] \in SmallKinds
        /\ x[1][2] \in Range(Slots(h.kinds[x[1][1]]))
        /\ SmallSize(h.kinds[x[1][1]]) >= x[2]
        /\ x[1] \notin Range(h.small[h.kinds[x[1][1]]])

Uses(h, f, L, X) ==
  /\ \A x \in L : Object(h, f, X, x)
  /\ \A x, y \in L : x[1] = y[1] => x = y

State(h, f, L, X, top) == Tiling(f, top) /\ Sound(h, f, X) /\ Uses(h, f, L, X)

\* No two free large objects are beside each other, unless compaction is pending.
Merged(h, f) == h.compact \/ Spread(f, Range(h.large))

\* The heap between two calls.
Tidy(h, f, L, top) == State(h, f, L, {}, top) /\ Merged(h, f)

\* A large object in nobody's hands yet: allocate_large_object's result.
Held(h, f, L, o) ==
  /\ o \in DOMAIN f /\ h.kinds[o] = LARGE_OBJECT
  /\ \A x \in L : x[1][1] # o

LEMMA HeapParts ==
  ASSUME NEW h \in Heaps
  PROVE  /\ h.kinds \in [Chunks -> Nat] /\ h.size \in [Chunks -> Nat]
         /\ h.large \in Seq(Nat)
         /\ h.small \in [SmallKinds -> Seq(Nat \X Nat)]
         /\ h.compact \in BOOLEAN /\ h.pages \in Nat
         /\ h.fits \in BOOLEAN /\ h.sane \in BOOLEAN
  BY DEF Heaps

\* The headers of items in hand, of chunks that are no items, and the rest of the
\* variables may change.
LEMMA Frame ==
  ASSUME NEW h, NEW f, NEW L, NEW X, NEW top, State(h, f, L, X, top),
         NEW g \in Heaps, g.sane, g.large = h.large, g.small = h.small,
         \A i \in DOMAIN f \ X : g.kinds[i] = h.kinds[i] /\ g.size[i] = h.size[i]
  PROVE  State(g, f, L, X, top)
  <1>1. Sound(h, f, X) /\ Uses(h, f, L, X) /\ Tiling(f, top)
    BY DEF State
  <1>2. \A i \in DOMAIN f \ X : Item(g, f, i)
    BY <1>1 DEF Sound, Item, Spans
  <1>3. Range(g.large) = {i \in DOMAIN f \ X : g.kinds[i] = FREE_LARGE_OBJECT}
    BY <1>1 DEF Sound
  <1>4. ASSUME NEW k \in SmallKinds PROVE SmallList(g, f, X, k)
    BY <1>1 DEF Sound, SmallList
  <1>5. Sound(g, f, X)
    BY <1>1, <1>2, <1>3, <1>4 DEF Sound
  <1>6. ASSUME NEW x \in L PROVE Object(g, f, X, x)
    <2>1. Object(h, f, X, x) /\ x[1][1] \in DOMAIN f \ X
      BY <1>1 DEF Uses, Object
    <2>2. g.kinds[x[1][1]] = h.kinds[x[1][1]] /\ g.size[x[1][1]] = h.size[x[1][1]]
      BY <2>1
    <2>3. QED BY <2>1, <2>2 DEF Object
  <1>7. Uses(g, f, L, X)
    BY <1>1, <1>6 DEF Uses
  <1>8. QED
    BY <1>1, <1>5, <1>7 DEF State

\* An item in hand becomes a used large object.
LEMMA Settle ==
  ASSUME NEW h, NEW f, NEW L, NEW X, NEW top, State(h, f, L, X, top),
         NEW o \in X, h.kinds[o] = LARGE_OBJECT, Spans(h, f, o)
  PROVE  State(h, f, L, X \ {o}, top) /\ Held(h, f, L, o)
  <1> DEFINE Y == X \ {o}
  <1>1. Sound(h, f, X) /\ Uses(h, f, L, X) /\ Tiling(f, top)
    BY DEF State
  <1>2. X \subseteq DOMAIN f
    BY <1>1 DEF Sound
  <1>3. \A i \in DOMAIN f \ Y : Item(h, f, i)
    BY <1>1 DEF Sound, Item
  <1>4. Range(h.large) = {i \in DOMAIN f \ Y : h.kinds[i] = FREE_LARGE_OBJECT}
    BY <1>1, KindFacts DEF Sound
  <1>5. ASSUME NEW k \in SmallKinds PROVE SmallList(h, f, Y, k)
    BY <1>1 DEF Sound, SmallList
  <1>6. Sound(h, f, Y)
    BY <1>1, <1>2, <1>3, <1>4, <1>5 DEF Sound
  <1>7. \A x \in L : Object(h, f, Y, x) /\ x[1][1] # o
    BY <1>1 DEF Uses, Object
  <1>8. Uses(h, f, L, Y)
    BY <1>1, <1>7 DEF Uses
  <1>9. QED
    BY <1>1, <1>2, <1>6, <1>7, <1>8 DEF State, Held

\* A used large object is taken in hand.
LEMMA LetGo ==
  ASSUME NEW h, NEW f, NEW L, NEW X, NEW top, State(h, f, L, X, top),
         NEW o, o \notin X, Held(h, f, L, o)
  PROVE  State(h, f, L, X \cup {o}, top)
  <1> DEFINE Y == X \cup {o}
  <1>1. Sound(h, f, X) /\ Uses(h, f, L, X) /\ Tiling(f, top)
    BY DEF State
  <1>2. o \in DOMAIN f \ X /\ h.kinds[o] = LARGE_OBJECT /\ \A x \in L : x[1][1] # o
    BY DEF Held
  <1>3. Range(h.large) = {i \in DOMAIN f \ Y : h.kinds[i] = FREE_LARGE_OBJECT}
    BY <1>1, <1>2, KindFacts DEF Sound
  <1>4. ASSUME NEW k \in SmallKinds PROVE SmallList(h, f, Y, k)
    <2>1. k # LARGE_OBJECT
      BY KindFacts
    <2>2. QED BY <1>1, <1>2, <2>1 DEF Sound, SmallList
  <1>5. Sound(h, f, Y)
    BY <1>1, <1>2, <1>3, <1>4 DEF Sound
  <1>6. \A x \in L : Object(h, f, Y, x)
    BY <1>1, <1>2 DEF Uses, Object
  <1>7. QED
    BY <1>1, <1>5, <1>6 DEF State, Uses

\* A free object is taken off the list, and in hand.
LEMMA TakeOff ==
  ASSUME NEW h, NEW f, NEW L, NEW X, NEW top, State(h, f, L, X, top),
         NEW o \in Range(h.large)
  PROVE  LET g == [h EXCEPT !.large = RemoveFirst(@, o)]
         IN State(g, f, L, X \cup {o}, top) /\ g \in Heaps /\ o \in DOMAIN f \ X
  <1> DEFINE g == [h EXCEPT !.large = RemoveFirst(@, o)]
             Y == X \cup {o}
  <1>1. Sound(h, f, X) /\ Uses(h, f, L, X) /\ Tiling(f, top)
    BY DEF State
  <1>2. h \in Heaps /\ h.large \in Seq(Nat) /\ IsInjective(h.large)
    BY <1>1, HeapParts DEF Sound
  <1>3. /\ RemoveFirst(h.large, o) \in Seq(Nat)
        /\ IsInjective(RemoveFirst(h.large, o))
        /\ Range(RemoveFirst(h.large, o)) = Range(h.large) \ {o}
    BY <1>2, Removed
  <1>4. /\ g \in Heaps /\ g.large = RemoveFirst(h.large, o)
        /\ g.kinds = h.kinds /\ g.size = h.size /\ g.small = h.small /\ g.sane = h.sane
    BY <1>2, <1>3 DEF Heaps
  <1> HIDE DEF g
  <1>5. o \in DOMAIN f \ X /\ h.kinds[o] = FREE_LARGE_OBJECT
    BY <1>1 DEF Sound
  <1>6. Range(g.large) = {i \in DOMAIN f \ Y : g.kinds[i] = FREE_LARGE_OBJECT}
    BY <1>1, <1>3, <1>4 DEF Sound
  <1>7. ASSUME NEW k \in SmallKinds PROVE SmallList(g, f, Y, k)
    <2>1. k # FREE_LARGE_OBJECT
      BY KindFacts
    <2>2. QED BY <1>1, <1>4, <1>5, <2>1 DEF Sound, SmallList
  <1>8. Sound(g, f, Y)
    <2>1. \A i \in DOMAIN f \ Y : Item(g, f, i)
      BY <1>1, <1>4 DEF Sound, Item, Spans
    <2>2. QED BY <1>1, <1>3, <1>4, <1>5, <1>6, <1>7, <2>1 DEF Sound
  <1>9. ASSUME NEW x \in L PROVE Object(g, f, Y, x)
    <2>1. Object(h, f, X, x)
      BY <1>1 DEF Uses
    <2>2. x[1][1] # o
      BY <2>1, <1>5, KindFacts DEF Object
    <2>3. QED BY <2>1, <2>2, <1>4 DEF Object
  <1>10. QED
    BY <1>1, <1>4, <1>5, <1>8, <1>9 DEF State, Uses, g

-----------------------------------------------------------------------------
(* An item in hand becomes free.                                           *)

\* As a large object.
LEMMA PushLarge ==
  ASSUME NEW h, NEW f, NEW L, NEW X, NEW top, State(h, f, L, X, top),
         NEW o \in X, NEW g \in Heaps, g.sane,
         g.large = <<o>> \o h.large, g.small = h.small,
         \A i \in DOMAIN f \ X : g.kinds[i] = h.kinds[i] /\ g.size[i] = h.size[i],
         g.kinds[o] = FREE_LARGE_OBJECT, Spans(g, f, o), g.size[o] >= 256
  PROVE  State(g, f, L, X \ {o}, top)
  <1> DEFINE Y == X \ {o}
  <1>1. Sound(h, f, X) /\ Uses(h, f, L, X) /\ Tiling(f, top)
    BY DEF State
  <1>2. X \subseteq DOMAIN f /\ h \in Heaps /\ o \in DOMAIN f /\ o \in Nat
    BY <1>1, ItemsAreChunks DEF Sound
  <1>3. h.large \in Seq(Nat) /\ IsInjective(h.large) /\ o \notin Range(h.large)
    BY <1>1, <1>2, HeapParts DEF Sound
  <1>4. IsInjective(g.large) /\ Range(g.large) = {o} \cup Range(h.large)
    BY <1>2, <1>3, Pushed
  <1>5. Range(g.large) = {i \in DOMAIN f \ Y : g.kinds[i] = FREE_LARGE_OBJECT}
    BY <1>1, <1>2, <1>4 DEF Sound
  <1>6. \A i \in DOMAIN f \ Y : Item(g, f, i)
    <2>1. Item(g, f, o)
      BY DEF Item
    <2>2. \A i \in DOMAIN f \ X : Item(g, f, i)
      BY <1>1 DEF Sound, Item, Spans
    <2>3. QED BY <2>1, <2>2
  <1>7. ASSUME NEW k \in SmallKinds PROVE SmallList(g, f, Y, k)
    BY <1>1 DEF Sound, SmallList
  <1>8. Sound(g, f, Y)
    BY <1>2, <1>4, <1>5, <1>6, <1>7 DEF Sound
  <1>9. ASSUME NEW x \in L PROVE Object(g, f, Y, x)
    <2>1. Object(h, f, X, x) /\ x[1][1] \in DOMAIN f \ X
      BY <1>1 DEF Uses, Object
    <2>2. g.kinds[x[1][1]] = h.kinds[x[1][1]] /\ g.size[x[1][1]] = h.size[x[1][1]]
      BY <2>1
    <2>3. QED BY <2>1, <2>2 DEF Object
  <1>10. QED
    BY <1>1, <1>8, <1>9 DEF State, Uses

\* As a whole chunk for small objects.
LEMMA PushWhole ==
  ASSUME NEW h, NEW f, NEW L, NEW X, NEW top, State(h, f, L, X, top),
         NEW o \in X, NEW g \in Heaps, g.sane, g.large = h.large,
         g.small = [h.small EXCEPT ![GRANULES_32] = <<<<o, 0>>>> \o @],
         \A i \in DOMAIN f \ X : g.kinds[i] = h.kinds[i] /\ g.size[i] = h.size[i],
         g.kinds[o] = GRANULES_32, f[o] = o + 1
  PROVE  State(g, f, L, X \ {o}, top)
  <1> DEFINE Y == X \ {o}
             K == GRANULES_32
             p == <<o, 0>>
  <1>1. Sound(h, f, X) /\ Uses(h, f, L, X) /\ Tiling(f, top)
    BY DEF State
  <1>2. X \subseteq DOMAIN f /\ h \in Heaps /\ o \in DOMAIN f /\ o \in Nat
    BY <1>1, ItemsAreChunks DEF Sound
  <1>3. K \in SmallKinds /\ SmallList(h, f, X, K)
    BY <1>1, KindFacts DEF Sound
  <1>4. /\ h.small \in [SmallKinds -> Seq(Nat \X Nat)]
        /\ h.small[K] \in Seq(Nat \X Nat) /\ IsInjective(h.small[K])
    BY <1>2, <1>3, HeapParts DEF SmallList
  <1>5. p \in Nat \X Nat /\ p \notin Range(h.small[K])
    BY <1>2, <1>3 DEF SmallList
  <1>6. /\ IsInjective(<<p>> \o h.small[K])
        /\ Range(<<p>> \o h.small[K]) = {p} \cup Range(h.small[K])
    <2> HIDE DEF K, p
    <2>1. QED BY <1>4, <1>5, Pushed
  <1>7. /\ g.small[K] = <<p>> \o h.small[K]
        /\ \A k \in SmallKinds \ {K} : g.small[k] = h.small[k]
    BY <1>3, <1>4
  <1> HIDE DEF K
  <1>8. \A k \in SmallKinds : k # FREE_LARGE_OBJECT /\ k # LARGE_OBJECT
    BY KindFacts
  <1>9. Range(g.large) = {i \in DOMAIN f \ Y : g.kinds[i] = FREE_LARGE_OBJECT}
    BY <1>1, <1>3, <1>8 DEF Sound, K
  <1>10. \A i \in DOMAIN f \ Y : Item(g, f, i)
    <2>1. Item(g, f, o)
      BY <1>3 DEF Item, K
    <2>2. \A i \in DOMAIN f \ X : Item(g, f, i)
      BY <1>1 DEF Sound, Item, Spans
    <2>3. QED BY <2>1, <2>2
  <1>11. ASSUME NEW k \in SmallKinds PROVE SmallList(g, f, Y, k)
    <2>1. SmallList(h, f, X, k)
      BY <1>1 DEF Sound
    <2>2. CASE k # K
      BY <2>1, <2>2, <1>7 DEF SmallList
    <2>3. CASE k = K
      <3>1. p[1] = o /\ p[2] = 0 /\ 0 \in Range(Slots(K))
        BY WholeSlot DEF K
      <3>2. \A q \in Range(h.small[K]) :
              q[1] \in DOMAIN f \ X /\ h.kinds[q[1]] = K /\ q[2] \in Range(Slots(K))
        BY <2>1, <2>3 DEF SmallList
      <3> HIDE DEF p
      <3>3. \A q \in Range(g.small[K]) :
              q[1] \in DOMAIN f \ Y /\ g.kinds[q[1]] = K /\ q[2] \in Range(Slots(K))
        BY <1>2, <1>6, <1>7, <3>1, <3>2 DEF K
      <3>4. QED BY <2>3, <3>3, <1>6, <1>7 DEF SmallList
    <2>4. QED BY <2>2, <2>3
  <1>12. Sound(g, f, Y)
    BY <1>1, <1>2, <1>9, <1>10, <1>11 DEF Sound
  <1>13. ASSUME NEW x \in L PROVE Object(g, f, Y, x)
    <2>1. Object(h, f, X, x) /\ x[1][1] \in DOMAIN f \ X
      BY <1>1 DEF Uses, Object
    <2>2. g.kinds[x[1][1]] = h.kinds[x[1][1]] /\ g.size[x[1][1]] = h.size[x[1][1]]
      BY <2>1
    <2>3. x[1] # p
      BY <2>1
    <2>4. h.kinds[x[1][1]] \in SmallKinds /\ x[1] \notin Range(h.small[h.kinds[x[1][1]]])
            => x[1] \notin Range(g.small[h.kinds[x[1][1]]])
      BY <2>3, <1>6, <1>7
    <2>5. QED BY <2>1, <2>2, <2>4 DEF Object
  <1>14. QED
    BY <1>1, <1>12, <1>13 DEF State, Uses

\* The parts of what PushFree makes.
LEMMA PushFreeParts ==
  ASSUME NEW h \in Heaps, NEW o \in Chunks, NEW n \in Nat
  PROVE  LET g == PushFree(h, o, n)
         IN /\ g \in Heaps
            /\ g.sane = h.sane
            /\ \A c \in Chunks \ {o} : g.kinds[c] = h.kinds[c] /\ g.size[c] = h.size[c]
            /\ g.size[o] = n
            /\ n < 256 => /\ g.kinds[o] = GRANULES_32 /\ g.large = h.large
                          /\ g.small = [h.small EXCEPT ![GRANULES_32] = <<<<o, 0>>>> \o @]
            /\ n >= 256 => /\ g.kinds[o] = FREE_LARGE_OBJECT
                           /\ g.large = <<o>> \o h.large /\ g.small = h.small
  <1>1. /\ h.kinds \in [Chunks -> Nat] /\ h.size \in [Chunks -> Nat]
        /\ h.large \in Seq(Nat)
        /\ h.small \in [SmallKinds -> Seq(Nat \X Nat)]
    BY HeapParts
  <1>2. /\ GRANULES_32 \in SmallKinds /\ GRANULES_32 \in Nat /\ FREE_LARGE_OBJECT \in Nat
        /\ o \in Nat
    BY KindFacts DEF Chunks
  <1>3. <<o>> \o h.large \in Seq(Nat)
    <2>1. <<o>> \in Seq(Nat)
      BY <1>2
    <2>2. QED BY <2>1, <1>1, ConcatProperties
  <1>4. <<<<o, 0>>>> \o h.small[GRANULES_32] \in Seq(Nat \X Nat)
    <2>1. <<<<o, 0>>>> \in Seq(Nat \X Nat) /\ h.small[GRANULES_32] \in Seq(Nat \X Nat)
      BY <1>1, <1>2
    <2>2. QED BY <2>1, ConcatProperties
  <1>5. CASE n < 256
    <2> DEFINE g == PushFree(h, o, n)
               w == <<<<o, 0>>>> \o h.small[GRANULES_32]
    <2>1. g = [h EXCEPT !.kinds = [@ EXCEPT ![o] = GRANULES_32],
                        !.size = [@ EXCEPT ![o] = n],
                        !.small = [@ EXCEPT ![GRANULES_32] = w]]
      BY <1>5, <1>1 DEF PushFree, Mark, CHUNK_SIZE, Heaps
    <2> HIDE DEF g, w
    <2>2. /\ g.kinds = [h.kinds EXCEPT ![o] = GRANULES_32]
          /\ g.size = [h.size EXCEPT ![o] = n]
          /\ g.small = [h.small EXCEPT ![GRANULES_32] = w]
          /\ g.large = h.large /\ g.sane = h.sane
          /\ g \in Heaps
      BY <2>1, <1>1, <1>2, <1>4 DEF Heaps, w
    <2>3. QED BY <2>2, <1>1, <1>5 DEF g, w
  <1>6. CASE ~(n < 256)
    <2> DEFINE g == PushFree(h, o, n)
               w == <<o>> \o h.large
    <2>1. g = [h EXCEPT !.kinds = [@ EXCEPT ![o] = FREE_LARGE_OBJECT],
                        !.size = [@ EXCEPT ![o] = n],
                        !.large = w]
      BY <1>6, <1>1 DEF PushFree, Mark, CHUNK_SIZE, Heaps
    <2> HIDE DEF g, w
    <2>2. /\ g.kinds = [h.kinds EXCEPT ![o] = FREE_LARGE_OBJECT]
          /\ g.size = [h.size EXCEPT ![o] = n]
          /\ g.large = w
          /\ g.small = h.small /\ g.sane = h.sane
          /\ g \in Heaps
      BY <2>1, <1>1, <1>2, <1>3 DEF Heaps, w
    <2>3. QED BY <2>2, <1>1, <1>6 DEF g, w
  <1>7. QED
    BY <1>5, <1>6

\* What push_free makes of an item in hand.
FreedAt(g, h, f, L, X, top, o) ==
  /\ State(g, f, L, X \ {o}, top)
  /\ g \in Heaps
  /\ \A c \in Chunks \ {o} : g.kinds[c] = h.kinds[c] /\ g.size[c] = h.size[c]
LEMMA Freed ==
  ASSUME NEW h, NEW f, NEW L, NEW X, NEW top, State(h, f, L, X, top),
         NEW o \in X, NEW n \in Nat, n + 16 = 256 * (f[o] - o)
  PROVE  FreedAt(PushFree(h, o, n), h, f, L, X, top, o)
  <1> DEFINE g == PushFree(h, o, n)
  <1>1. Sound(h, f, X) /\ Tiling(f, top) /\ h \in Heaps /\ h.sane /\ X \subseteq DOMAIN f
    BY DEF State, Sound
  <1>2. DOMAIN f \subseteq Chunks /\ o \in DOMAIN f /\ o \in Chunks
    BY <1>1, ItemsAreChunks
  <1>3. /\ g \in Heaps
        /\ g.sane = h.sane
        /\ \A c \in Chunks \ {o} : g.kinds[c] = h.kinds[c] /\ g.size[c] = h.size[c]
        /\ g.size[o] = n
        /\ n < 256 => /\ g.kinds[o] = GRANULES_32 /\ g.large = h.large
                      /\ g.small = [h.small EXCEPT ![GRANULES_32] = <<<<o, 0>>>> \o @]
        /\ n >= 256 => /\ g.kinds[o] = FREE_LARGE_OBJECT
                       /\ g.large = <<o>> \o h.large /\ g.small = h.small
    <2>1. h \in Heaps /\ o \in Chunks
      BY <1>1, <1>2
    <2>2. QED BY ONLY <2>1, n \in Nat, PushFreeParts, ZenonT(60)
  <1> HIDE DEF g
  <1>4. \A i \in DOMAIN f \ X : g.kinds[i] = h.kinds[i] /\ g.size[i] = h.size[i]
    BY <1>2, <1>3
  <1>5. f[o] \in Nat /\ o \in Nat /\ o < f[o]
    BY <1>1, <1>2 DEF Tiling, ItemFits
  <1>6. State(g, f, L, X \ {o}, top)
    <2>1. CASE n < 256
      <3>1. f[o] = o + 1
        BY <2>1, <1>5
      <3>2. QED BY <3>1, <2>1, <1>1, <1>3, <1>4, PushWhole
    <2>2. CASE n >= 256
      <3>1. Spans(g, f, o)
        BY <1>3 DEF Spans
      <3>2. QED BY <3>1, <2>2, <1>1, <1>3, <1>4, PushLarge
    <2>3. QED BY <2>1, <2>2
  <1>7. QED
    BY <1>3, <1>6 DEF g, FreedAt

-----------------------------------------------------------------------------
(* Cutting, adding and joining items.                                      *)

LEMMA CutState ==
  ASSUME NEW f, NEW i, NEW c, NEW d, NEW g, Cuts(f, i, c, d, g),
         NEW h, NEW L, NEW X, NEW top, State(h, f, L, X, top), i \in X
  PROVE  /\ State(h, g, L, X \cup {d}, top)
         /\ d \notin DOMAIN f
         /\ g[i] = c /\ g[d] = f[i]
  <1> DEFINE Y == X \cup {d}
  <1>1. Sound(h, f, X) /\ Uses(h, f, L, X) /\ Tiling(f, top) /\ X \subseteq DOMAIN f
    BY DEF State, Sound
  <1>0. DOMAIN g = DOMAIN f \cup {d}
    BY DEF Cuts, CutAt
  <1>2. /\ Tiling(g, top)
        /\ d \notin DOMAIN f
        /\ g[i] = c /\ g[d] = f[i]
        /\ \A x \in DOMAIN f \ {i} : g[x] = f[x]
    BY <1>1, CutTiling
  <1>3. /\ DOMAIN g \ Y = DOMAIN f \ X
        /\ \A x \in DOMAIN f \ X : g[x] = f[x]
    BY <1>0, <1>1, <1>2
  <1>4. Sound(h, g, Y)
    <2>1. \A x \in DOMAIN g \ Y : Item(h, g, x)
      BY <1>1, <1>3 DEF Sound, Item, Spans
    <2>2. \A k \in SmallKinds : SmallList(h, g, Y, k)
      BY <1>1, <1>3 DEF Sound, SmallList
    <2>3. QED BY <2>1, <2>2, <1>0, <1>1, <1>2, <1>3 DEF Sound
  <1>5. Uses(h, g, L, Y)
    BY <1>1, <1>3 DEF Uses, Object
  <1>6. QED
    BY <1>2, <1>4, <1>5 DEF State

LEMMA AddState ==
  ASSUME NEW h, NEW f, NEW L, NEW top, State(h, f, L, {}, top),
         NEW new \in Nat, new <= LastBreak,
         NEW s \in Nat, Index(s) = 0, top <= s,
         NEW e \in Nat, Index(e) = 0, s < e, e <= new
  PROVE  LET g == AddAt(f, s + 1, e)
         IN /\ State(h, g, L, {s + 1}, new)
            /\ s + 1 \in DOMAIN g /\ g[s + 1] = e
            /\ s + 1 \notin DOMAIN f
  <1> DEFINE o == s + 1
             g == AddAt(f, s + 1, e)
  <1>1. Sound(h, f, {}) /\ Uses(h, f, L, {}) /\ Tiling(f, top)
    BY DEF State
  <1>2. /\ Tiling(g, new)
        /\ DOMAIN g = DOMAIN f \cup {o}
        /\ o \notin DOMAIN f
        /\ g[o] = e
        /\ \A x \in DOMAIN f : g[x] = f[x]
    BY <1>1, AddTiling
  <1> HIDE DEF g, o
  <1>3. DOMAIN g \ {o} = DOMAIN f \ {}
    BY <1>2
  <1>4. Sound(h, g, {o})
    <2>1. \A x \in DOMAIN g \ {o} : Item(h, g, x)
      BY <1>1, <1>2, <1>3 DEF Sound, Item, Spans
    <2>2. \A k \in SmallKinds : SmallList(h, g, {o}, k)
      BY <1>1, <1>3 DEF Sound, SmallList
    <2>3. QED BY <2>1, <2>2, <1>1, <1>2, <1>3 DEF Sound
  <1>5. Uses(h, g, L, {o})
    BY <1>1, <1>3 DEF Uses, Object
  <1>6. QED
    BY <1>2, <1>4, <1>5 DEF State, g, o

LEMMA MoreRoomState ==
  ASSUME NEW h, NEW f, NEW L, NEW X, NEW top, State(h, f, L, X, top),
         NEW new \in Nat, new <= LastBreak, top <= new
  PROVE  State(h, f, L, X, new)
  BY MoreRoom DEF State

LEMMA Fewer ==
  ASSUME NEW h, NEW f, NEW L, NEW X, NEW top, State(h, f, L, X, top),
         NEW M \in SUBSET L
  PROVE  State(h, f, M, X, top)
  BY DEF State, Uses

\* EndOf computes where a large object ends.
LEMMA EndOfItem ==
  ASSUME NEW h, NEW f, NEW top, Tiling(f, top), h \in Heaps,
         NEW o \in DOMAIN f, Spans(h, f, o)
  PROVE  EndOf(h, o) = f[o] /\ h.size[o] \in Nat /\ f[o] \in Nat /\ o \in Nat /\ o < f[o]
  <1>1. o \in Nat /\ f[o] \in Nat /\ o < f[o] /\ o \in Chunks
    BY ItemsAreChunks DEF Tiling, ItemFits
  <1>2. h.size[o] \in Nat
    BY <1>1, HeapParts
  <1>3. 16 + h.size[o] = 256 * (f[o] - o)
    BY <1>1, <1>2 DEF Spans
  <1> DEFINE n == f[o] - o
  <1>4. (256 * n) \div 256 = n
    BY <1>1
  <1>5. EndOf(h, o) = o + n
    BY <1>3, <1>4 DEF EndOf, LARGE_OBJECT_HEADER_SIZE, CHUNK_SIZE
  <1>6. QED
    BY <1>1, <1>2, <1>5

\* Object o absorbs the free object e after it.
LEMMA Absorbed ==
  ASSUME NEW h, NEW f, NEW L, NEW top, State(h, f, L, {}, top),
         NEW o \in Range(h.large), Index(f[o]) # 0, h.kinds[f[o]] = FREE_LARGE_OBJECT
  PROVE  LET g == Absorb(h, o, f[o])
         IN /\ State(g, JoinAt(f, o), L, {}, top)
            /\ f[o] \in Range(h.large) /\ f[o] # o
            /\ g.large = RemoveFirst(h.large, f[o])
            /\ \A x \in Range(h.large) \ {o, f[o]} : JoinAt(f, o)[x] = f[x]
  <1> DEFINE e == f[o]
             w == JoinAt(f, o)
             list == RemoveFirst(h.large, e)
             n == h.size[o] + 16 + h.size[e]
             g == Absorb(h, o, e)
  <1>1. Sound(h, f, {}) /\ Uses(h, f, L, {}) /\ Tiling(f, top) /\ h \in Heaps
        /\ h.sane
    BY DEF State, Sound
  <1>2. o \in DOMAIN f /\ h.kinds[o] = FREE_LARGE_OBJECT
    BY <1>1 DEF Sound
  <1>3. /\ Tiling(w, top)
        /\ e \in DOMAIN f /\ e # o
        /\ DOMAIN w = DOMAIN f \ {e}
        /\ w[o] = f[e]
        /\ \A x \in DOMAIN w \ {o} : w[x] = f[x]
    <2>1. o \in DOMAIN f /\ Tiling(f, top)
      BY <1>1, <1>2
    <2>2. QED BY ONLY <2>1, Index(f[o]) # 0, JoinTiling, ZenonT(60)
  <1>4. e \in Range(h.large) /\ h.kinds[e] = FREE_LARGE_OBJECT
    BY <1>1, <1>3 DEF Sound
  <1>5. Spans(h, f, o) /\ Spans(h, f, e) /\ h.size[o] >= 256
    BY <1>1, <1>2, <1>3, <1>4, KindFacts DEF Sound, Item
  <1>6. /\ h.size[o] \in Nat /\ h.size[e] \in Nat /\ o \in Nat /\ e \in Nat /\ f[e] \in Nat
        /\ o \in Chunks
    BY <1>1, <1>2, <1>3, <1>5, EndOfItem, ItemsAreChunks
  <1>7. h.large \in Seq(Nat) /\ IsInjective(h.large)
    BY <1>1, HeapParts DEF Sound
  <1>8. /\ list \in Seq(Nat) /\ IsInjective(list)
        /\ Range(list) = Range(h.large) \ {e}
    <2> HIDE DEF e
    <2>1. QED BY <1>4, <1>7, Removed
  <1>9. /\ g \in Heaps
        /\ g.large = list /\ g.kinds = h.kinds /\ g.small = h.small /\ g.sane = h.sane
        /\ g.size = [h.size EXCEPT ![o] = n]
    <2>1. n \in Nat /\ n = h.size[o] + LARGE_OBJECT_HEADER_SIZE + h.size[e]
      BY <1>6 DEF LARGE_OBJECT_HEADER_SIZE
    <2>2. g = [h EXCEPT !.large = list, !.size = [@ EXCEPT ![o] = n]]
      BY <2>1, <1>1 DEF Absorb, Heaps
    <2> HIDE DEF g, list, n, e
    <2>3. QED BY <2>1, <2>2, <1>1, <1>6, <1>8 DEF Heaps
  <1> HIDE DEF g, list, w
  <1>10. h.size \in [Chunks -> Nat]
    BY <1>1, HeapParts
  <1>11. g.size[o] = n /\ \A c \in Chunks \ {o} : g.size[c] = h.size[c]
    BY <1>6, <1>9, <1>10
  <1>12. Spans(g, w, o) /\ g.size[o] >= 256
    <2>1. h.size[o] + 16 = 256 * (e - o) /\ h.size[e] + 16 = 256 * (f[e] - e)
      BY <1>5 DEF Spans
    <2>2. n + 16 = 256 * (f[e] - o) /\ n >= 256
      BY <2>1, <1>5, <1>6
    <2> HIDE DEF n, e
    <2>3. QED BY <2>2, <1>3, <1>11 DEF Spans
  <1>13. DOMAIN f \subseteq Chunks
    BY <1>1, ItemsAreChunks
  <1> HIDE DEF n, e
  <1>14. ASSUME NEW x \in DOMAIN w \ {} PROVE Item(g, w, x)
    <2>1. CASE x = o
      BY <2>1, <1>2, <1>9, <1>12 DEF Item
    <2>2. CASE x # o
      <3>1. /\ x \in DOMAIN f \ {} /\ x \in Chunks /\ w[x] = f[x]
            /\ g.size[x] = h.size[x] /\ g.kinds[x] = h.kinds[x]
        BY <2>2, <1>3, <1>9, <1>11, <1>13
      <3>2. Item(h, f, x)
        BY <3>1, <1>1 DEF Sound
      <3>3. QED BY <3>1, <3>2 DEF Item, Spans
    <2>3. QED BY <2>1, <2>2
  <1>15. Range(g.large) = {x \in DOMAIN w \ {} : g.kinds[x] = FREE_LARGE_OBJECT}
    BY <1>1, <1>3, <1>8, <1>9 DEF Sound
  <1>16. ASSUME NEW k \in SmallKinds PROVE SmallList(g, w, {}, k)
    <2>1. k # FREE_LARGE_OBJECT
      BY KindFacts
    <2>2. QED BY <2>1, <1>1, <1>3, <1>4, <1>9 DEF Sound, SmallList
  <1>17. Sound(g, w, {})
    BY <1>1, <1>8, <1>9, <1>14, <1>15, <1>16 DEF Sound
  <1>18. ASSUME NEW x \in L PROVE Object(g, w, {}, x)
    <2>1. Object(h, f, {}, x)
      BY <1>1 DEF Uses
    <2>2. x[1][1] # o /\ x[1][1] # e
      BY <2>1, <1>2, <1>4, KindFacts DEF Object
    <2>3. x[1][1] \in DOMAIN w \ {} /\ g.size[x[1][1]] = h.size[x[1][1]]
      BY <2>1, <2>2, <1>3, <1>11, <1>13 DEF Object
    <2>4. QED BY <2>1, <2>3, <1>9 DEF Object
  <1>19. State(g, w, L, {}, top)
    BY <1>1, <1>3, <1>17, <1>18 DEF State, Uses
  <1>20. \A x \in Range(h.large) \ {o, e} : w[x] = f[x]
    BY <1>1, <1>3 DEF Sound
  <1>21. QED
    BY <1>3, <1>4, <1>9, <1>19, <1>20 DEF g, w, e, list

-----------------------------------------------------------------------------
(* Splitting.                                                              *)

\* Division with remainder has one answer.
LEMMA DivUnique ==
  ASSUME NEW a \in Nat, NEW b \in Nat \ {0}, NEW q \in Nat, NEW r \in Nat,
         a = b * q + r, r < b
  PROVE  a \div b = q /\ a % b = r
  <1> DEFINE p == a \div b
             s == a % b
  <1>1. p \in Nat /\ s \in Nat /\ s < b /\ a = b * p + s
    OBVIOUS
  <1> HIDE DEF p, s
  <1>2. p <= q
    <2> SUFFICES ASSUME q + 1 <= p PROVE FALSE
      BY <1>1
    <2>1. b * (q + 1) <= b * p /\ b * (q + 1) = b * q + b
      BY <1>1
    <2>2. b * p \in Nat /\ b * q \in Nat
      BY <1>1
    <2>3. QED BY <1>1, <2>1, <2>2
  <1>3. q <= p
    <2> SUFFICES ASSUME p + 1 <= q PROVE FALSE
      BY <1>1
    <2>1. b * (p + 1) <= b * q /\ b * (p + 1) = b * p + b
      BY <1>1
    <2>2. b * p \in Nat /\ b * q \in Nat
      BY <1>1
    <2>3. QED BY <1>1, <2>1, <2>2
  <1>4. p = q
    BY <1>1, <1>2, <1>3
  <1>5. QED
    BY <1>1, <1>4 DEF p, s

\* The page of a byte is that of its chunk.
LEMMA ChunkBytes ==
  ASSUME NEW c \in Nat, NEW b \in Nat, b < 256
  PROVE  /\ PAGE_SIZE \in Nat \ {0} /\ PAGE_SIZE = 256 * PageUnits
         /\ (256 * c + b) \div PAGE_SIZE = PageOf(c)
         /\ (256 * c + b) % PAGE_SIZE = 256 * Index(c) + b
  <1> DEFINE S == PAGE_SIZE
             a == 256 * c + b
             q == PageOf(c)
             r == 256 * Index(c) + b
  <1>1. /\ PageUnits \in Nat /\ PageUnits > 2
        /\ q \in Nat /\ PageStart(c) \in Nat /\ PageStart(c) <= c
        /\ c < PageStart(c) + PageUnits /\ Index(c) = c - PageStart(c)
    BY PageFacts
  <1>2. S = 256 * PageUnits /\ S \in Nat \ {0}
    <2>1. S = PageUnits * 256
      BY DEF PAGE_SIZE, CHUNK_SIZE
    <2> HIDE DEF S
    <2>2. QED BY <2>1, <1>1
  <1>3. PageStart(c) = q * PageUnits
    BY DEF PageStart
  <1> HIDE DEF S, q
  <1>4. S * q = 256 * PageStart(c)
    <2>1. S * q = (256 * PageUnits) * q
      BY <1>2
    <2>2. (256 * PageUnits) * q = 256 * (q * PageUnits)
      BY <1>1
    <2>3. QED BY <2>1, <2>2, <1>3
  <1>5. a \in Nat /\ r \in Nat /\ r < S /\ a = S * q + r
    BY <1>1, <1>2, <1>4
  <1> HIDE DEF a, r
  <1>6. a \div S = q /\ a % S = r
    <2>1. q \in Nat
      BY <1>1
    <2>2. S \in Nat \ {0}
      BY <1>2
    <2>3. a \in Nat /\ r \in Nat /\ r < S /\ a = S * q + r
      BY <1>5
    <2>4. QED BY ONLY <2>1, <2>2, <2>3, DivUnique, Zenon
  <1>7. QED
    BY <1>2, <1>6 DEF S, a, q, r

\* The whole chunks of a number of bytes.
LEMMA WholeChunksOf ==
  ASSUME NEW n \in Nat
  PROVE  \E t \in Nat : /\ WholeChunks(n) = 256 * t
                        /\ 256 * t <= n /\ n < 256 * t + 256
  <1> DEFINE t == n \div 256
  <1>1. t \in Nat /\ 256 * t <= n /\ n < 256 * t + 256
    OBVIOUS
  <1>2. WholeChunks(n) = 256 * t
    BY <1>1 DEF WholeChunks, CHUNK_SIZE
  <1>3. QED
    BY <1>1, <1>2

\* What is known of a large object in nobody's hands.
LEMMA HeldFacts ==
  ASSUME NEW h, NEW f, NEW L, NEW X, NEW top, State(h, f, L, X, top),
         NEW o, o \notin X, Held(h, f, L, o)
  PROVE  /\ Spans(h, f, o) /\ EndOf(h, o) = f[o]
         /\ h \in Heaps /\ h.sane /\ o \in Chunks
         /\ o \in Nat /\ o # 0 /\ f[o] \in Nat /\ o < f[o] /\ f[o] <= top
         /\ Index(o) # 0 /\ PageEnd(o) <= top
         /\ Index(f[o]) = 0 \/ f[o] < PageEnd(o)
         /\ h.size[o] \in Nat /\ h.size[o] = 256 * (f[o] - o) - 16
  <1>1. Sound(h, f, X) /\ Tiling(f, top) /\ o \in DOMAIN f \ X
        /\ h.kinds[o] = LARGE_OBJECT
    BY DEF State, Held
  <1>2. h \in Heaps /\ h.sane /\ Item(h, f, o)
    BY <1>1 DEF Sound
  <1>3. Spans(h, f, o)
    BY <1>1, <1>2, KindFacts DEF Item
  <1>4. ItemFits(f, o, top)
    BY <1>1 DEF Tiling
  <1>5. EndOf(h, o) = f[o] /\ h.size[o] \in Nat /\ f[o] \in Nat /\ o \in Nat /\ o < f[o]
    BY <1>1, <1>2, <1>3, EndOfItem
  <1>6. h.size[o] + 16 = 256 * (f[o] - o)
    BY <1>3 DEF Spans
  <1>7. o \in Chunks /\ o # 0
    BY <1>1, ItemsAreChunks
  <1>8. /\ Index(o) # 0 /\ PageEnd(o) <= top /\ f[o] <= top
        /\ Index(f[o]) = 0 \/ f[o] < PageEnd(o)
    BY <1>4 DEF ItemFits
  <1>9. h.size[o] = 256 * (f[o] - o) - 16
    BY <1>5, <1>6
  <1>10. QED
    BY <1>2, <1>3, <1>5, <1>7, <1>8, <1>9

LEMMA AssertedTrue ==
  ASSUME NEW h \in Heaps, h.sane, NEW p, p
  PROVE  Asserted(h, p) = h
  BY DEF Asserted, Heaps

\* An object of whole chunks, with its header, ends where a chunk does.
LEMMA WholeSize ==
  ASSUME NEW n \in Nat, NEW k \in Nat, n + 16 = 256 * k
  PROVE  WholeObject(n)
  <1>1. 16 + n = 256 * k
    OBVIOUS
  <1>2. (256 * k) % 256 = 0
    OBVIOUS
  <1>3. QED
    BY <1>1, <1>2 DEF WholeObject, LARGE_OBJECT_HEADER_SIZE, CHUNK_SIZE

LEMMA ReturnedIsWhole ==
  ASSUME NEW h, NEW f, NEW L, NEW X, NEW top, State(h, f, L, X, top),
         NEW o, o \notin X, Held(h, f, L, o)
  PROVE  Returned(h, o) = [obj |-> o, heap |-> h]
  <1>1. /\ h \in Heaps /\ h.sane /\ o \in Nat /\ f[o] \in Nat /\ o < f[o]
        /\ h.size[o] \in Nat /\ h.size[o] = 256 * (f[o] - o) - 16
    BY HeldFacts
  <1>2. f[o] - o \in Nat /\ h.size[o] + 16 = 256 * (f[o] - o)
    BY <1>1
  <1>3. WholeObject(h.size[o])
    BY <1>1, <1>2, WholeSize
  <1>4. Asserted(h, WholeObject(h.size[o])) = h
    BY <1>1, <1>3, AssertedTrue
  <1>5. QED
    BY <1>4 DEF Returned

\* Object o keeps all but its last t chunks.
Kept(r, f, L, top, o, t) ==
  /\ r.obj = o
  /\ \E g : /\ State(r.heap, g, L, {}, top)
            /\ Held(r.heap, g, L, o)
            /\ g[o] = f[o] - t
            /\ Spread(g, Range(r.heap.large))

LEMMA CutTailState ==
  ASSUME NEW h, NEW f, NEW L, NEW top, State(h, f, L, {}, top),
         NEW o, Held(h, f, L, o), Spread(f, Range(h.large) \cup {o}),
         NEW t \in Nat, o + t < f[o],
         t # 0 => Index(f[o] - t) = 0 \/ f[o] - t <= PageEnd(o)
  PROVE  Kept(CutTail(h, o, 256 * t), f, L, top, o, t)
  <1> DEFINE tail == 256 * t
             c == f[o] - t
             r == CutTail(h, o, tail)
  <1>1. /\ Spans(h, f, o) /\ EndOf(h, o) = f[o]
        /\ h \in Heaps /\ h.sane /\ o \in Chunks
        /\ o \in Nat /\ o # 0 /\ f[o] \in Nat /\ o < f[o] /\ f[o] <= top
        /\ Index(o) # 0 /\ PageEnd(o) <= top
        /\ Index(f[o]) = 0 \/ f[o] < PageEnd(o)
        /\ h.size[o] \in Nat /\ h.size[o] = 256 * (f[o] - o) - 16
    BY HeldFacts
  <1>2. CASE t = 0
    <2>1. tail = 0 /\ f[o] - t = f[o]
      BY <1>1, <1>2
    <2> DEFINE X == {}
    <2>2. State(h, f, L, X, top) /\ o \notin X
      OBVIOUS
    <2> HIDE DEF X
    <2>3. Returned(h, o) = [obj |-> o, heap |-> h]
      BY <2>2, ReturnedIsWhole
    <2>4. r = [obj |-> o, heap |-> h]
      BY <2>1, <2>3 DEF CutTail, WithoutTail
    <2>5. Spread(f, Range(h.large))
      BY DEF Spread
    <2>6. QED BY <2>1, <2>4, <2>5 DEF Kept
  <1>3. CASE t # 0
    <2> DEFINE d == IF Index(c) # 0 THEN c ELSE c + 1
    <2>1. c \in Nat /\ o < c /\ c < f[o] /\ tail # 0
      BY <1>1, <1>3
    <2>2. /\ PageUnits \in Nat /\ PageUnits > 2
          /\ PageStart(o) \in Nat /\ PageEnd(o) = PageStart(o) + PageUnits
          /\ PageStart(o) <= o /\ o < PageEnd(o) /\ Index(o) = o - PageStart(o)
      BY <1>1, PageFacts
    <2>3. /\ PageStart(c) \in Nat /\ PageEnd(c) = PageStart(c) + PageUnits
          /\ PageStart(c) <= c /\ c < PageEnd(c) /\ Index(c) = c - PageStart(c)
          /\ PageStart(o) = PageStart(c) \/ PageEnd(o) <= PageStart(c)
      <3>1. o <= c
        BY <1>1, <2>1
      <3> HIDE DEF c
      <3>2. QED BY <1>1, <2>1, <3>1, PageFacts, PagesApart
    <2>4. /\ PageStart(f[o]) \in Nat /\ PageStart(f[o]) <= f[o]
          /\ Index(f[o]) = f[o] - PageStart(f[o])
          /\ PageStart(c) = PageStart(f[o]) \/ PageEnd(c) <= PageStart(f[o])
      <3>1. c <= f[o]
        BY <1>1, <2>1
      <3> HIDE DEF c
      <3>2. QED BY <1>1, <2>1, <3>1, PageFacts, PagesApart
    <2> HIDE DEF c
    <2>5. c = f[o] - t
      BY DEF c
    <2>6. Index(c) = 0 => c + 1 < f[o]
      <3> SUFFICES ASSUME Index(c) = 0 PROVE c + 1 < f[o]
        OBVIOUS
      <3>1. PageEnd(o) <= c
        BY <1>1, <2>1, <2>2, <2>3
      <3>2. PageStart(f[o]) = f[o]
        BY <3>1, <1>1, <2>1, <2>2, <2>4
      <3>3. QED BY <3>2, <2>1, <2>2, <2>3, <2>4
    <2>7. Index(c) # 0 => c < PageEnd(o)
      <3> SUFFICES ASSUME Index(c) # 0 PROVE c < PageEnd(o)
        OBVIOUS
      <3>1. c <= PageEnd(o)
        BY <1>3, <2>5
      <3>2. c # PageEnd(o)
        BY <2>1, <2>2, <2>3
      <3>3. QED BY <3>1, <3>2, <2>1, <2>2
    <2>8. CutPlace(f, o, c, d) /\ d # o /\ d \in Nat /\ c <= d /\ d < f[o]
      BY <2>1, <2>6, <2>7 DEF CutPlace
    <2> HIDE DEF d
    <2>9. State(h, f, L, {o}, top)
      <3>1. State(h, f, L, {} \cup {o}, top)
        BY LetGo
      <3>2. {} \cup {o} = {o}
        OBVIOUS
      <3>3. QED BY <3>1, <3>2
    <2> DEFINE g == CutAt(f, o, c, d)
    <2>10. /\ State(h, g, L, {o} \cup {d}, top)
           /\ DOMAIN g = DOMAIN f \cup {d} /\ d \notin DOMAIN f
           /\ g[o] = c /\ g[d] = f[o]
           /\ Spread(g, (Range(h.large) \ {o}) \cup {d})
      <3> DEFINE X == {o}
      <3>1. o \in X /\ State(h, f, L, X, top)
        BY <2>9
      <3>2. Cuts(f, o, c, d, g)
        BY <2>8 DEF Cuts, Held
      <3> HIDE DEF X, g
      <3>3. /\ State(h, g, L, X \cup {d}, top)
            /\ d \notin DOMAIN f
            /\ g[o] = c /\ g[d] = f[o]
        BY <3>1, <3>2, CutState
      <3>4. DOMAIN g = DOMAIN f \cup {d}
        BY <3>2 DEF Cuts, CutAt
      <3>5. Tiling(f, top) /\ Range(h.large) \in SUBSET DOMAIN f
        BY DEF State, Sound
      <3>6. Spread(g, (Range(h.large) \ {o}) \cup {d})
        BY <3>2, <3>5, SpreadCut
      <3>7. QED BY <3>3, <3>4, <3>6 DEF X
    <2> HIDE DEF g
    <2> DEFINE s == h.size[o] - tail
               h1 == [h EXCEPT !.size[o] = @ - tail]
    <2>11. s \in Nat /\ s + 16 = 256 * (c - o)
      BY <1>1, <2>1, <2>5
    <2>12. /\ h1 \in Heaps
           /\ h1.kinds = h.kinds /\ h1.large = h.large /\ h1.small = h.small /\ h1.sane = h.sane
           /\ h1.size = [h.size EXCEPT ![o] = s]
      <3> HIDE DEF s
      <3>1. h1 = [h EXCEPT !.size = [@ EXCEPT ![o] = s]]
        BY <1>1 DEF Heaps, s
      <3> HIDE DEF h1
      <3>2. QED BY <3>1, <1>1, <2>11 DEF Heaps
    <2>13. h.size \in [Chunks -> Nat]
      BY <1>1, HeapParts
    <2> HIDE DEF s, h1
    <2>14. DOMAIN g \subseteq Chunks
      <3>1. Tiling(g, top)
        BY <2>10 DEF State
      <3>2. QED BY <3>1, ItemsAreChunks
    <2>15. State(h1, g, L, {o} \cup {d}, top)
      <3>1. \A i \in DOMAIN g \ ({o} \cup {d}) : h1.kinds[i] = h.kinds[i] /\ h1.size[i] = h.size[i]
        BY <2>12, <2>13, <2>14
      <3>2. QED BY <3>1, <1>1, <2>10, <2>12, Frame
    <2>16. State(h1, g, L, {d}, top) /\ Held(h1, g, L, o)
      <3>1. Spans(h1, g, o)
        BY <1>1, <2>10, <2>11, <2>12, <2>13 DEF Spans
      <3>2. h1.kinds[o] = LARGE_OBJECT
        BY <2>12 DEF Held
      <3>3. ({o} \cup {d}) \ {o} = {d} /\ o \in {o} \cup {d}
        BY <2>8
      <3>4. State(h1, g, L, ({o} \cup {d}) \ {o}, top) /\ Held(h1, g, L, o)
        BY <3>1, <3>2, <3>3, <2>15, Settle
      <3>5. QED BY <3>3, <3>4
    <2> DEFINE n == 256 * (f[o] - d) - 16
               h2 == PushFree(h1, d, n)
    <2>17. n \in Nat /\ n + 16 = 256 * (g[d] - d)
      BY <1>1, <2>8, <2>10
    <2>18. /\ State(h2, g, L, {}, top)
           /\ \A x \in Chunks \ {d} : h2.kinds[x] = h1.kinds[x]
      <3> HIDE DEF n
      <3>1. /\ State(h2, g, L, {d} \ {d}, top)
            /\ \A x \in Chunks \ {d} : h2.kinds[x] = h1.kinds[x]
        <4> DEFINE X == {d}
        <4>1. d \in X /\ State(h1, g, L, X, top)
          BY <2>16
        <4> HIDE DEF X
        <4>2. FreedAt(PushFree(h1, d, n), h1, g, L, X, top, d)
          BY <4>1, <2>17, Freed
        <4>3. QED BY <4>2 DEF X, FreedAt
      <3>2. {d} \ {d} = {}
        OBVIOUS
      <3> HIDE DEF h2
      <3>3. QED BY <3>1, <3>2
    <2>19. PushTail(h1, d, n) = h2
      <3>1. f[o] - d \in Nat /\ n + 16 = 256 * (f[o] - d)
        BY <1>1, <2>8
      <3>2. WholeObject(n)
        BY <3>1, <2>17, WholeSize
      <3>3. Asserted(h1, WholeObject(n)) = h1
        BY <3>2, <1>1, <2>12, AssertedTrue
      <3>4. QED BY <3>3 DEF PushTail
    <2>20. FreeTail(h1, c, tail) = h2
      <3>1. CASE Index(c) # 0
        <4>1. d = c /\ n = tail - 16
          BY <3>1, <1>1, <2>1, <2>5 DEF d
        <4>2. QED BY <4>1, <3>1, <2>19 DEF FreeTail, LARGE_OBJECT_HEADER_SIZE
      <3>2. CASE Index(c) = 0
        <4>1. d = c + 1 /\ n = tail - 256 - 16 /\ tail # 256
          BY <3>2, <1>1, <2>1, <2>5, <2>6 DEF d
        <4>2. QED BY <4>1, <3>2, <2>19 DEF FreeTail, LARGE_OBJECT_HEADER_SIZE, CHUNK_SIZE
      <3>3. QED BY <3>1, <3>2
    <2>21. Held(h2, g, L, o)
      <3>1. h2.kinds[o] = h1.kinds[o]
        BY <1>1, <2>8, <2>18
      <3>2. QED BY <3>1, <2>16 DEF Held
    <2>22. r = [obj |-> o, heap |-> h2]
      <3>1. tail \div 256 = t
        OBVIOUS
      <3>2. EndOf(h, o) - tail \div 256 = c
        BY <3>1, <1>1, <2>5
      <3>3. WithoutTail(h, o, tail) = FreeTail(h1, c, tail)
        BY <3>2, <2>1 DEF WithoutTail, CHUNK_SIZE, h1
      <3> HIDE DEF h2
      <3> DEFINE X == {}
      <3>4. State(h2, g, L, X, top) /\ o \notin X
        BY <2>18
      <3> HIDE DEF X
      <3>5. Returned(h2, o) = [obj |-> o, heap |-> h2]
        BY <3>4, <2>21, ReturnedIsWhole
      <3>6. QED BY <3>3, <3>5, <2>20 DEF CutTail
    <2> HIDE DEF h2, r
    <2>23. r.obj = o /\ r.heap = h2
      BY <2>22
    <2>24. Range(h2.large) \subseteq (Range(h.large) \ {o}) \cup {d}
      <3>1. /\ Sound(h, f, {})
            /\ Range(h2.large) = {i \in DOMAIN g : h2.kinds[i] = FREE_LARGE_OBJECT}
        <4>1. Sound(h2, g, {}) /\ Sound(h, f, {})
          BY <2>18 DEF State
        <4>2. DOMAIN g \ {} = DOMAIN g
          OBVIOUS
        <4>3. QED BY <4>1, <4>2 DEF Sound
      <3>2. h2.kinds[o] # FREE_LARGE_OBJECT
        BY <2>21, KindFacts DEF Held
      <3>3. \A i \in DOMAIN g \ {d} : i \in DOMAIN f /\ h2.kinds[i] = h.kinds[i]
        BY <2>10, <2>12, <2>14, <2>18
      <3>4. QED BY <3>1, <3>2, <3>3 DEF Sound
    <2>25. Spread(g, Range(h2.large))
      BY <2>10, <2>24 DEF Spread
    <2>26. QED BY <2>5, <2>10, <2>18, <2>21, <2>23, <2>25 DEF r, c, Kept
  <1>4. QED
    BY <1>2, <1>3

LEMMA PageSize == PAGE_SIZE = 256 * PageUnits /\ PAGE_SIZE \in Nat \ {0}
  <1>1. 0 \in Nat /\ 0 < 256
    OBVIOUS
  <1>2. QED BY <1>1, ChunkBytes

\* What allocate_large_object gets: a used large object of n bytes or more, a
\* single chunk when it is asked for none; and the free objects stay merged.
Got(h, f, L, top, o, n) ==
  /\ State(h, f, L, {}, top)
  /\ Spread(f, Range(h.large))
  /\ Held(h, f, L, o)
  /\ h.size[o] >= n
  /\ n = 0 => f[o] = o + 1
Serves(r, L, top, n) == \E g : Got(r.heap, g, L, top, r.obj, n)

\* Cutting the tail off leaves n bytes.
Cuttable(h, f, L, top, o, n, t) ==
  /\ State(h, f, L, {}, top) /\ Held(h, f, L, o)
  /\ Spread(f, Range(h.large) \cup {o})
  /\ n \in Nat /\ t \in Nat /\ 256 * t <= h.size[o] - n
  /\ n = 0 => h.size[o] < 256 * t + 256
  /\ t # 0 => Index(f[o] - t) = 0 \/ f[o] - t <= PageEnd(o)
LEMMA CutToFit ==
  ASSUME NEW h, NEW f, NEW L, NEW top, NEW o, NEW n, NEW t,
         Cuttable(h, f, L, top, o, n, t)
  PROVE  LET r == CutTail(h, o, 256 * t)
         IN r.obj = o /\ Serves(r, L, top, n)
  <1> DEFINE r == CutTail(h, o, 256 * t)
  <1> USE DEF Cuttable
  <1>1. /\ o \in Nat /\ f[o] \in Nat /\ o < f[o]
        /\ h.size[o] \in Nat /\ h.size[o] = 256 * (f[o] - o) - 16
    BY HeldFacts
  <1>2. o + t < f[o]
    BY <1>1
  <1>3. Kept(r, f, L, top, o, t)
    BY <1>2, CutTailState
  <1>4. PICK g : /\ State(r.heap, g, L, {}, top) /\ Held(r.heap, g, L, o)
                 /\ g[o] = f[o] - t
                 /\ Spread(g, Range(r.heap.large))
    BY <1>3 DEF Kept
  <1>5. r.heap.size[o] = 256 * (g[o] - o) - 16
    <2> HIDE DEF r
    <2>1. QED BY <1>4, HeldFacts
  <1>6. r.heap.size[o] >= n
    BY <1>1, <1>4, <1>5
  <1>7. n = 0 => g[o] = o + 1
    BY <1>1, <1>2, <1>4
  <1>8. Got(r.heap, g, L, top, o, n)
    BY <1>4, <1>6, <1>7 DEF Got
  <1>9. QED
    BY <1>3, <1>8 DEF Kept, Serves

\* The pages after the one that object o starts in.
LEMMA LastPage ==
  ASSUME NEW o \in Nat, NEW e \in Nat, Index(e) = 0, PageEnd(o) < e
  PROVE  \E u \in Nat : /\ u > 0 /\ e = PageEnd(o) + u * PageUnits
                        /\ u * PageUnits \in Nat /\ u * PageUnits >= PageUnits
  <1> DEFINE p == PageOf(o)
             q == PageOf(e)
             u == q - p - 1
  <1>1. /\ PageUnits \in Nat /\ PageUnits > 2 /\ p \in Nat /\ q \in Nat
        /\ PageStart(o) \in Nat /\ PageStart(e) \in Nat
        /\ PageEnd(o) = PageStart(o) + PageUnits
        /\ PageStart(o) <= o /\ o < PageEnd(o)
        /\ Index(e) = e - PageStart(e)
    BY PageFacts
  <1>2. PageStart(o) = p * PageUnits /\ PageStart(e) = q * PageUnits
    BY DEF PageStart
  <1> HIDE DEF p, q
  <1>3. e = q * PageUnits /\ p * PageUnits + PageUnits < q * PageUnits
    BY <1>1, <1>2
  <1>4. p + 1 < q
    <2> SUFFICES ASSUME q <= p + 1 PROVE FALSE
      BY <1>1
    <2>1. q * PageUnits <= (p + 1) * PageUnits
      BY <1>1
    <2>2. (p + 1) * PageUnits = p * PageUnits + PageUnits
      BY <1>1
    <2>3. p * PageUnits \in Nat /\ q * PageUnits \in Nat
      BY <1>1
    <2>4. QED BY <1>3, <2>1, <2>2, <2>3, <1>1
  <1>5. u \in Nat /\ u > 0 /\ q = p + 1 + u
    BY <1>1, <1>4
  <1> HIDE DEF u
  <1>6. q * PageUnits = (p * PageUnits + PageUnits) + u * PageUnits
    <2>1. q * PageUnits = (p + 1 + u) * PageUnits
      BY <1>5
    <2>2. (p + 1 + u) * PageUnits = (p * PageUnits + PageUnits) + u * PageUnits
      BY <1>1, <1>5
    <2>3. QED BY <2>1, <2>2
  <1>7. u * PageUnits \in Nat /\ u * PageUnits >= PageUnits
    BY <1>1, <1>5
  <1>8. QED
    BY <1>1, <1>2, <1>3, <1>5, <1>6, <1>7

\* The head of the object becomes free, and its rest starts in the next page.
LEMMA SplitHeadState ==
  ASSUME NEW h, NEW f, NEW L, NEW top, State(h, f, L, {}, top),
         NEW o, Held(h, f, L, o), Spread(f, Range(h.large) \cup {o}),
         NEW n \in Nat, n > 0,
         n < PAGE_SIZE - 272, PageEnd(o) < f[o],
         NEW first \in Nat, first + 16 = 256 * (PageEnd(o) - o)
  PROVE  LET r == SplitHead(h, o, n, first)
         IN Serves(r, L, top, n)
  <1> DEFINE c == PageEnd(o)
             b == c + 1
  <1>1. /\ h \in Heaps /\ h.sane /\ o \in Chunks
        /\ o \in Nat /\ f[o] \in Nat /\ o < f[o] /\ f[o] <= top
        /\ Index(o) # 0
        /\ Index(f[o]) = 0 \/ f[o] < PageEnd(o)
        /\ h.size[o] \in Nat /\ h.size[o] = 256 * (f[o] - o) - 16
    BY HeldFacts
  <1>2. /\ PageUnits \in Nat /\ PageUnits > 2 /\ PageOf(o) \in Nat
        /\ PageStart(o) \in Nat /\ c = PageStart(o) + PageUnits
        /\ PageStart(o) <= o /\ o < c /\ Index(o) = o - PageStart(o)
    BY <1>1, PageFacts
  <1>3. c \in Nat /\ c = (PageOf(o) + 1) * PageUnits
    <2>1. (PageOf(o) + 1) * PageUnits = PageOf(o) * PageUnits + PageUnits
      BY <1>2
    <2>2. QED BY <2>1, <1>2 DEF PageStart
  <1>4. Index(c) = 0 /\ PageStart(c) = c
    <2>1. PageOf(o) + 1 \in Nat
      BY <1>2
    <2> HIDE DEF c
    <2>2. QED BY <2>1, <1>3, PageMultiple
  <1>5. Index(f[o]) = 0 /\ c + PageUnits <= f[o]
    <2>1. Index(f[o]) = 0
      BY <1>1, <1>2
    <2>2. PICK u \in Nat : /\ f[o] = c + u * PageUnits /\ u * PageUnits \in Nat
                           /\ u * PageUnits >= PageUnits
      BY <2>1, <1>1, LastPage
    <2>3. QED BY <2>1, <2>2, <1>2, <1>3
  <1> HIDE DEF c
  <1>6. CutPlace(f, o, c, b) /\ b \in Nat /\ b < f[o] /\ b # o
    BY <1>1, <1>2, <1>3, <1>4, <1>5 DEF CutPlace
  <1>7. PageEnd(b) = c + PageUnits
    <2>1. /\ PageStart(b) \in Nat /\ PageEnd(b) = PageStart(b) + PageUnits
          /\ PageStart(b) <= b /\ b < PageEnd(b)
          /\ PageStart(c) = PageStart(b) \/ PageEnd(c) <= PageStart(b)
          /\ PageEnd(c) = PageStart(c) + PageUnits
      <3>1. c <= b
        BY <1>3
      <3> HIDE DEF b
      <3>2. QED BY <3>1, <1>3, <1>6, PageFacts, PagesApart
    <2>2. QED BY <2>1, <1>2, <1>3, <1>4
  <1> HIDE DEF b
  <1> DEFINE f1 == CutAt(f, o, c, b)
             h1 == PushFree(h, o, first)
  <1>8. /\ State(h, f1, L, {o, b}, top)
        /\ DOMAIN f1 = DOMAIN f \cup {b} /\ b \notin DOMAIN f
        /\ f1[o] = c /\ f1[b] = f[o]
        /\ Spread(f1, Range(h.large) \cup {o, b})
    <2> DEFINE X == {o}
    <2>1. State(h, f, L, {} \cup {o}, top)
      BY LetGo
    <2>2. o \in X /\ State(h, f, L, X, top) /\ {o, b} = X \cup {b}
      <3>1. {} \cup {o} = X
        OBVIOUS
      <3>2. QED BY <2>1, <3>1
    <2>3. Cuts(f, o, c, b, f1)
      BY <1>6 DEF Cuts, Held
    <2> HIDE DEF X, f1
    <2>4. /\ State(h, f1, L, X \cup {b}, top)
          /\ b \notin DOMAIN f
          /\ f1[o] = c /\ f1[b] = f[o]
      BY <2>2, <2>3, CutState
    <2>5. DOMAIN f1 = DOMAIN f \cup {b}
      BY <2>3 DEF Cuts, CutAt
    <2>6. Tiling(f, top) /\ Range(h.large) \in SUBSET DOMAIN f
      BY DEF State, Sound
    <2>7. Spread(f1, Range(h.large) \cup {o, b})
      BY <2>3, <2>6, <1>4, SpreadCut
    <2>8. QED BY <2>2, <2>4, <2>5, <2>7
  <1> HIDE DEF f1
  <1>9. /\ State(h1, f1, L, {b}, top)
        /\ h1 \in Heaps
        /\ \A x \in Chunks \ {o} : h1.kinds[x] = h.kinds[x] /\ h1.size[x] = h.size[x]
    <2> DEFINE X == {o, b}
    <2>1. o \in X /\ State(h, f1, L, X, top) /\ X \ {o} = {b}
      BY <1>6, <1>8
    <2>2. first + 16 = 256 * (f1[o] - o)
      BY <1>8 DEF c
    <2> HIDE DEF X
    <2>3. FreedAt(PushFree(h, o, first), h, f1, L, X, top, o)
      BY <2>1, <2>2, Freed
    <2>4. QED BY <2>1, <2>3 DEF FreedAt
  <1> HIDE DEF h1
  <1> DEFINE left == h.size[o] - first - 256 - 16
             h2 == [Mark(h1, b, LARGE_OBJECT) EXCEPT !.size[b] = left]
  <1>10. left \in Nat /\ left + 16 = 256 * (f[o] - b) /\ left >= n
    <2>1. left + 16 = 256 * (f[o] - b)
      <3>1. first = 256 * (c - o) - 16
        BY <1>1, <1>3 DEF c
      <3>2. QED BY <3>1, <1>1, <1>3 DEF b
    <2>2. f[o] - b >= PageUnits - 1
      BY <1>1, <1>3, <1>5, <1>2 DEF b
    <2>3. PAGE_SIZE = 256 * PageUnits
      BY PageSize
    <2>4. left \in Int
      BY <1>1
    <2> HIDE DEF left
    <2>5. QED BY <2>1, <2>2, <2>3, <2>4, <1>1, <1>2, <1>6
  <1> HIDE DEF left
  <1>11. b \in Chunks
    <2>1. Tiling(f1, top)
      BY <1>8 DEF State
    <2>2. QED BY <2>1, <1>8, ItemsAreChunks
  <1>12. /\ h2 \in Heaps
         /\ h2.kinds = [h1.kinds EXCEPT ![b] = LARGE_OBJECT]
         /\ h2.size = [h1.size EXCEPT ![b] = left]
         /\ h2.large = h1.large /\ h2.small = h1.small /\ h2.sane = h1.sane
    <2>1. h2 = [h1 EXCEPT !.kinds = [@ EXCEPT ![b] = LARGE_OBJECT],
                          !.size = [@ EXCEPT ![b] = left]]
      BY <1>9 DEF Mark, Heaps
    <2> HIDE DEF h2
    <2>2. QED BY <2>1, <1>9, <1>10, <1>11, KindFacts DEF Heaps
  <1> HIDE DEF h2
  <1>13. h1.kinds \in [Chunks -> Nat] /\ h1.size \in [Chunks -> Nat]
    BY <1>9, HeapParts
  <1>14. h2.kinds[b] = LARGE_OBJECT /\ h2.size[b] = left
         /\ \A x \in Chunks \ {b} : h2.kinds[x] = h1.kinds[x] /\ h2.size[x] = h1.size[x]
    BY <1>11, <1>12, <1>13
  <1>15. h1.sane
    BY <1>9 DEF State, Sound
  <1>16. State(h2, f1, L, {}, top) /\ Held(h2, f1, L, b)
    <2>1. DOMAIN f1 \subseteq Chunks
      <3>1. Tiling(f1, top)
        BY <1>8 DEF State
      <3>2. QED BY <3>1, ItemsAreChunks
    <2>2. \A i \in DOMAIN f1 \ {b} : h2.kinds[i] = h1.kinds[i] /\ h2.size[i] = h1.size[i]
      BY <2>1, <1>14
    <2>3. State(h2, f1, L, {b}, top)
      BY <2>2, <1>9, <1>12, <1>15, Frame
    <2>4. Spans(h2, f1, b)
      BY <1>8, <1>10, <1>14 DEF Spans
    <2> DEFINE X == {b}
    <2>5. b \in X /\ State(h2, f1, L, X, top) /\ X \ {b} = {}
      BY <2>3
    <2> HIDE DEF X
    <2>6. State(h2, f1, L, X \ {b}, top) /\ Held(h2, f1, L, b)
      BY <2>4, <2>5, <1>14, Settle
    <2>7. QED BY <2>5, <2>6
  <1>17. Asserted(h2, left >= n) = h2
    BY <1>10, <1>12, <1>15, AssertedTrue
  <1>18. PICK t \in Nat : /\ WholeChunks(left - n) = 256 * t
                          /\ 256 * t <= left - n /\ left - n < 256 * t + 256
    <2>1. left - n \in Nat
      BY <1>10
    <2>2. QED BY <2>1, WholeChunksOf
  <1>19. f1[b] - t <= PageEnd(b)
    <2>1. 256 * (f[o] - t - b) < PAGE_SIZE
      BY <1>10, <1>18, <1>1, <1>6, PageSize
    <2>2. PAGE_SIZE = 256 * PageUnits
      BY PageSize
    <2>3. f[o] - t - b < PageUnits
      BY <2>1, <2>2, <1>1, <1>2, <1>6
    <2>4. QED BY <2>3, <1>1, <1>2, <1>3, <1>7, <1>8 DEF b
  <1>20. Spread(f1, Range(h2.large) \cup {b})
    <2>1. Sound(h, f1, {o, b}) /\ Sound(h1, f1, {b})
      BY <1>8, <1>9 DEF State
    <2>2. \A i \in DOMAIN f1 \ {o, b} : h1.kinds[i] = h.kinds[i]
      <3>1. DOMAIN f1 \subseteq Chunks
        BY <1>8, ItemsAreChunks DEF State
      <3>2. QED BY <3>1, <1>9
    <2>3. Range(h1.large) \subseteq Range(h.large) \cup {o}
      BY <2>1, <2>2 DEF Sound
    <2>4. Range(h2.large) \subseteq Range(h.large) \cup {o}
      BY <2>3, <1>12
    <2>5. QED BY <2>4, <1>8 DEF Spread
  <1>21. Serves(CutTail(h2, b, 256 * t), L, top, n)
    <2>1. Cuttable(h2, f1, L, top, b, n, t)
      BY <1>14, <1>16, <1>18, <1>19, <1>20 DEF Cuttable
    <2>2. QED BY <2>1, CutToFit
  <1>22. SplitHead(h, o, n, first) = CutTail(h2, b, 256 * t)
    <2>1. b = (PageOf(o) + 1) * PageUnits + 1
      BY <1>3 DEF b
    <2>2. left = h.size[o] - first - CHUNK_SIZE - LARGE_OBJECT_HEADER_SIZE
      BY DEF left, CHUNK_SIZE, LARGE_OBJECT_HEADER_SIZE
    <2>3. SplitHead(h, o, n, first) = CutTail(Asserted(h2, left >= n), b, WholeChunks(left - n))
      BY <2>1, <2>2 DEF SplitHead, h1, h2
    <2>4. QED BY <2>3, <1>17, <1>18
  <1>23. QED
    BY <1>21, <1>22

\* The object keeps all of its last page.
LEMMA SplitPagesState ==
  ASSUME NEW h, NEW f, NEW L, NEW top, State(h, f, L, {}, top),
         NEW o, Held(h, f, L, o), Spread(f, Range(h.large) \cup {o}),
         NEW n \in Nat, n > 0, n <= h.size[o],
         n >= PAGE_SIZE - 272, PageEnd(o) < f[o],
         NEW first \in Nat, first + 16 = 256 * (PageEnd(o) - o)
  PROVE  LET r == SplitPages(h, o, n, first)
         IN Serves(r, L, top, n)
  <1> DEFINE e == f[o]
             P == PageUnits
             x == n - first
             q == (x + PAGE_SIZE - 1) \div PAGE_SIZE
  <1>1. /\ h \in Heaps /\ h.sane /\ o \in Nat /\ e \in Nat /\ o < e
        /\ Index(o) # 0
        /\ Index(e) = 0 \/ e < PageEnd(o)
        /\ h.size[o] \in Nat /\ h.size[o] = 256 * (e - o) - 16
    BY HeldFacts
  <1>2. /\ P \in Nat /\ P > 2 /\ PageOf(o) \in Nat
        /\ PageStart(o) \in Nat /\ PageEnd(o) = PageStart(o) + P
        /\ PageStart(o) <= o /\ o < PageEnd(o) /\ Index(o) = o - PageStart(o)
        /\ PageStart(o) = PageOf(o) * P
    <2>1. PageStart(o) = PageOf(o) * P
      BY DEF PageStart
    <2> HIDE DEF P
    <2>2. QED BY <2>1, <1>1, PageFacts DEF P
  <1>3. PICK u \in Nat : e = PageEnd(o) + u * P /\ u * P \in Nat
    <2>1. Index(e) = 0
      BY <1>1, <1>2
    <2>2. QED BY <2>1, <1>1, LastPage
  <1>4. PAGE_SIZE = 256 * P /\ PAGE_SIZE \in Nat \ {0}
    BY PageSize
  <1> HIDE DEF P, e
  <1>5. x \in Nat /\ x <= 256 * (u * P)
    <2>1. first <= PAGE_SIZE - 272
      BY <1>1, <1>2, <1>4
    <2>2. QED BY <2>1, <1>1, <1>2, <1>3, <1>4
  <1> HIDE DEF x
  <1>6. q \in Nat
    BY <1>4, <1>5
  <1>7. AlignUp(x, PAGE_SIZE) = q * PAGE_SIZE
    BY DEF AlignUp
  <1>8. /\ AlignUp(x, PAGE_SIZE) \in Nat
        /\ AlignUp(x, PAGE_SIZE) >= x /\ AlignUp(x, PAGE_SIZE) < x + PAGE_SIZE
    <2>1. x \in Nat /\ PAGE_SIZE \in Nat \ {0}
      BY <1>4, <1>5
    <2>2. QED BY ONLY <2>1, AlignUpBounds
  <1> HIDE DEF q
  <1>9. q * PAGE_SIZE = 256 * (q * P) /\ q * P \in Nat
    <2>1. q * (256 * P) = 256 * (q * P) /\ q * P \in Nat
      BY <1>2, <1>6
    <2>2. QED BY <2>1, <1>4
  <1>10. q <= u
    <2> SUFFICES ASSUME u + 1 <= q PROVE FALSE
      BY <1>6
    <2>1. (u + 1) * P <= q * P /\ (u + 1) * P = u * P + P
      BY <1>2, <1>6
    <2>2. QED BY <2>1, <1>2, <1>3, <1>4, <1>5, <1>7, <1>8, <1>9
  <1> DEFINE t == u * P - q * P
  <1>11. t \in Nat
    <2>1. q * P <= u * P
      BY <1>2, <1>6, <1>10
    <2>2. QED BY <2>1, <1>3, <1>9
  <1>12. e - t = PageEnd(o) + q * P /\ e - t \in Nat
    BY <1>2, <1>3, <1>9
  <1>13. Index(e - t) = 0
    <2>1. (PageOf(o) + 1 + q) * P = (PageOf(o) * P + P) + q * P
      BY <1>2, <1>6
    <2>2. e - t = (PageOf(o) + 1 + q) * P
      BY <2>1, <1>2, <1>12
    <2>3. PageOf(o) + 1 + q \in Nat
      BY <1>2, <1>6
    <2> DEFINE z == PageOf(o) + 1 + q
    <2> HIDE DEF z
    <2>4. Index(z * PageUnits) = 0
      BY <2>3, PageMultiple DEF z
    <2>5. QED BY <2>2, <2>4 DEF z, P
  <1>14. h.size[o] - (first + AlignUp(n - first, PAGE_SIZE)) = 256 * t
    <2>1. h.size[o] - (first + 256 * (q * P)) = 256 * t
      BY <1>1, <1>2, <1>3, <1>9
    <2>2. QED BY <2>1, <1>7, <1>9 DEF x
  <1>15. 256 * t <= h.size[o] - n
    <2>1. first + 256 * (q * P) >= n
      BY <1>7, <1>8, <1>9 DEF x
    <2>2. 256 * t = h.size[o] - (first + 256 * (q * P))
      BY <1>7, <1>9, <1>14 DEF x
    <2> HIDE DEF t
    <2>3. QED BY <2>1, <2>2, <1>1, <1>9, <1>11
  <1> HIDE DEF t
  <1>16. Serves(CutTail(h, o, 256 * t), L, top, n)
    <2>1. Index(f[o] - t) = 0
      BY <1>13 DEF e
    <2>2. Cuttable(h, f, L, top, o, n, t)
      BY <2>1, <1>11, <1>15 DEF Cuttable
    <2>3. QED BY <2>2, CutToFit
  <1>17. SplitPages(h, o, n, first) = CutTail(h, o, 256 * t)
    BY <1>14 DEF SplitPages
  <1>18. QED
    BY <1>16, <1>17

\* split_large_object leaves n bytes or more.
LEMMA SplitState ==
  ASSUME NEW h, NEW f, NEW L, NEW top, State(h, f, L, {}, top),
         NEW o, Held(h, f, L, o), Spread(f, Range(h.large) \cup {o}),
         NEW n \in Nat, n <= h.size[o]
  PROVE  Serves(Split(h, o, n), L, top, n)
  <1> DEFINE e == f[o]
             start == 256 * o + 16
             end == 256 * e
             first == PAGE_SIZE - (start % PAGE_SIZE)
  <1>1. /\ h \in Heaps /\ h.sane /\ o \in Nat /\ e \in Nat /\ o < e
        /\ Index(o) # 0
        /\ Index(e) = 0 \/ e < PageEnd(o)
        /\ h.size[o] \in Nat /\ h.size[o] = 256 * (e - o) - 16
    BY HeldFacts
  <1>2. /\ PageUnits \in Nat /\ PageUnits > 2 /\ PageOf(o) \in Nat
        /\ PageStart(o) \in Nat /\ PageEnd(o) = PageStart(o) + PageUnits
        /\ PageStart(o) <= o /\ o < PageEnd(o) /\ Index(o) = o - PageStart(o)
    BY <1>1, PageFacts
  <1>3. PAGE_SIZE = 256 * PageUnits /\ PAGE_SIZE \in Nat \ {0}
    BY PageSize
  <1> HIDE DEF e
  <1>4. Split(h, o, n) = SplitRange(h, o, n, start, end)
    <2>1. /\ o * CHUNK_SIZE + LARGE_OBJECT_HEADER_SIZE = start
          /\ o * CHUNK_SIZE + LARGE_OBJECT_HEADER_SIZE + h.size[o] = end
      BY <1>1 DEF CHUNK_SIZE, LARGE_OBJECT_HEADER_SIZE
    <2> HIDE DEF start, end
    <2>2. QED BY <2>1 DEF Split
  <1>5. PICK t \in Nat : /\ WholeChunks(h.size[o] - n) = 256 * t
                         /\ 256 * t <= h.size[o] - n /\ h.size[o] - n < 256 * t + 256
    <2>1. h.size[o] - n \in Nat
      BY <1>1
    <2>2. QED BY <2>1, WholeChunksOf
  <1> DEFINE c == e - t
  <1>6. c \in Nat /\ o < c /\ c - 1 \in Nat
    BY <1>1, <1>5
  <1>7. start \div PAGE_SIZE = PageOf(o) /\ first = 256 * (PageEnd(o) - o) - 16 /\ first \in Nat
    <2>1. 16 \in Nat /\ 16 < 256
      OBVIOUS
    <2>2. start \div PAGE_SIZE = PageOf(o) /\ start % PAGE_SIZE = 256 * Index(o) + 16
      BY <2>1, <1>1, ChunkBytes
    <2>3. QED BY <2>2, <1>1, <1>2, <1>3
  <1>8. end % PAGE_SIZE = 256 * Index(e)
    <2>1. 0 \in Nat /\ 0 < 256
      OBVIOUS
    <2>2. (256 * e + 0) % PAGE_SIZE = 256 * Index(e) + 0
      BY <2>1, <1>1, ChunkBytes
    <2>3. 256 * e + 0 = 256 * e
      BY <1>1
    <2>4. Index(e) \in Int
      BY <1>1, PageFacts
    <2>5. QED BY <2>2, <2>3, <2>4
  <1>9. (end - 256 * t - 1) \div PAGE_SIZE = PageOf(c - 1)
    <2>1. 255 \in Nat /\ 255 < 256
      OBVIOUS
    <2> DEFINE d == c - 1
    <2>2. d \in Nat
      BY <1>6
    <2>3. end - 256 * t - 1 = 256 * d + 255
      BY <1>1
    <2> HIDE DEF d
    <2>4. (256 * d + 255) \div PAGE_SIZE = PageOf(d)
      BY <2>1, <2>2, ChunkBytes
    <2>5. QED BY <2>3, <2>4 DEF d
  <1> HIDE DEF start, first, end
  <1> DEFINE A == 256 * t = 0 \/ PageOf(o) = PageOf(c - 1)
             B == n < PAGE_SIZE - 16 - 256
             h1 == Asserted(h, end % PAGE_SIZE = 0)
  <1>10. Split(h, o, n) = IF A THEN CutTail(h, o, 256 * t)
                          ELSE IF B THEN SplitHead(h1, o, n, first)
                          ELSE SplitPages(h1, o, n, first)
    <2> DEFINE h0 == Asserted(h, end % CHUNK_SIZE = 0)
    <2>1. h0 = h
      <3>1. (256 * e) % 256 = 0
        BY <1>1
      <3>2. end % CHUNK_SIZE = 0
        BY <3>1 DEF end, CHUNK_SIZE
      <3>3. QED BY <3>2, <1>1, AssertedTrue
    <2>2. SplitRange(h, o, n, start, end) =
            IF 256 * t = 0 THEN CutTail(h, o, 0)
            ELSE IF start \div PAGE_SIZE = (end - 256 * t - 1) \div PAGE_SIZE
              THEN CutTail(h0, o, 256 * t)
            ELSE IF n < PAGE_SIZE - LARGE_OBJECT_HEADER_SIZE - CHUNK_SIZE
              THEN SplitHead(h1, o, n, first)
            ELSE SplitPages(h1, o, n, first)
      BY <1>5 DEF SplitRange, first
    <2> HIDE DEF h1, h0
    <2>3. QED BY <2>1, <2>2, <1>4, <1>7, <1>9 DEF LARGE_OBJECT_HEADER_SIZE, CHUNK_SIZE
  <1>11. CASE A
    <2>1. t # 0 => c <= PageEnd(o)
      <3> SUFFICES ASSUME t # 0 PROVE c <= PageEnd(o)
        OBVIOUS
      <3>1. PageOf(o) = PageOf(c - 1)
        BY <1>11
      <3>2. PageStart(c - 1) = PageStart(o)
        BY <3>1 DEF PageStart
      <3>3. c - 1 < PageEnd(c - 1) /\ PageEnd(c - 1) = PageStart(c - 1) + PageUnits
        <4> DEFINE d == c - 1
        <4>1. d \in Nat
          BY <1>6
        <4> HIDE DEF d
        <4>2. d < PageEnd(d) /\ PageEnd(d) = PageStart(d) + PageUnits
          BY <4>1, PageFacts
        <4>3. QED BY <4>2 DEF d
      <3>4. QED BY <3>2, <3>3, <1>2, <1>6
    <2>2. Serves(CutTail(h, o, 256 * t), L, top, n)
      <3>1. n = 0 => h.size[o] < 256 * t + 256
        BY <1>1, <1>5
      <3>2. t # 0 => Index(f[o] - t) = 0 \/ f[o] - t <= PageEnd(o)
        BY <2>1 DEF e
      <3>3. /\ State(h, f, L, {}, top) /\ Held(h, f, L, o)
            /\ Spread(f, Range(h.large) \cup {o})
            /\ n \in Nat /\ t \in Nat /\ 256 * t <= h.size[o] - n
        BY <1>5
      <3>4. Cuttable(h, f, L, top, o, n, t)
        BY <3>1, <3>2, <3>3 DEF Cuttable
      <3>5. QED BY <3>4, CutToFit
    <2>3. QED BY <2>2, <1>10, <1>11
  <1>12. CASE ~A
    <2>1. t # 0 /\ PageOf(o) # PageOf(c - 1)
      BY <1>12
    <2>2. PageEnd(o) <= c - 1
      <3> DEFINE d == c - 1
      <3>1. d \in Nat /\ o <= d /\ PageOf(o) # PageOf(d)
        BY <1>1, <1>6, <2>1
      <3> HIDE DEF d
      <3>2. /\ PageStart(o) = PageStart(d) \/ PageEnd(o) <= PageStart(d)
            /\ PageStart(o) = PageStart(d) => PageOf(o) = PageOf(d)
            /\ PageStart(d) <= d /\ PageStart(d) \in Nat
        BY <3>1, <1>1, PagesApart, PageFacts
      <3>3. PageEnd(o) <= d
        BY <3>1, <3>2, <1>2
      <3>4. QED BY <3>3 DEF d
    <2>3. PageEnd(o) < e /\ Index(e) = 0
      BY <2>2, <1>1, <1>2, <1>6
    <2>4. n > 0
      <3> SUFFICES ASSUME n = 0 PROVE FALSE
        OBVIOUS
      <3>1. c = o + 1
        BY <1>1, <1>5
      <3>2. QED BY <3>1, <2>2, <1>1, <1>2
    <2>5. h1 = h
      <3>1. end % PAGE_SIZE = 0
        BY <2>3, <1>8
      <3>2. QED BY <3>1, <1>1, AssertedTrue
    <2>6. first + 16 = 256 * (PageEnd(o) - o) /\ PageEnd(o) < f[o]
      BY <2>3, <1>1, <1>2, <1>7 DEF e
    <2> HIDE DEF A, h1
    <2>7. CASE B
      <3>1. n < PAGE_SIZE - 272
        BY <2>7, <1>3
      <3>2. Serves(SplitHead(h, o, n, first), L, top, n)
        BY <3>1, <2>4, <2>6, <1>7, SplitHeadState
      <3>3. QED BY <3>2, <2>5, <2>7, <1>10, <1>12
    <2>8. CASE ~B
      <3>1. n >= PAGE_SIZE - 272
        BY <2>8, <1>3
      <3>2. Serves(SplitPages(h, o, n, first), L, top, n)
        BY <3>1, <2>4, <2>6, <1>7, SplitPagesState
      <3>3. QED BY <3>2, <2>5, <2>8, <1>10, <1>12
    <2>9. QED BY <2>7, <2>8
  <1>13. QED
    BY <1>11, <1>12

-----------------------------------------------------------------------------
(* Compaction.                                                             *)

\* Free object x is followed in its page by none of the free objects R.
Over(f, x, R) == Index(f[x]) = 0 \/ f[x] \notin R

\* The i-th in the list has its turn, and those before it are passed over; fewer
\* than m turns come after this one.  A turn passes one over or takes one off.
Looking(s, f, i, m) ==
  /\ i \in 1 .. Len(s.heap.large) /\ s.heap.large[i] = s.at
  /\ \A j \in 1 .. i - 1 : Over(f, s.heap.large[j], Range(s.heap.large))
  /\ 2 * Len(s.heap.large) - i < m

\* Before a turn, when m are left: the heap over its tiling, and an object to look
\* at, or none and the free objects are merged.
Turning(s, L, top, m) ==
  /\ s = [heap |-> s.heap, at |-> s.at]
  /\ \E f : /\ State(s.heap, f, L, {}, top)
            /\ \/ s.at = 0 /\ Spread(f, Range(s.heap.large))
               \/ \E i \in Nat : Looking(s, f, i, m)

LEMMA NextInList ==
  ASSUME NEW list \in Seq(Nat), IsInjective(list), NEW i \in 1 .. Len(list)
  PROVE  NextOf(list, list[i]) = IF i < Len(list) THEN list[i + 1] ELSE 0
  <1> DEFINE o == list[i]
             j == SelectInSeq(list, LAMBDA w : w = o)
  <1>1. o \in Range(list)
    BY EntryInRange
  <1>2. j \in 1 .. Len(list) /\ list[j] = o
    <2> HIDE DEF o
    <2>1. QED BY <1>1, Selected
  <1>3. NextOf(list, o) = IF j < Len(list) THEN list[j + 1] ELSE 0
    BY DEF NextOf
  <1> HIDE DEF j
  <1>4. j = i
    BY <1>2, InjectiveList
  <1>5. QED
    BY <1>3, <1>4

\* Nothing is next to the object whose turn it is.
LEMMA PassedOver ==
  ASSUME NEW h, NEW f, NEW L, NEW top, State(h, f, L, {}, top),
         NEW i \in 1 .. Len(h.large), NEW m \in Nat, m > 0,
         Looking([heap |-> h, at |-> h.large[i]], f, i, m),
         Over(f, h.large[i], Range(h.large))
  PROVE  Turning([heap |-> h, at |-> NextOf(h.large, h.large[i])], L, top, m - 1)
  <1> DEFINE list == h.large
             R == Range(list)
             t == [heap |-> h, at |-> NextOf(list, list[i])]
  <1>1. list \in Seq(Nat) /\ IsInjective(list)
    BY HeapParts DEF State, Sound
  <1>2. Len(list) \in Nat /\ i \in Nat /\ i <= Len(list)
    BY <1>1, LenProperties
  <1>3. /\ \A j \in 1 .. i : Over(f, list[j], R)
        /\ 2 * Len(list) - i < m
    <2>1. /\ \A j \in 1 .. i - 1 : Over(f, list[j], R)
          /\ 2 * Len(list) - i < m
      BY DEF Looking
    <2> HIDE DEF R, list
    <2>2. ASSUME NEW j \in 1 .. i PROVE Over(f, list[j], R)
      <3>1. j = i \/ j \in 1 .. i - 1
        BY <1>2
      <3>2. QED BY <3>1, <2>1 DEF list, R
    <2>3. QED BY <2>1, <2>2
  <1>4. NextOf(list, list[i]) = IF i < Len(list) THEN list[i + 1] ELSE 0
    BY <1>1, NextInList
  <1>5. t = [heap |-> t.heap, at |-> t.at] /\ t.heap = h /\ t.at = NextOf(list, list[i])
    OBVIOUS
  <1> HIDE DEF t
  <1>6. CASE i < Len(list)
    <2>1. i + 1 \in Nat /\ i + 1 \in 1 .. Len(list) /\ i + 1 - 1 = i
          /\ 2 * Len(list) - (i + 1) < m - 1
      BY <1>2, <1>3, <1>6
    <2>2. Looking(t, f, i + 1, m - 1)
      BY <2>1, <1>3, <1>4, <1>5, <1>6 DEF Looking
    <2>3. QED BY <2>1, <2>2, <1>5 DEF Turning, t
  <1>7. CASE ~(i < Len(list))
    <2>1. i = Len(list) /\ t.at = 0
      BY <1>2, <1>4, <1>5, <1>7
    <2>2. Spread(f, R)
      <3> SUFFICES ASSUME NEW x \in R, NEW e \in R, e = f[x] PROVE Index(e) = 0
        BY DEF Spread
      <3>1. PICK j \in 1 .. Len(list) : list[j] = x
        <4> HIDE DEF list
        <4>1. QED BY <1>1, EntryInRange
      <3>2. Over(f, x, R)
        BY <3>1, <2>1, <1>3
      <3>3. QED BY <3>2 DEF Over
    <2>3. QED BY <2>1, <2>2, <1>5 DEF Turning, t
  <1>8. QED
    BY <1>6, <1>7

\* The object whose turn it is absorbs the next; it keeps its turn.
LEMMA TakenOff ==
  ASSUME NEW h, NEW f, NEW L, NEW top, State(h, f, L, {}, top),
         NEW i \in 1 .. Len(h.large), NEW m \in Nat, m > 0,
         Looking([heap |-> h, at |-> h.large[i]], f, i, m),
         NEW o, o = h.large[i],
         Index(f[o]) # 0, h.kinds[f[o]] = FREE_LARGE_OBJECT
  PROVE  /\ Turning([heap |-> Absorb(h, o, f[o]), at |-> o], L, top, m - 1)
         /\ f[o] \in Range(h.large)
  <1> DEFINE e == f[o]
             w == JoinAt(f, o)
             g == Absorb(h, o, e)
             list == h.large
             rest == RemoveFirst(list, e)
             t == [heap |-> g, at |-> o]
  <1>1. list \in Seq(Nat) /\ IsInjective(list) /\ o \in Range(list)
    <2>1. list \in Seq(Nat) /\ IsInjective(list)
      BY HeapParts DEF State, Sound
    <2>2. QED BY <2>1, EntryInRange
  <1>2. /\ State(g, w, L, {}, top)
        /\ e \in Range(list) /\ e # o
        /\ g.large = rest
        /\ \A x \in Range(list) \ {o, e} : w[x] = f[x]
    BY <1>1, Absorbed
  <1> HIDE DEF e, w, g
  <1>3. /\ Range(rest) = Range(list) \ {e}
        /\ \E k \in 1 .. Len(list) :
             /\ list[k] = e
             /\ Len(rest) = Len(list) - 1
             /\ \A j \in 1 .. Len(list) - 1 :
                  rest[j] = IF j < k THEN list[j] ELSE list[j + 1]
    <2> HIDE DEF list
    <2>1. list \in Seq(Nat) /\ IsInjective(list) /\ e \in Range(list)
      BY <1>1, <1>2
    <2>2. QED BY ONLY <2>1, Removed, SMTT(60)
  <1>4. PICK k \in 1 .. Len(list) :
          /\ list[k] = e
          /\ Len(rest) = Len(list) - 1
          /\ \A j \in 1 .. Len(list) - 1 : rest[j] = IF j < k THEN list[j] ELSE list[j + 1]
    BY <1>3
  <1>5. /\ Len(list) \in Nat /\ i \in Nat /\ k \in Nat /\ i <= Len(list) /\ k <= Len(list)
        /\ i > 0 /\ k > 0 /\ i # k
    BY <1>1, <1>2, <1>4, LenProperties
  <1>6. /\ \A j \in 1 .. i - 1 : Over(f, list[j], Range(list))
        /\ 2 * Len(list) - i < m
    BY DEF Looking
  <1>7. \A j, l \in 1 .. Len(list) : list[j] = list[l] => j = l
    BY <1>1, InjectiveList
  <1>8. \A j \in 1 .. Len(list) : list[j] \in Range(list)
    BY <1>1, EntryInRange
  <1>9. list[i] = o
    OBVIOUS
  <1>10. t = [heap |-> t.heap, at |-> t.at] /\ t.heap = g /\ t.at = o
    OBVIOUS
  <1> HIDE DEF t, rest, list
  <1> DEFINE p == IF k < i THEN i - 1 ELSE i
  <1>11. p \in Nat /\ p \in 1 .. Len(rest) /\ rest[p] = o /\ 2 * Len(rest) - p < m - 1
    <2>1. CASE k < i
      <3>1. i - 1 \in 1 .. Len(list) - 1 /\ ~(i - 1 < k) /\ i - 1 + 1 = i
        BY <2>1, <1>5
      <3>2. rest[i - 1] = list[i]
        BY <3>1, <1>4
      <3>3. QED BY <2>1, <3>1, <3>2, <1>4, <1>5, <1>6, <1>9
    <2>2. CASE ~(k < i)
      <3>1. i \in 1 .. Len(list) - 1 /\ i < k
        BY <2>2, <1>5
      <3>2. rest[i] = list[i]
        BY <3>1, <1>4
      <3>3. QED BY <2>2, <3>1, <3>2, <1>4, <1>5, <1>6, <1>9
    <2>3. QED BY <2>1, <2>2
  <1>12. ASSUME NEW j \in 1 .. p - 1 PROVE Over(w, rest[j], Range(rest))
    <2>1. PICK l \in 1 .. i - 1 : l # k /\ rest[j] = list[l]
      <3>1. CASE j < k
        <4>1. j \in 1 .. i - 1 /\ j # k /\ j \in 1 .. Len(list) - 1
          BY <3>1, <1>5
        <4>2. rest[j] = list[j]
          BY <4>1, <3>1, <1>4
        <4>3. QED BY <4>1, <4>2
      <3>2. CASE ~(j < k)
        <4>1. j + 1 \in 1 .. i - 1 /\ j + 1 # k /\ j \in 1 .. Len(list) - 1
          BY <3>2, <1>5
        <4>2. rest[j] = list[j + 1]
          BY <4>1, <3>2, <1>4
        <4>3. QED BY <4>1, <4>2
      <3>3. QED BY <3>1, <3>2
    <2>2. l \in 1 .. Len(list) /\ l # i /\ l # k
      BY <2>1, <1>5
    <2>3. list[l] \in Range(list) \ {o, e}
      <3>1. list[l] # list[i] /\ list[l] # list[k] /\ list[l] \in Range(list)
        BY <2>2, <1>5, <1>7, <1>8
      <3>2. QED BY <3>1, <1>4, <1>9
    <2>4. w[list[l]] = f[list[l]]
      BY <2>3, <1>2 DEF list
    <2>5. Over(f, list[l], Range(list))
      BY <2>1, <1>6
    <2>6. QED BY <2>1, <2>4, <2>5, <1>3 DEF Over
  <1> HIDE DEF p
  <1>13. Looking(t, w, p, m - 1)
    BY <1>2, <1>10, <1>11, <1>12 DEF Looking, rest, list
  <1>14. Turning(t, L, top, m - 1)
    BY <1>2, <1>10, <1>11, <1>13 DEF Turning
  <1>15. QED
    BY <1>2, <1>14 DEF t, g, e, list

LEMMA TurnState ==
  ASSUME NEW L, NEW top, NEW m \in Nat, m > 0, NEW s, Turning(s, L, top, m)
  PROVE  Turning(Turn(s), L, top, m - 1)
  <1> DEFINE h == s.heap
             o == s.at
  <1>1. PICK f : /\ State(h, f, L, {}, top)
                 /\ \/ o = 0 /\ Spread(f, Range(h.large))
                    \/ \E i \in Nat : Looking(s, f, i, m)
    BY DEF Turning
  <1>2. s = [heap |-> h, at |-> o]
    BY DEF Turning
  <1>3. Sound(h, f, {}) /\ Tiling(f, top) /\ h \in Heaps /\ h.sane /\ h.large \in Seq(Nat)
    BY <1>1, HeapParts DEF State, Sound
  <1>4. CASE o = 0
    <2>1. Turn(s) = s
      BY <1>4 DEF Turn
    <2>2. \A i \in Nat : ~Looking(s, f, i, m)
      <3> SUFFICES ASSUME NEW i \in Nat, Looking(s, f, i, m) PROVE FALSE
        OBVIOUS
      <3>1. o \in Range(h.large)
        BY <1>3, EntryInRange DEF Looking
      <3>2. o \in DOMAIN f
        BY <3>1, <1>3 DEF Sound
      <3>3. QED BY <3>2, <1>3, <1>4, ItemsAreChunks
    <2>3. QED BY <2>1, <2>2, <1>1, <1>2 DEF Turning
  <1>5. CASE o # 0
    <2>1. PICK i \in Nat : Looking(s, f, i, m)
      BY <1>1, <1>5
    <2>2. i \in 1 .. Len(h.large) /\ h.large[i] = o
      BY <2>1 DEF Looking
    <2>3. o \in DOMAIN f /\ o \in Range(h.large) /\ h.kinds[o] = FREE_LARGE_OBJECT /\ Item(h, f, o)
      BY <1>3, <2>2, EntryInRange DEF Sound
    <2>4. /\ EndOf(h, o) = f[o] /\ h.size[o] \in Nat
          /\ f[o] - o \in Nat /\ h.size[o] + 16 = 256 * (f[o] - o)
      <3>1. Spans(h, f, o)
        BY <2>3, KindFacts DEF Item
      <3>2. EndOf(h, o) = f[o] /\ h.size[o] \in Nat /\ f[o] \in Nat /\ o \in Nat /\ o < f[o]
        BY <3>1, <1>3, <2>3, EndOfItem
      <3>3. QED BY <3>1, <3>2 DEF Spans
    <2>5. WholeObject(h.size[o])
      BY <2>4, WholeSize
    <2>6. Turn(s) = Merge(s)
      <3>1. Asserted(h, WholeObject(h.size[o])) = h
        BY <2>5, <1>3, AssertedTrue
      <3>2. Turn(s) = Merge([s EXCEPT !.heap = Asserted(h, WholeObject(h.size[o]))])
        BY <1>5 DEF Turn
      <3> HIDE DEF h, o
      <3>3. [s EXCEPT !.heap = h] = s
        BY <1>2
      <3>4. QED BY <3>1, <3>2, <3>3
    <2>7. Looking([heap |-> h, at |-> h.large[i]], f, i, m)
      BY <2>1, <2>2, <1>2
    <2> HIDE DEF h, o
    <2>8. s.heap = h /\ s.at = o
      BY DEF h, o
    <2>9. CASE Index(f[o]) = 0 \/ h.kinds[f[o]] # FREE_LARGE_OBJECT
      <3>1. Merge(s) = [heap |-> h, at |-> NextOf(h.large, o)]
        <4>1. Merge(s) = [s EXCEPT !.at = NextOf(h.large, @)]
          BY <2>4, <2>8, <2>9 DEF Merge
        <4>2. QED BY <4>1, <1>2, <2>8
      <3>2. Over(f, o, Range(h.large))
        BY <2>9, <1>3 DEF Over, Sound
      <3>3. Turning([heap |-> h, at |-> NextOf(h.large, h.large[i])], L, top, m - 1)
        BY <3>2, <2>2, <2>7, <1>1, PassedOver
      <3>4. QED BY <3>1, <3>3, <2>2, <2>6
    <2>10. CASE Index(f[o]) # 0 /\ h.kinds[f[o]] = FREE_LARGE_OBJECT
      <3>1. /\ Turning([heap |-> Absorb(h, o, f[o]), at |-> o], L, top, m - 1)
            /\ f[o] \in Range(h.large)
        BY <2>2, <2>7, <2>10, <1>1, TakenOff
      <3>2. Contains(h.large, f[o])
        BY <3>1, <1>3, EntryInRange DEF Contains
      <3>3. Merge(s) = [s EXCEPT !.heap = Absorb(h, o, f[o])]
        BY <2>4, <2>8, <2>10, <3>2 DEF Merge
      <3>4. Merge(s) = [heap |-> Absorb(h, o, f[o]), at |-> o]
        BY <3>3, <1>2, <2>8
      <3>5. QED BY <3>1, <3>4, <2>6
    <2>11. QED BY <2>9, <2>10
  <1>6. QED
    BY <1>4, <1>5

\* Turns starts at the head of the list and takes one turn after another.
LEMMA TurnsSteps ==
  ASSUME NEW h, Len(h.large) \in Nat
  PROVE  /\ Turns(h)[0] = [heap |-> h, at |-> Head(h.large)]
         /\ \A n \in 1 .. 2 * Len(h.large) : Turns(h)[n] = Turn(Turns(h)[n - 1])
  <1> DEFINE N == 2 * Len(h.large)
             start == [heap |-> h, at |-> Head(h.large)]
             Step(f, n) == IF n = 0 THEN start ELSE Turn(f[n - 1])
             Upto(f, m) == f = [n \in 0 .. m |-> Step(f, n)]
             Exists(m) == \E f : Upto(f, m)
             Bad == {m \in 0 .. N : ~Exists(m)}
  <1> HIDE DEF start
  <1>1. N \in Nat
    OBVIOUS
  <1> HIDE DEF N
  <1>2. Bad = {}
    <2> SUFFICES ASSUME Bad # {} PROVE FALSE
      OBVIOUS
    <2>1. PICK m \in Bad : \A k \in Bad : m <= k
      <3>1. Bad \subseteq Nat BY <1>1
      <3> HIDE DEF Bad
      <3>2. QED BY <3>1, LeastNumber
    <2>2. CASE m = 0
      <3> DEFINE f == [n \in 0 .. 0 |-> start]
      <3>1. Upto(f, 0)
        OBVIOUS
      <3>2. QED BY <3>1, <2>1, <2>2
    <2>3. CASE m # 0
      <3>1. m - 1 \in 0 .. N /\ m - 1 \notin Bad
        <4> HIDE DEF Exists
        <4>1. QED BY <1>1, <2>1, <2>3
      <3>2. PICK f : Upto(f, m - 1)
        <4>1. Exists(m - 1)
          <5> HIDE DEF Exists
          <5>1. QED BY <3>1
        <4>2. QED BY <4>1
      <3> DEFINE g == [n \in 0 .. m |-> IF n = m THEN Step(f, m) ELSE f[n]]
      <3>3. ASSUME NEW n \in 0 .. m PROVE g[n] = Step(g, n)
        <4>1. n # 0 => g[n - 1] = f[n - 1]
          BY <1>1
        <4>2. CASE n = m BY <4>1, <4>2
        <4>3. CASE n # m
          <5>1. n \in 0 .. m - 1 BY <4>3, <1>1
          <5>2. f[n] = Step(f, n) BY <3>2, <5>1
          <5>3. QED BY <4>1, <4>3, <5>2
        <4>4. QED BY <4>2, <4>3
      <3>4. Upto(g, m)
        <4>1. g = [n \in 0 .. m |-> g[n]]
          OBVIOUS
        <4> HIDE DEF g, Step
        <4>2. QED BY <4>1, <3>3
      <3>5. QED BY <3>4, <2>1
    <2>4. QED BY <2>2, <2>3
  <1>3. \E f : Upto(f, N)
    <2>1. Exists(N)
      <3> HIDE DEF Exists
      <3>1. QED BY <1>1, <1>2
    <2>2. QED BY <2>1
  <1>4. Upto(Turns(h), N)
    BY <1>3 DEF Turns, N, start
  <1> HIDE DEF Upto
  <1>5. \A n \in 0 .. N : Turns(h)[n] = Step(Turns(h), n)
    BY <1>4 DEF Upto
  <1>6. Turns(h)[0] = start
    BY <1>1, <1>5
  <1>7. \A n \in 1 .. N : Turns(h)[n] = Turn(Turns(h)[n - 1])
    BY <1>1, <1>5
  <1>8. QED
    BY <1>6, <1>7 DEF N, start

\* At the end of the list the free objects are merged.
LEMMA TurnsState ==
  ASSUME NEW h, NEW f, NEW L, NEW top, State(h, f, L, {}, top), h.large # <<>>
  PROVE  LET r == Turns(h)[2 * Len(h.large)].heap
         IN \E g : State(r, g, L, {}, top) /\ Spread(g, Range(r.large))
  <1> DEFINE N == 2 * Len(h.large)
             Bad == {n \in 0 .. N : ~Turning(Turns(h)[n], L, top, N - n)}
  <1>1. h \in Heaps /\ h.large \in Seq(Nat)
    BY HeapParts DEF State, Sound
  <1>2. Len(h.large) \in Nat /\ Len(h.large) # 0 /\ Head(h.large) = h.large[1]
    BY <1>1, EmptySeq, LenProperties
  <1>3. /\ Turns(h)[0] = [heap |-> h, at |-> Head(h.large)]
        /\ \A n \in 1 .. N : Turns(h)[n] = Turn(Turns(h)[n - 1])
    BY <1>2, TurnsSteps
  <1>4. Turning(Turns(h)[0], L, top, N - 0)
    <2> DEFINE s == [heap |-> h, at |-> Head(h.large)]
    <2>1. s.heap = h /\ s.at = h.large[1] /\ s = [heap |-> s.heap, at |-> s.at]
      BY <1>2
    <2> HIDE DEF s
    <2>2. 1 \in 1 .. Len(h.large) /\ 1 \in Nat /\ 1 .. 1 - 1 = {} /\ N - 1 < N - 0
      BY <1>2
    <2>3. Looking(s, f, 1, N - 0)
      BY <2>1, <2>2 DEF Looking
    <2>4. Turning(s, L, top, N - 0)
      BY <2>1, <2>2, <2>3 DEF Turning
    <2>5. QED BY <2>4, <1>3 DEF s
  <1>5. N \in Nat
    BY <1>2
  <1> HIDE DEF N
  <1>6. Bad = {}
    <2> SUFFICES ASSUME Bad # {} PROVE FALSE
      OBVIOUS
    <2>1. PICK n \in Bad : \A k \in Bad : n <= k
      <3>1. Bad \subseteq Nat BY <1>5
      <3> HIDE DEF Bad
      <3>2. QED BY <3>1, LeastNumber
    <2>2. n # 0
      BY <2>1, <1>4
    <2>3. n \in 1 .. N /\ n - 1 \in 0 .. N /\ ~(n <= n - 1)
          /\ N - (n - 1) \in Nat /\ N - (n - 1) > 0 /\ N - (n - 1) - 1 = N - n
      BY <2>1, <2>2, <1>5
    <2>4. Turning(Turns(h)[n - 1], L, top, N - (n - 1))
      BY <2>1, <2>3
    <2>5. Turning(Turn(Turns(h)[n - 1]), L, top, N - (n - 1) - 1)
      BY <2>3, <2>4, TurnState
    <2>6. Turning(Turns(h)[n], L, top, N - n)
      BY <2>3, <2>5, <1>3
    <2>7. QED BY <2>1, <2>6
  <1>7. Turning(Turns(h)[N], L, top, 0)
    <2>1. N \in 0 .. N /\ N - N = 0
      BY <1>5
    <2>2. QED BY <2>1, <1>6
  <1> DEFINE s == Turns(h)[N]
  <1> HIDE DEF s
  <1>8. PICK g : /\ State(s.heap, g, L, {}, top)
                 /\ \/ s.at = 0 /\ Spread(g, Range(s.heap.large))
                    \/ \E i \in Nat : Looking(s, g, i, 0)
    BY <1>7 DEF Turning, s
  <1>9. \A i \in Nat : ~Looking(s, g, i, 0)
    <2>1. s.heap.large \in Seq(Nat)
      BY <1>8, HeapParts DEF State, Sound
    <2>2. Len(s.heap.large) \in Nat
      BY <2>1, LenProperties
    <2>3. QED BY <2>2 DEF Looking
  <1>10. QED
    BY <1>8, <1>9 DEF s, N

LEMMA CompactState ==
  ASSUME NEW h, NEW f, NEW L, NEW top, State(h, f, L, {}, top), Merged(h, f)
  PROVE  \E g : State(Compact(h), g, L, {}, top) /\ Spread(g, Range(Compact(h).large))
  <1> DEFINE quiet == [h EXCEPT !.compact = FALSE]
  <1>1. h \in Heaps /\ h.sane
    BY DEF State, Sound
  <1>2. /\ quiet \in Heaps /\ quiet.sane = h.sane /\ quiet.large = h.large
        /\ quiet.small = h.small /\ quiet.kinds = h.kinds /\ quiet.size = h.size
    BY <1>1 DEF Heaps
  <1> HIDE DEF quiet
  <1>3. State(quiet, f, L, {}, top)
    BY <1>1, <1>2, Frame
  <1>4. CASE h.compact /\ h.large # <<>>
    <2>1. Compact(h) = Turns(quiet)[2 * Len(quiet.large)].heap
      BY <1>2, <1>4 DEF Compact, quiet
    <2>2. QED BY <2>1, <1>2, <1>3, <1>4, TurnsState
  <1>5. CASE ~(h.compact /\ h.large # <<>>)
    <2>1. Compact(h) = quiet
      BY <1>5 DEF Compact, quiet
    <2>2. Spread(f, Range(quiet.large))
      <3>1. CASE h.large = <<>>
        <4>1. Range(<<>>) = {}
          BY DEF Range
        <4>2. QED BY <3>1, <4>1, <1>2 DEF Spread
      <3>2. CASE h.large # <<>>
        BY <3>2, <1>2, <1>5 DEF Merged
      <3>3. QED BY <3>1, <3>2
    <2>3. QED BY <2>1, <2>2, <1>3
  <1>6. QED
    BY <1>4, <1>5

-----------------------------------------------------------------------------
(* Large objects.                                                          *)

LEMMA BestFits ==
  ASSUME NEW h \in Heaps, NEW n \in Nat,
         \A o \in Range(h.large) : h.size[o] \in Nat
  PROVE  \/ BestFit(h, n) = 0
         \/ BestFit(h, n) \in Range(h.large) /\ h.size[BestFit(h, n)] >= n
  <1> DEFINE S(i) == h.size[h.large[i]]
             fits == {i \in DOMAIN h.large : S(i) >= n}
             best == {i \in fits : \A j \in fits : S(i) <= S(j)}
             sizes == {S(i) : i \in fits}
  <1>1. BestFit(h, n) = IF fits = {} THEN 0
                        ELSE h.large[CHOOSE i \in best : \A j \in best : i <= j]
    BY DEF BestFit
  <1>2. h.large \in Seq(Nat) /\ DOMAIN h.large = 1 .. Len(h.large) /\ Len(h.large) \in Nat
    <2>1. h.large \in Seq(Nat)
      BY HeapParts
    <2>2. QED BY <2>1, LenProperties
  <1>3. \A i \in DOMAIN h.large : h.large[i] \in Range(h.large) /\ S(i) \in Nat
    BY <1>2, EntryInRange
  <1>4. fits \subseteq DOMAIN h.large /\ \A i \in fits : S(i) >= n
    OBVIOUS
  <1> HIDE DEF S
  <1>5. CASE fits # {}
    <2>1. sizes \subseteq Nat /\ sizes # {}
      BY <1>3, <1>4, <1>5
    <2>2. PICK m \in sizes : \A k \in sizes : m <= k
      <3> HIDE DEF sizes
      <3>1. QED BY <2>1, LeastNumber
    <2>3. PICK i \in fits : S(i) = m
      BY <2>2
    <2>4. i \in best
      BY <2>2, <2>3
    <2>5. best \subseteq Nat
      BY <1>2, <1>4
    <2> HIDE DEF best
    <2>6. \E b \in best : \A j \in best : b <= j
      BY <2>4, <2>5, LeastNumber
    <2> DEFINE b == CHOOSE b \in best : \A j \in best : b <= j
    <2>7. b \in best
      BY <2>6
    <2>8. BestFit(h, n) = h.large[b]
      BY <1>1, <1>5
    <2> HIDE DEF b
    <2>9. b \in fits
      BY <2>7 DEF best
    <2>10. QED BY <2>8, <2>9, <1>3, <1>4 DEF S
  <1>6. CASE fits = {}
    BY <1>1, <1>6
  <1>7. QED
    BY <1>5, <1>6

\* A free object that is large enough is taken.
LEMMA TakeState ==
  ASSUME NEW h, NEW f, NEW L, NEW top, State(h, f, L, {}, top),
         Spread(f, Range(h.large)),
         NEW n \in Nat, NEW o \in Range(h.large), h.size[o] >= n
  PROVE  Serves(Take(h, n, o), L, top, n)
  <1> DEFINE list == RemoveFirst(h.large, o)
             h1 == [h EXCEPT !.large = list]
             h2 == [Mark(h, o, LARGE_OBJECT) EXCEPT !.large = list]
             X == {o}
  <1>1. /\ State(h1, f, L, {} \cup {o}, top) /\ h1 \in Heaps /\ o \in DOMAIN f \ {}
    <2>1. LET g == [h EXCEPT !.large = RemoveFirst(@, o)]
          IN State(g, f, L, {} \cup {o}, top) /\ g \in Heaps /\ o \in DOMAIN f \ {}
      BY TakeOff
    <2>2. QED BY <2>1
  <1>2. State(h1, f, L, X, top) /\ o \in X /\ X \ {o} = {}
    <2>1. {} \cup {o} = X
      OBVIOUS
    <2> HIDE DEF X, h1
    <2>2. State(h1, f, L, X, top)
      BY <1>1, <2>1
    <2>3. QED BY <2>2 DEF X
  <1>3. /\ h \in Heaps /\ h.sane /\ o \in Chunks
        /\ h.kinds[o] = FREE_LARGE_OBJECT /\ Spans(h, f, o)
    <2>1. Sound(h, f, {}) /\ Tiling(f, top)
      BY DEF State
    <2>2. o \in DOMAIN f /\ h.kinds[o] = FREE_LARGE_OBJECT /\ Item(h, f, o)
      BY <2>1, <1>1 DEF Sound
    <2>3. Spans(h, f, o)
      BY <2>2, KindFacts DEF Item
    <2>4. QED BY <2>1, <2>2, <2>3, ItemsAreChunks DEF Sound
  <1>4. list \in Seq(Nat) /\ Range(list) = Range(h.large) \ {o}
    <2>1. h.large \in Seq(Nat) /\ IsInjective(h.large)
      BY HeapParts DEF State, Sound
    <2>2. QED BY <2>1, Removed
  <1> HIDE DEF list
  <1>5. /\ h1.kinds = h.kinds /\ h1.size = h.size /\ h1.small = h.small
        /\ h1.large = list /\ h1.sane = h.sane
    BY <1>3 DEF Heaps
  <1>6. /\ h2 \in Heaps
        /\ h2.kinds = [h.kinds EXCEPT ![o] = LARGE_OBJECT] /\ h2.size = h.size
        /\ h2.small = h.small /\ h2.large = list /\ h2.sane = h.sane
    <2>1. h2 = [h EXCEPT !.kinds = [@ EXCEPT ![o] = LARGE_OBJECT], !.large = list]
      BY <1>3 DEF Mark, Heaps
    <2> HIDE DEF h2
    <2>2. QED BY <2>1, <1>3, <1>4, KindFacts DEF Heaps
  <1>7. h.kinds \in [Chunks -> Nat]
    BY <1>3, HeapParts
  <1> HIDE DEF h1, h2
  <1>8. h2.kinds[o] = LARGE_OBJECT /\ \A c \in Chunks \ {o} : h2.kinds[c] = h.kinds[c]
    BY <1>3, <1>6, <1>7
  <1>9. \A i \in DOMAIN f \ X : h2.kinds[i] = h1.kinds[i] /\ h2.size[i] = h1.size[i]
    <2>1. DOMAIN f \subseteq Chunks
      BY ItemsAreChunks DEF State
    <2>2. QED BY <2>1, <1>5, <1>6, <1>8
  <1> HIDE DEF X
  <1>10. State(h2, f, L, X, top)
    BY <1>2, <1>3, <1>5, <1>6, <1>9, Frame
  <1>11. Spans(h2, f, o)
    BY <1>3, <1>6 DEF Spans
  <1>12. State(h2, f, L, X \ {o}, top) /\ Held(h2, f, L, o)
    BY <1>2, <1>8, <1>10, <1>11, Settle
  <1>13. State(h2, f, L, {}, top)
    BY <1>2, <1>12
  <1>14. Spread(f, Range(h2.large) \cup {o})
    <2>1. Range(h2.large) \cup {o} = Range(h.large)
      BY <1>4, <1>6
    <2>2. QED BY <2>1
  <1>15. Serves(Split(h2, o, n), L, top, n)
    BY <1>6, <1>12, <1>13, <1>14, SplitState
  <1>16. Take(h, n, o) = Split(h2, o, n)
    <2>1. Mark(h, o, LARGE_OBJECT).large = h.large
      BY <1>3 DEF Mark, Heaps
    <2>2. QED BY <2>1 DEF Take, h2, list
  <1>17. QED
    BY <1>15, <1>16

\* Enough pages are asked for, and whole ones, which is what the code asserts.
LEMMA EnoughPages ==
  ASSUME NEW h \in Heaps, h.sane, NEW n \in Nat
  PROVE  /\ GrowChecked(h, n) = h
         /\ PagesFor(h, n) \in Nat
         /\ PageUnits * PagesFor(h, n) \in Nat
         /\ 256 * (PageUnits * PagesFor(h, n)) >= n + 272
  <1> DEFINE need == n + LARGE_OBJECT_HEADER_SIZE + CHUNK_SIZE
             half == (h.pages * PAGE_SIZE) \div 2
             z == IF half < need THEN need ELSE half
             y == z + PAGE_SIZE - 1
             p == y \div PAGE_SIZE
  <1>1. need = n + 272 /\ need \in Nat
    BY DEF LARGE_OBJECT_HEADER_SIZE, CHUNK_SIZE
  <1>2. /\ PAGE_SIZE = 256 * PageUnits /\ PAGE_SIZE \in Nat \ {0} /\ PageUnits \in Nat
        /\ h.pages \in Nat
    BY PageSize, PageAssumption, HeapParts
  <1>3. half \in Nat
    <2> DEFINE w == h.pages * PAGE_SIZE
    <2>1. w \in Nat
      BY <1>2
    <2> HIDE DEF w
    <2>2. w \div 2 \in Nat
      BY <2>1
    <2>3. QED BY <2>2 DEF w
  <1>4. GrowBytes(h, n) = AlignUp(z, PAGE_SIZE)
    BY DEF GrowBytes
  <1> HIDE DEF need, half
  <1>5. z \in Nat /\ z >= n + 272
    BY <1>1, <1>3
  <1> HIDE DEF z
  <1>6. AlignUp(z, PAGE_SIZE) = p * PAGE_SIZE
    BY DEF AlignUp
  <1>7. AlignUp(z, PAGE_SIZE) >= z
    BY <1>2, <1>5, AlignUpBounds
  <1>8. p \in Nat
    BY <1>2, <1>5
  <1> HIDE DEF p
  <1>9. (p * PAGE_SIZE) \div PAGE_SIZE = p /\ (p * PAGE_SIZE) % PAGE_SIZE = 0
    BY <1>2, <1>8
  <1>10. PagesFor(h, n) = p
    BY <1>4, <1>6, <1>9 DEF PagesFor
  <1>11. PageUnits * p \in Nat /\ p * PAGE_SIZE = 256 * (PageUnits * p)
    <2>1. PageUnits * p \in Nat /\ p * (256 * PageUnits) = 256 * (PageUnits * p)
      BY <1>2, <1>8
    <2>2. QED BY <2>1, <1>2
  <1>12. GrowChecked(h, n) = h
    <2>1. GrowBytes(h, n) # 0 /\ GrowBytes(h, n) % PAGE_SIZE = 0
      BY <1>4, <1>5, <1>6, <1>7, <1>9
    <2> DEFINE ok == GrowBytes(h, n) # 0 /\ GrowBytes(h, n) % PAGE_SIZE = 0
    <2>2. GrowChecked(h, n) = Asserted(h, ok)
      BY DEF GrowChecked
    <2>3. ok
      BY <2>1
    <2> HIDE DEF ok
    <2>4. QED BY <2>2, <2>3, AssertedTrue
  <1>13. QED
    BY <1>5, <1>6, <1>7, <1>8, <1>10, <1>11, <1>12

\* The variables of __page_alloc, started or not.
SoundArena(a) == Unstarted(a) \/ ArenaInv(a)

\* What allocate_large_object comes to.
Allocated(r, L, n) ==
  /\ SoundArena(r.arena)
  /\ \/ r.obj = 0 /\ \E f : /\ State(r.heap, f, L, {}, Top(r.arena))
                           /\ Spread(f, Range(r.heap.large))
     \/ r.obj # 0 /\ \E f : Got(r.heap, f, L, Top(r.arena), r.obj, n)

LEMMA GotNonzero ==
  ASSUME NEW h, NEW f, NEW L, NEW top, NEW o, NEW n, Got(h, f, L, top, o, n)
  PROVE  o # 0
  BY HeldFacts DEF Got

\* The arena after a request, and where the pages it returns lie.
LEMMA GrantedPages ==
  ASSUME NEW a, SoundArena(a), NEW n \in Nat, NEW willing \in BOOLEAN
  PROVE  LET g == GetPages(a, n, willing)
         IN /\ SoundArena(g.arena)
            /\ Top(a) \in Nat /\ Top(g.arena) \in Nat
            /\ Top(g.arena) <= LastBreak /\ Top(a) <= Top(g.arena)
            /\ g.ptr # 0 => /\ g.ptr \in Nat /\ Top(a) <= g.ptr
                            /\ g.ptr % PageUnits = 0
                            /\ g.ptr + PageUnits * n <= Top(g.arena)
  <1> DEFINE s == Started(a)
             g == GetPages(a, n, willing)
             d == PageUnits * n
  <1>1. /\ ArenaInv(s)
        /\ Top(a) <= s.heap_end /\ Top(a) <= s.break
        /\ Top(a) \in Nat /\ Top(a) <= LastBreak
    BY StartedIsSound DEF SoundArena
  <1>2. a \in Arenas
    BY DEF SoundArena, Unstarted, ArenaInv
  <1>3. /\ ArenaInv(g.arena)
        /\ g.arena.heap_end >= s.heap_end
        /\ g.arena.break >= s.break
        /\ g.ptr \in Nat
        /\ g.ptr # 0 => /\ g.ptr >= s.heap_end
                        /\ g.ptr % PageUnits = 0
                        /\ g.ptr + d <= g.arena.heap_end
                        /\ g.ptr + d <= g.arena.break
    BY <1>1, <1>2, GetPagesIsSound
  <1>4. SoundArena(g.arena) /\ Top(g.arena) \in Nat /\ Top(g.arena) <= LastBreak
    <2> HIDE DEF g
    <2>1. SoundArena(g.arena)
      BY <1>3 DEF SoundArena
    <2>2. QED BY <2>1, StartedIsSound DEF SoundArena
  <1> HIDE DEF g, s, d
  <1>5. /\ g.arena.heap_end \in Nat /\ g.arena.break \in Nat
        /\ s.heap_end \in Nat /\ s.break \in Nat
    BY <1>1, <1>3 DEF ArenaInv, Arenas
  <1>6. Top(g.arena) = g.arena.heap_end \/ Top(g.arena) = g.arena.break
    BY <1>3 DEF Top, ArenaInv
  <1>7. Top(a) <= Top(g.arena)
    BY <1>1, <1>3, <1>5, <1>6
  <1>8. g.ptr # 0 => /\ Top(a) <= g.ptr
                     /\ g.ptr + d <= Top(g.arena)
    BY <1>1, <1>3, <1>5, <1>6
  <1>9. QED
    BY <1>1, <1>3, <1>4, <1>7, <1>8 DEF g, d

\* The heap grows by fresh pages, or the kernel refuses.
LEMMA GrowState ==
  ASSUME NEW h, NEW f, NEW L, NEW a, SoundArena(a), State(h, f, L, {}, Top(a)),
         Spread(f, Range(h.large)),
         NEW n \in Nat, NEW willing \in BOOLEAN
  PROVE  Allocated(GrowWith(h, n, PagesFor(h, n), GetPages(a, PagesFor(h, n), willing)), L, n)
  <1> DEFINE p == PagesFor(h, n)
             g == GetPages(a, p, willing)
             w == PageUnits * p
             r == Grow(h, n, p, g)
             new == Top(g.arena)
  <1>1. h \in Heaps /\ h.sane
    BY DEF State, Sound
  <1>2. p \in Nat /\ w \in Nat /\ 256 * w >= n + 272
    BY <1>1, EnoughPages
  <1> HIDE DEF p
  <1>3. /\ SoundArena(g.arena)
        /\ Top(a) \in Nat /\ new \in Nat
        /\ new <= LastBreak /\ Top(a) <= new
        /\ g.ptr # 0 => /\ g.ptr \in Nat /\ Top(a) <= g.ptr
                        /\ g.ptr % PageUnits = 0
                        /\ g.ptr + w <= new
    BY <1>2, GrantedPages
  <1>4. GrowWith(h, n, p, g) = [obj |-> r.obj, heap |-> r.heap, arena |-> g.arena]
    BY DEF GrowWith, With
  <1> HIDE DEF g, new
  <1>5. CASE g.ptr = 0
    <2>1. r = [obj |-> 0, heap |-> h]
      BY <1>5 DEF Grow
    <2>2. r.obj = 0 /\ r.heap = h
      BY <2>1
    <2> HIDE DEF r
    <2> DEFINE q == [obj |-> r.obj, heap |-> r.heap, arena |-> g.arena]
    <2>3. q.obj = 0 /\ q.heap = h /\ q.arena = g.arena
      BY <2>2
    <2> HIDE DEF q
    <2>4. State(h, f, L, {}, Top(g.arena))
      BY <1>3, MoreRoomState DEF new
    <2>5. Allocated(q, L, n)
      BY <2>3, <2>4, <1>3 DEF Allocated
    <2>6. QED BY <2>5, <1>4 DEF p, g, q
  <1>6. CASE g.ptr # 0
    <2> DEFINE o == g.ptr + 1
               e == g.ptr + w
               f1 == AddAt(f, o, e)
               size == p * PAGE_SIZE - CHUNK_SIZE - LARGE_OBJECT_HEADER_SIZE
               h1 == [Mark(h, o, LARGE_OBJECT) EXCEPT
                        !.pages = @ + p, !.size[o] = size,
                        !.fits = @ /\ size >= n + LARGE_OBJECT_HEADER_SIZE]
               X == {o}
    <2>1. /\ g.ptr \in Nat /\ Top(a) <= g.ptr /\ Index(g.ptr) = 0
          /\ o \in Nat /\ e \in Nat /\ e <= new /\ g.ptr < e
      BY <1>2, <1>3, <1>6 DEF Index
    <2>2. Index(e) = 0
      <3>1. PageStart(g.ptr) = g.ptr /\ PageOf(g.ptr) \in Nat /\ PageUnits \in Nat
        <4>1. PageStart(g.ptr) \in Nat /\ Index(g.ptr) = g.ptr - PageStart(g.ptr)
          BY <2>1, PageFacts
        <4>2. PageStart(g.ptr) = g.ptr
          BY <4>1, <2>1
        <4>3. QED BY <4>2, <2>1, PageFacts
      <3> DEFINE q == PageOf(g.ptr) + p
      <3>2. q \in Nat
        BY <3>1, <1>2
      <3>3. (PageOf(g.ptr) + p) * PageUnits = PageOf(g.ptr) * PageUnits + PageUnits * p
        BY <3>1, <1>2
      <3>4. e = q * PageUnits
        BY <3>1, <3>3 DEF PageStart
      <3> HIDE DEF q, e
      <3>5. QED BY <3>2, <3>4, PageMultiple
    <2> HIDE DEF e
    <2>3. State(h, f1, L, {o}, new) /\ o \in DOMAIN f1 /\ f1[o] = e /\ o \notin DOMAIN f
      BY <1>3, <2>1, <2>2, AddState
    <2>23. Spread(f1, Range(h.large) \cup {o})
      <3>1. Tiling(f, Top(a)) /\ Range(h.large) \in SUBSET DOMAIN f
        BY DEF State, Sound
      <3> HIDE DEF o
      <3>2. QED BY <3>1, <2>2, <2>3, SpreadAdd
    <2> HIDE DEF f1
    <2>4. size = 256 * w - 272 /\ size \in Nat /\ size >= n
      <3>1. p * PAGE_SIZE = 256 * w
        <4>1. PAGE_SIZE = 256 * PageUnits /\ PageUnits \in Nat
          BY PageSize, PageAssumption
        <4>2. p * (256 * PageUnits) = 256 * (PageUnits * p)
          BY <4>1, <1>2
        <4>3. QED BY <4>1, <4>2
      <3>2. size = p * PAGE_SIZE - 256 - 16
        BY DEF CHUNK_SIZE, LARGE_OBJECT_HEADER_SIZE
      <3> HIDE DEF size, w
      <3>3. QED BY <3>1, <3>2, <1>2 DEF w
    <2> HIDE DEF size
    <2>5. o \in Chunks
      BY <2>3, ItemsAreChunks DEF State
    <2>6. r = Split(h1, o, n)
      BY <1>6 DEF Grow, size
    <2> HIDE DEF o
    <2>7. /\ h1 \in Heaps
          /\ h1.kinds = [h.kinds EXCEPT ![o] = LARGE_OBJECT]
          /\ h1.size = [h.size EXCEPT ![o] = size]
          /\ h1.small = h.small /\ h1.large = h.large /\ h1.sane = h.sane
      <3> DEFINE ok == h.fits /\ size >= n + LARGE_OBJECT_HEADER_SIZE
                 more == h.pages + p
      <3>1. h1 = [h EXCEPT !.kinds = [@ EXCEPT ![o] = LARGE_OBJECT],
                           !.pages = more, !.size = [@ EXCEPT ![o] = size], !.fits = ok]
        BY <1>1 DEF Mark, Heaps
      <3>2. ok \in BOOLEAN /\ more \in Nat
        <4>1. h.pages \in Nat
          BY <1>1, HeapParts
        <4>2. QED BY <4>1, <1>2
      <3> DEFINE kinds == [h.kinds EXCEPT ![o] = LARGE_OBJECT]
                 sizes == [h.size EXCEPT ![o] = size]
      <3>3. kinds \in [Chunks -> Nat] /\ sizes \in [Chunks -> Nat]
        <4>1. h.kinds \in [Chunks -> Nat] /\ h.size \in [Chunks -> Nat]
          BY <1>1, HeapParts
        <4>2. QED BY <4>1, <2>4, <2>5, KindFacts
      <3> DEFINE g1 == [h EXCEPT !.kinds = kinds, !.pages = more, !.size = sizes, !.fits = ok]
      <3>4. h1 = g1
        <4> HIDE DEF h1, ok, more
        <4>1. QED BY <3>1
      <3> HIDE DEF h1, ok, more, kinds, sizes
      <3>5. /\ g1 \in Heaps /\ g1.kinds = kinds /\ g1.size = sizes
            /\ g1.small = h.small /\ g1.large = h.large /\ g1.sane = h.sane
        BY <3>2, <3>3, <1>1 DEF Heaps
      <3>6. QED BY <3>4, <3>5 DEF kinds, sizes
    <2>8. h.kinds \in [Chunks -> Nat] /\ h.size \in [Chunks -> Nat]
      BY <1>1, HeapParts
    <2> HIDE DEF h1
    <2>9. /\ h1.kinds[o] = LARGE_OBJECT /\ h1.size[o] = size
          /\ \A c \in Chunks \ {o} : h1.kinds[c] = h.kinds[c] /\ h1.size[c] = h.size[c]
      BY <2>5, <2>7, <2>8
    <2>10. o \in X /\ State(h, f1, L, X, new) /\ X \ {o} = {}
      BY <2>3
    <2>11. \A i \in DOMAIN f1 \ X : h1.kinds[i] = h.kinds[i] /\ h1.size[i] = h.size[i]
      <3>1. DOMAIN f1 \subseteq Chunks
        BY <2>3, ItemsAreChunks DEF State
      <3>2. QED BY <3>1, <2>9
    <2> HIDE DEF X
    <2>12. State(h1, f1, L, X, new)
      BY <1>1, <2>7, <2>10, <2>11, Frame
    <2>13. Spans(h1, f1, o)
      <3>1. size + 16 = 256 * (e - o)
        BY <1>2, <2>1, <2>4 DEF o, e
      <3>2. QED BY <3>1, <2>3, <2>9 DEF Spans
    <2>14. State(h1, f1, L, X \ {o}, new) /\ Held(h1, f1, L, o)
      BY <2>9, <2>10, <2>12, <2>13, Settle
    <2>15. State(h1, f1, L, {}, new)
      BY <2>10, <2>14
    <2>16. h1.size[o] >= n
      BY <2>4, <2>9
    <2>17. Serves(Split(h1, o, n), L, new, n)
      <3>1. n <= h1.size[o]
        BY <2>4, <2>16, <2>9
      <3>2. Spread(f1, Range(h1.large) \cup {o})
        BY <2>7, <2>23
      <3>3. QED BY <3>1, <3>2, <2>14, <2>15, SplitState
    <2> HIDE DEF r
    <2>18. PICK f2 : Got(r.heap, f2, L, new, r.obj, n)
      BY <2>6, <2>17 DEF Serves
    <2>19. r.obj # 0
      BY <2>18, GotNonzero
    <2> DEFINE q == [obj |-> r.obj, heap |-> r.heap, arena |-> g.arena]
    <2>20. q.obj = r.obj /\ q.heap = r.heap /\ q.arena = g.arena
      OBVIOUS
    <2> HIDE DEF q
    <2>21. Allocated(q, L, n)
      BY <2>18, <2>19, <2>20, <1>3 DEF Allocated, new
    <2>22. QED BY <2>21, <1>4 DEF p, g, q, r
  <1>7. QED
    BY <1>5, <1>6

LEMMA AllocateLargeObjectState ==
  ASSUME NEW h, NEW f, NEW L, NEW a, SoundArena(a), State(h, f, L, {}, Top(a)),
         Merged(h, f),
         NEW n \in Nat, NEW willing \in BOOLEAN
  PROVE  Allocated(AllocateLargeObject(h, a, n, willing), L, n)
  <1> DEFINE k == Compact(h)
             o == BestFit(k, n)
             r == LargeFrom(k, a, n, willing, o)
  <1>1. AllocateLargeObject(h, a, n, willing) = r
    BY DEF AllocateLargeObject, FitFrom
  <1>2. PICK g : State(k, g, L, {}, Top(a)) /\ Spread(g, Range(k.large))
    BY CompactState
  <1> HIDE DEF k
  <1>3. k \in Heaps /\ k.sane /\ k.large \in Seq(Nat)
    BY <1>2, HeapParts DEF State, Sound
  <1>4. \A x \in Range(k.large) : k.size[x] \in Nat
    <2>1. Sound(k, g, {}) /\ Tiling(g, Top(a))
      BY <1>2 DEF State
    <2>2. Range(k.large) \subseteq Chunks
      BY <2>1, ItemsAreChunks DEF Sound
    <2>3. k.size \in [Chunks -> Nat]
      BY <1>3, HeapParts
    <2>4. QED BY <2>2, <2>3
  <1>5. o = 0 \/ (o \in Range(k.large) /\ k.size[o] >= n)
    BY <1>3, <1>4, BestFits
  <1> HIDE DEF o
  <1>6. CASE o = 0
    <2>1. r = GrowWith(k, n, PagesFor(k, n), GetPages(a, PagesFor(k, n), willing))
      <3>1. GrowChecked(k, n) = k
        BY <1>3, EnoughPages
      <3>2. QED BY <3>1, <1>6 DEF LargeFrom
    <2>2. Allocated(GrowWith(k, n, PagesFor(k, n), GetPages(a, PagesFor(k, n), willing)), L, n)
      BY <1>2, GrowState
    <2>3. QED BY <2>1, <2>2, <1>1
  <1>7. CASE o # 0
    <2>1. Serves(Take(k, n, o), L, Top(a), n)
      BY <1>2, <1>5, <1>7, TakeState
    <2> DEFINE t == Take(k, n, o)
    <2>2. PICK g1 : Got(t.heap, g1, L, Top(a), t.obj, n)
      BY <2>1 DEF Serves
    <2>3. r = [obj |-> t.obj, heap |-> t.heap, arena |-> a]
      BY <1>7 DEF LargeFrom, With
    <2> HIDE DEF t
    <2>4. t.obj # 0
      BY <2>2, GotNonzero
    <2>5. r.obj = t.obj /\ r.heap = t.heap /\ r.arena = a
      BY <2>3
    <2> HIDE DEF r
    <2>6. Allocated(r, L, n)
      BY <2>2, <2>4, <2>5 DEF Allocated
    <2>7. QED BY <2>6, <1>1
  <1>8. QED
    BY <1>6, <1>7


-----------------------------------------------------------------------------
(* Small objects.                                                          *)

\* A pointer off a freelist: a slot of a chunk of the kind, that no object has.
Popping(h, g, f, L, X, top, k, p) ==
  /\ State(g, f, L, X, top)
  /\ g \in Heaps /\ g.kinds = h.kinds /\ g.large = h.large /\ g.compact = h.compact
  /\ \A j \in SmallKinds : \A q \in Range(g.small[j]) :
       q \in Range(h.small[j]) /\ q # p
  /\ p \in Nat \X Nat
  /\ p[1] \in DOMAIN f \ X /\ h.kinds[p[1]] = k /\ p[2] \in Range(Slots(k))
  /\ \A x \in L : x[1] # p

LEMMA PoppedState ==
  ASSUME NEW h, NEW f, NEW L, NEW X, NEW top, State(h, f, L, X, top),
         NEW k \in SmallKinds, h.small[k] # <<>>
  PROVE  Popping(h, [h EXCEPT !.small[k] = Tail(@)], f, L, X, top, k, Head(h.small[k]))
  <1> DEFINE p == Head(h.small[k])
             g == [h EXCEPT !.small[k] = Tail(@)]
  <1>1. Sound(h, f, X) /\ Uses(h, f, L, X) /\ Tiling(f, top)
    BY DEF State
  <1>2. h \in Heaps /\ h.small \in [SmallKinds -> Seq(Nat \X Nat)] /\ SmallList(h, f, X, k)
    BY <1>1, HeapParts DEF Sound
  <1>3. /\ p \in Range(h.small[k]) /\ p \in Nat \X Nat
        /\ Tail(h.small[k]) \in Seq(Nat \X Nat)
        /\ IsInjective(Tail(h.small[k]))
        /\ Range(Tail(h.small[k])) = Range(h.small[k]) \ {p}
    <2>1. h.small[k] \in Seq(Nat \X Nat) /\ IsInjective(h.small[k])
      BY <1>2 DEF SmallList
    <2>2. QED BY <2>1, Popped
  <1> HIDE DEF p
  <1>4. /\ g \in Heaps /\ g.large = h.large
        /\ g.kinds = h.kinds /\ g.size = h.size /\ g.sane = h.sane /\ g.compact = h.compact
        /\ g.small[k] = Tail(h.small[k])
        /\ \A j \in SmallKinds \ {k} : g.small[j] = h.small[j]
    <2> DEFINE small == [h.small EXCEPT ![k] = Tail(@)]
    <2>1. small \in [SmallKinds -> Seq(Nat \X Nat)]
      BY <1>2, <1>3
    <2>2. /\ small[k] = Tail(h.small[k])
          /\ \A j \in SmallKinds \ {k} : small[j] = h.small[j]
      BY <1>2
    <2>3. g = [h EXCEPT !.small = small]
      BY <1>2 DEF Heaps
    <2> HIDE DEF small, g
    <2>4. QED BY <1>2, <2>1, <2>2, <2>3 DEF Heaps
  <1> HIDE DEF g
  <1>5. p[1] \in DOMAIN f \ X /\ h.kinds[p[1]] = k /\ p[2] \in Range(Slots(k))
    BY <1>2, <1>3 DEF SmallList
  <1>6. \A j \in SmallKinds \ {k} : p \notin Range(h.small[j])
    BY <1>1, <1>5 DEF Sound, SmallList
  <1>7. \A j \in SmallKinds : \A q \in Range(g.small[j]) : q \in Range(h.small[j]) /\ q # p
    BY <1>3, <1>4, <1>6
  <1>8. ASSUME NEW j \in SmallKinds PROVE SmallList(g, f, X, j)
    <2>1. SmallList(h, f, X, j)
      BY <1>1 DEF Sound
    <2>2. IsInjective(g.small[j])
      BY <2>1, <1>3, <1>4 DEF SmallList
    <2>3. QED BY <2>1, <2>2, <1>4, <1>7 DEF SmallList
  <1>9. Sound(g, f, X)
    <2>1. \A i \in DOMAIN f \ X : Item(g, f, i)
      BY <1>1, <1>4 DEF Sound, Item, Spans
    <2>2. QED BY <2>1, <1>1, <1>4, <1>8 DEF Sound
  <1>10. ASSUME NEW x \in L PROVE Object(g, f, X, x) /\ x[1] # p
    <2>1. Object(h, f, X, x)
      BY <1>1 DEF Uses
    <2>2. x[1] # p
      BY <2>1, <1>3, <1>5, KindFacts DEF Object
    <2>3. QED BY <2>1, <2>2, <1>4, <1>7 DEF Object
  <1>11. State(g, f, L, X, top)
    BY <1>1, <1>9, <1>10 DEF State, Uses
  <1>12. Popping(h, g, f, L, X, top, k, p)
    BY <1>3, <1>4, <1>5, <1>7, <1>10, <1>11 DEF Popping
  <1>13. QED
    BY <1>12 DEF p, g

\* A chunk that no freelist and no object is in is taken in hand.
LEMMA ChunkInHand ==
  ASSUME NEW h, NEW f, NEW L, NEW X, NEW top, State(h, f, L, X, top),
         NEW o \in DOMAIN f \ X, h.kinds[o] \in SmallKinds,
         \A k \in SmallKinds : \A q \in Range(h.small[k]) : q[1] # o,
         \A x \in L : x[1][1] # o
  PROVE  State(h, f, L, X \cup {o}, top) /\ f[o] = o + 1
  <1> DEFINE Y == X \cup {o}
  <1>1. Sound(h, f, X) /\ Uses(h, f, L, X) /\ Tiling(f, top)
    BY DEF State
  <1>2. f[o] = o + 1 /\ h.kinds[o] # FREE_LARGE_OBJECT
    BY <1>1, KindFacts DEF Sound, Item
  <1>3. Range(h.large) = {i \in DOMAIN f \ Y : h.kinds[i] = FREE_LARGE_OBJECT}
    BY <1>1, <1>2 DEF Sound
  <1>4. ASSUME NEW k \in SmallKinds PROVE SmallList(h, f, Y, k)
    BY <1>1 DEF Sound, SmallList
  <1>5. Sound(h, f, Y)
    BY <1>1, <1>3, <1>4 DEF Sound
  <1>6. \A x \in L : Object(h, f, Y, x)
    BY <1>1 DEF Uses, Object
  <1>7. QED
    BY <1>1, <1>2, <1>5, <1>6 DEF State, Uses

\* A whole chunk off its freelist.
LEMMA WholePopped ==
  ASSUME NEW h, NEW f, NEW L, NEW X, NEW top, State(h, f, L, X, top),
         h.small[GRANULES_32] # <<>>
  PROVE  LET o == Head(h.small[GRANULES_32])[1]
             g == [h EXCEPT !.small[GRANULES_32] = Tail(@)]
         IN /\ State(g, f, L, X \cup {o}, top) /\ f[o] = o + 1 /\ o # 0 /\ o \notin X
            /\ g.large = h.large /\ g.compact = h.compact
  <1> DEFINE K == GRANULES_32
             p == Head(h.small[K])
             o == p[1]
             g == [h EXCEPT !.small[K] = Tail(@)]
  <1>1. K \in SmallKinds /\ h.small[K] # <<>>
    BY KindFacts
  <1>2. Popping(h, g, f, L, X, top, K, p)
    <2> HIDE DEF K
    <2>1. QED BY <1>1, PoppedState
  <1>3. Range(Slots(K)) = {0}
    BY WholeSlot
  <1> HIDE DEF K, p, g
  <1>4. /\ State(g, f, L, X, top)
        /\ g \in Heaps /\ g.kinds = h.kinds /\ g.large = h.large /\ g.compact = h.compact
        /\ \A j \in SmallKinds : \A q \in Range(g.small[j]) : q # p
        /\ p \in Nat \X Nat
        /\ o \in DOMAIN f \ X /\ h.kinds[o] = K /\ p[2] \in Range(Slots(K))
        /\ \A x \in L : x[1] # p
    BY <1>2 DEF Popping
  <1>5. p = <<o, 0>>
    BY <1>4, <1>3
  <1>6. Sound(g, f, X) /\ Uses(g, f, L, X) /\ Tiling(f, top)
    BY <1>4 DEF State
  <1>7. ASSUME NEW k \in SmallKinds, NEW q \in Range(g.small[k]) PROVE q[1] # o
    <2>1. q[1] \in DOMAIN f /\ g.kinds[q[1]] = k /\ q[2] \in Range(Slots(k))
      BY <1>6 DEF Sound, SmallList
    <2>2. q \in Nat \X Nat
      <3>1. g.small[k] \in Seq(Nat \X Nat)
        BY <1>4, HeapParts
      <3>2. QED BY <3>1, EntryInRange
    <2>3. q # p
      BY <1>4
    <2>4. q[1] = o => q = <<o, 0>>
      BY <2>1, <2>2, <1>4, <1>3
    <2>5. QED BY <2>3, <2>4, <1>5
  <1>8. ASSUME NEW x \in L PROVE x[1][1] # o
    <2>1. Object(g, f, X, x) /\ x[1] # p
      BY <1>4, <1>6 DEF Uses
    <2>2. x[1][1] = o => x[1] = <<o, 0>>
      BY <2>1, <1>1, <1>4, <1>3, KindFacts DEF Object
    <2>3. QED BY <2>1, <2>2, <1>5
  <1>9. o \in DOMAIN f \ X /\ g.kinds[o] \in SmallKinds
    BY <1>1, <1>4
  <1>10. State(g, f, L, X \cup {o}, top) /\ f[o] = o + 1
    <2> HIDE DEF o
    <2>1. State(g, f, L, X, top)
      BY <1>4
    <2>2. \A k \in SmallKinds : \A q \in Range(g.small[k]) : q[1] # o
      BY <1>7
    <2>3. \A x \in L : x[1][1] # o
      BY <1>8
    <2>4. QED BY ONLY <2>1, <2>2, <2>3, <1>9, ChunkInHand
  <1>11. o # 0
    BY <1>6, <1>9, ItemsAreChunks
  <1>12. QED
    BY <1>4, <1>9, <1>10, <1>11 DEF K, p, g

\* The pointers of a chunk's slots.
LEMMA SlotPointers ==
  ASSUME NEW k \in SmallKinds, NEW o \in Nat
  PROVE  LET list == [i \in DOMAIN Slots(k) |-> <<o, Slots(k)[i]>>]
         IN /\ list \in Seq(Nat \X Nat)
            /\ IsInjective(list)
            /\ \A q \in Range(list) : q[1] = o /\ q[2] \in Range(Slots(k))
  <1> DEFINE s == Slots(k)
             list == [i \in DOMAIN s |-> <<o, s[i]>>]
  <1>1. s \in Seq(Nat) /\ IsInjective(s)
    BY SlotFacts
  <1> HIDE DEF s
  <1>2. DOMAIN s = 1 .. Len(s) /\ Len(s) \in Nat /\ \A i \in 1 .. Len(s) : s[i] \in Nat /\ s[i] \in Range(s)
    BY <1>1, LenProperties, EntryInRange
  <1>3. list = [i \in 1 .. Len(s) |-> <<o, s[i]>>]
    BY <1>2
  <1>4. list \in Seq(Nat \X Nat) /\ DOMAIN list = 1 .. Len(s)
    BY <1>2, <1>3
  <1>5. IsInjective(list)
    BY <1>1, <1>2, <1>3 DEF IsInjective
  <1>6. \A q \in Range(list) : q[1] = o /\ q[2] \in Range(s)
    BY <1>2, <1>3, <1>4 DEF Range
  <1>7. QED
    BY <1>4, <1>5, <1>6 DEF s

\* The slots of a chunk in hand become the freelist of their kind; pointers the
\* list still had are not in it any more.
LEMMA CarvedState ==
  ASSUME NEW h, NEW f, NEW L, NEW o, NEW top, State(h, f, L, {o}, top),
         f[o] = o + 1, NEW k \in SmallKinds
  PROVE  LET g == [Mark(h, o, k) EXCEPT
                     !.small[k] = [i \in DOMAIN Slots(k) |-> <<o, Slots(k)[i]>>]]
         IN /\ State(g, f, L, {}, top)
            /\ g.large = h.large /\ g.compact = h.compact
  <1> DEFINE list == [i \in DOMAIN Slots(k) |-> <<o, Slots(k)[i]>>]
             g == [Mark(h, o, k) EXCEPT !.small[k] = list]
             X == {o}
  <1>1. Sound(h, f, X) /\ Uses(h, f, L, X) /\ Tiling(f, top)
    BY DEF State
  <1>2. /\ h \in Heaps /\ h.sane /\ o \in DOMAIN f
        /\ h.kinds \in [Chunks -> Nat]
        /\ h.small \in [SmallKinds -> Seq(Nat \X Nat)]
    BY <1>1, HeapParts DEF Sound
  <1>3. o \in Chunks /\ o \in Nat /\ DOMAIN f \subseteq Chunks
    BY <1>1, <1>2, ItemsAreChunks
  <1>4. /\ list \in Seq(Nat \X Nat) /\ IsInjective(list)
        /\ \A q \in Range(list) : q[1] = o /\ q[2] \in Range(Slots(k))
    BY <1>3, SlotPointers
  <1>5. k \in Nat /\ k # FREE_LARGE_OBJECT /\ k # LARGE_OBJECT
    BY KindFacts
  <1> HIDE DEF list
  <1>6. /\ g.large = h.large /\ g.size = h.size /\ g.sane = h.sane /\ g.compact = h.compact
        /\ g.kinds[o] = k /\ \A c \in Chunks \ {o} : g.kinds[c] = h.kinds[c]
        /\ g.small[k] = list /\ \A j \in SmallKinds \ {k} : g.small[j] = h.small[j]
        /\ g \in Heaps
    <2> DEFINE small == [h.small EXCEPT ![k] = list]
               kinds == [h.kinds EXCEPT ![o] = k]
    <2>1. small \in [SmallKinds -> Seq(Nat \X Nat)] /\ kinds \in [Chunks -> Nat]
      BY <1>2, <1>3, <1>4, <1>5
    <2>2. /\ small[k] = list /\ \A j \in SmallKinds \ {k} : small[j] = h.small[j]
          /\ kinds[o] = k /\ \A c \in Chunks \ {o} : kinds[c] = h.kinds[c]
      BY <1>2, <1>3
    <2>3. g = [h EXCEPT !.kinds = kinds, !.small = small]
      BY <1>2 DEF Mark, Heaps
    <2> HIDE DEF small, kinds, g
    <2>4. QED BY <1>2, <2>1, <2>2, <2>3 DEF Heaps
  <1> HIDE DEF g
  <1>7. \A i \in DOMAIN f \ X : g.kinds[i] = h.kinds[i] /\ g.size[i] = h.size[i]
    BY <1>3, <1>6
  <1>8. o \in X /\ \A i \in DOMAIN f : i \in X => i = o
    OBVIOUS
  <1> HIDE DEF X
  <1>9. \A i \in DOMAIN f : Item(g, f, i)
    <2>1. Item(g, f, o)
      BY <1>6 DEF Item
    <2>2. \A i \in DOMAIN f \ X : Item(g, f, i)
      BY <1>1, <1>6, <1>7 DEF Sound, Item, Spans
    <2>3. QED BY <2>1, <2>2, <1>8
  <1>10. Range(g.large) = {i \in DOMAIN f : g.kinds[i] = FREE_LARGE_OBJECT}
    BY <1>1, <1>5, <1>6, <1>7, <1>8 DEF Sound
  <1>11. ASSUME NEW j \in SmallKinds PROVE SmallList(g, f, {}, j)
    <2>1. CASE j # k
      BY <2>1, <1>1, <1>6, <1>7 DEF Sound, SmallList
    <2>2. CASE j = k
      <3>1. \A q \in Range(g.small[k]) :
              q[1] \in DOMAIN f /\ g.kinds[q[1]] = k /\ q[2] \in Range(Slots(k))
        BY <1>2, <1>4, <1>6
      <3>2. QED BY <3>1, <2>2, <1>4, <1>6 DEF SmallList
    <2>3. QED BY <2>1, <2>2
  <1>12. Sound(g, f, {})
    <2>1. DOMAIN f \ {} = DOMAIN f
      OBVIOUS
    <2>2. QED BY <2>1, <1>1, <1>6, <1>9, <1>10, <1>11 DEF Sound
  <1>13. ASSUME NEW x \in L PROVE Object(g, f, {}, x)
    <2>1. Object(h, f, X, x) /\ x[1][1] \in DOMAIN f \ X
      BY <1>1 DEF Uses, Object
    <2>2. g.kinds[x[1][1]] = h.kinds[x[1][1]] /\ g.size[x[1][1]] = h.size[x[1][1]]
      BY <2>1, <1>7
    <2>3. x[1][1] # o
      BY <2>1, <1>8
    <2>4. h.kinds[x[1][1]] \in SmallKinds /\ x[1] \notin Range(h.small[h.kinds[x[1][1]]])
            => x[1] \notin Range(g.small[h.kinds[x[1][1]]])
      BY <2>3, <1>4, <1>6
    <2>5. QED BY <2>1, <2>2, <2>4 DEF Object
  <1>14. State(g, f, L, {}, top)
    BY <1>1, <1>12, <1>13 DEF State, Uses
  <1>15. QED
    BY <1>6, <1>14 DEF g, list

\* What a call of malloc for n bytes comes to.
Outcome(r, L, n) ==
  /\ SoundArena(r.arena)
  /\ IF r.ptr = NULL THEN \E f : Tidy(r.heap, f, L, Top(r.arena))
     ELSE /\ \E f : Tidy(r.heap, f, L \cup {<<r.ptr, n>>}, Top(r.arena))
          /\ \A x \in L : x[1] # r.ptr

\* An object is handed out.
LEMMA Granted ==
  ASSUME NEW h, NEW f, NEW L, NEW top, State(h, f, L, {}, top),
         NEW x, Object(h, f, {}, x), \A y \in L : y[1] # x[1]
  PROVE  State(h, f, L \cup {x}, {}, top)
  <1>1. Uses(h, f, L \cup {x}, {})
    BY DEF State, Uses
  <1>2. QED
    BY <1>1 DEF State

\* A freelist hands out its first pointer, if it has one.
LEMMA PopSmallState ==
  ASSUME NEW r, NEW f, NEW L, SoundArena(r.arena), Tidy(r.heap, f, L, Top(r.arena)),
         NEW k \in SmallKinds, NEW n \in Nat, SmallSize(k) >= n
  PROVE  Outcome(PopSmall(r, k), L, n)
  <1> DEFINE h == r.heap
             top == Top(r.arena)
             p == Head(h.small[k])
             g == [h EXCEPT !.small[k] = Tail(@)]
             q == PopSmall(r, k)
             x == <<p, n>>
             X == {}
  <1>1. CASE h.small[k] = <<>>
    <2>1. q = [ptr |-> NULL, heap |-> h, arena |-> r.arena]
      BY <1>1 DEF PopSmall
    <2> HIDE DEF q
    <2>2. q.ptr = NULL /\ q.heap = h /\ q.arena = r.arena
      BY <2>1
    <2>3. Outcome(q, L, n)
      BY <2>2 DEF Outcome
    <2>4. QED BY <2>3 DEF q
  <1>2. CASE h.small[k] # <<>>
    <2>1. q = [ptr |-> p, arena |-> r.arena, heap |-> g]
      BY <1>2 DEF PopSmall
    <2>2. State(h, f, L, X, top)
      BY DEF Tidy
    <2> HIDE DEF q, X
    <2>3. Popping(h, g, f, L, X, top, k, p)
      <3> HIDE DEF h, top
      <3>1. QED BY <1>2, <2>2, PoppedState
    <2> HIDE DEF g, p
    <2>4. /\ State(g, f, L, X, top)
          /\ g \in Heaps /\ g.kinds = h.kinds /\ g.large = h.large /\ g.compact = h.compact
          /\ \A j \in SmallKinds : \A e \in Range(g.small[j]) : e # p
          /\ p \in Nat \X Nat
          /\ p[1] \in DOMAIN f \ X /\ h.kinds[p[1]] = k /\ p[2] \in Range(Slots(k))
          /\ \A y \in L : y[1] # p
      BY <2>3 DEF Popping
    <2>5. q.ptr = p /\ q.heap = g /\ q.arena = r.arena
      BY <2>1
    <2>6. x \in (Nat \X Nat) \X Nat /\ x[1] = p /\ x[2] = n
      BY <2>4
    <2> HIDE DEF x
    <2>7. Object(g, f, X, x)
      BY <2>4, <2>6 DEF Object
    <2>8. State(g, f, L \cup {x}, {}, top)
      <3>1. State(g, f, L, {}, top) /\ Object(g, f, {}, x)
        BY <2>4, <2>7 DEF X
      <3>2. \A y \in L : y[1] # x[1]
        BY <2>4, <2>6
      <3>3. QED BY <3>1, <3>2, Granted
    <2>9. p # NULL
      <3>1. Tiling(f, top) /\ p[1] \in DOMAIN f
        BY <2>4 DEF State
      <3>2. p[1] # 0
        BY <3>1, ItemsAreChunks
      <3>3. NULL[1] = 0
        BY DEF NULL
      <3>4. QED BY <3>2, <3>3
    <2>10. Tidy(g, f, L \cup {x}, top)
      BY <2>4, <2>8 DEF Tidy, Merged
    <2>11. Outcome(q, L, n)
      BY <2>4, <2>5, <2>9, <2>10 DEF Outcome, x
    <2>12. QED BY <2>11 DEF q
  <1>3. QED
    BY <1>1, <1>2

\* What allocate_large_object returns is a record of the three.
LEMMA AllocatedRecord ==
  ASSUME NEW h, NEW a, NEW n, NEW willing
  PROVE  \E t, b : AllocateLargeObject(h, a, n, willing) = With(t, b)
  BY DEF AllocateLargeObject, FitFrom, LargeFrom, GrowWith

\* obtain_small_objects comes by a chunk, or by none.
InHand(r, L) ==
  /\ \E t, b : r = With(t, b)
  /\ SoundArena(r.arena)
  /\ \/ r.obj = 0 /\ \E f : Tidy(r.heap, f, L, Top(r.arena))
     \/ /\ r.obj # 0
        /\ \E f : /\ State(r.heap, f, L, {r.obj}, Top(r.arena)) /\ f[r.obj] = r.obj + 1
                  /\ Merged(r.heap, f)

LEMMA WholeChunkState ==
  ASSUME NEW h, NEW f, NEW L, NEW a, SoundArena(a), Tidy(h, f, L, Top(a)),
         NEW willing \in BOOLEAN
  PROVE  InHand(WholeChunk(h, a, willing), L)
  <1> DEFINE K == GRANULES_32
             r == WholeChunk(h, a, willing)
             X == {}
  <1>1. CASE h.small[K] # <<>>
    <2> DEFINE o == Head(h.small[K])[1]
               g == [h EXCEPT !.small[K] = Tail(@)]
               t == [obj |-> o, heap |-> g]
    <2>1. r = [obj |-> o, arena |-> a, heap |-> g]
      BY <1>1 DEF WholeChunk
    <2>2. State(h, f, L, X, Top(a))
      BY DEF Tidy
    <2> HIDE DEF r
    <2>3. /\ State(g, f, L, X \cup {o}, Top(a)) /\ f[o] = o + 1 /\ o # 0
          /\ g.large = h.large /\ g.compact = h.compact
      <3> HIDE DEF X
      <3>1. QED BY <1>1, <2>2, WholePopped
    <2>4. X \cup {o} = {o}
      OBVIOUS
    <2> HIDE DEF o, g
    <2>5. r = With(t, a)
      BY <2>1 DEF With
    <2>6. r.obj = o /\ r.heap = g /\ r.arena = a
      BY <2>1
    <2>7. Merged(g, f)
      BY <2>3 DEF Tidy, Merged
    <2>8. InHand(r, L)
      BY <2>3, <2>4, <2>5, <2>6, <2>7 DEF InHand
    <2>9. QED BY <2>8 DEF r
  <1>2. CASE h.small[K] = <<>>
    <2>1. r = AllocateLargeObject(h, a, 0, willing)
      BY <1>2 DEF WholeChunk
    <2> HIDE DEF r
    <2>2. Allocated(r, L, 0) /\ \E t, b : r = With(t, b)
      BY <2>1, AllocateLargeObjectState, AllocatedRecord DEF Tidy
    <2>3. ASSUME r.obj = 0 PROVE InHand(r, L)
      BY <2>2, <2>3 DEF Allocated, InHand, Tidy, Merged
    <2>4. ASSUME r.obj # 0 PROVE InHand(r, L)
      <3> DEFINE o == r.obj
                 top == Top(r.arena)
      <3>1. PICK g : Got(r.heap, g, L, top, o, 0)
        BY <2>2, <2>4 DEF Allocated
      <3>2. /\ State(r.heap, g, L, X, top) /\ Held(r.heap, g, L, o) /\ g[o] = o + 1 /\ o \notin X
            /\ Merged(r.heap, g)
        BY <3>1 DEF Got, Merged
      <3>3. X \cup {o} = {o}
        OBVIOUS
      <3> HIDE DEF X, o, top
      <3>4. State(r.heap, g, L, X \cup {o}, top)
        BY <3>2, LetGo
      <3>5. QED BY <2>2, <2>4, <3>2, <3>3, <3>4 DEF InHand, Allocated, o, top
    <2>5. QED BY <2>3, <2>4 DEF r
  <1>3. QED
    BY <1>1, <1>2

LEMMA AllocateSmallState ==
  ASSUME NEW h, NEW f, NEW L, NEW a, SoundArena(a), Tidy(h, f, L, Top(a)),
         NEW k \in SmallKinds, NEW n \in Nat, SmallSize(k) >= n, NEW willing \in BOOLEAN
  PROVE  Outcome(AllocateSmall(h, a, k, willing), L, n)
  <1> DEFINE w == WholeChunk(h, a, willing)
             r == IF h.small[k] # <<>> THEN [obj |-> 0, heap |-> h, arena |-> a]
                  ELSE Obtain(w, k)
  <1>1. AllocateSmall(h, a, k, willing) = PopSmall(r, k)
    <2>1. Asserted(h, k \in SmallKinds) = h
      <3>1. h \in Heaps /\ h.sane
        BY DEF Tidy, State, Sound
      <3>2. QED BY <3>1, AssertedTrue
    <2>2. QED BY <2>1 DEF AllocateSmall, FromList
  <1>2. InHand(w, L)
    BY WholeChunkState
  <1> HIDE DEF w
  <1>3. SoundArena(r.arena) /\ \E g : Tidy(r.heap, g, L, Top(r.arena))
    <2>1. CASE h.small[k] # <<>>
      <3>1. r = [obj |-> 0, heap |-> h, arena |-> a]
        BY <2>1
      <3> HIDE DEF r
      <3>2. r.heap = h /\ r.arena = a
        BY <3>1
      <3>3. QED BY <3>2
    <2>2. CASE h.small[k] = <<>> /\ w.obj = 0
      <3>1. r = w
        BY <2>2 DEF Obtain
      <3> HIDE DEF r
      <3>2. QED BY <1>2, <2>2, <3>1 DEF InHand
    <2>3. CASE h.small[k] = <<>> /\ w.obj # 0
      <3> DEFINE o == w.obj
                 h1 == w.heap
                 g == [Mark(h1, o, k) EXCEPT
                         !.small[k] = [i \in DOMAIN Slots(k) |-> <<o, Slots(k)[i]>>]]
      <3>1. r = [w EXCEPT !.heap = g]
        BY <2>3 DEF Obtain, Carve
      <3>2. PICK t, b : w = With(t, b)
        BY <1>2 DEF InHand
      <3>3. w = [obj |-> t.obj, heap |-> t.heap, arena |-> b]
        BY <3>2 DEF With
      <3>4. PICK f1 : /\ State(h1, f1, L, {o}, Top(w.arena)) /\ f1[o] = o + 1
                      /\ Merged(h1, f1)
        BY <1>2, <2>3 DEF InHand
      <3> HIDE DEF h1, o
      <3>5. /\ State(g, f1, L, {}, Top(w.arena))
            /\ g.large = h1.large /\ g.compact = h1.compact
        BY <3>4, CarvedState
      <3>8. Tidy(g, f1, L, Top(w.arena))
        BY <3>4, <3>5 DEF Tidy, Merged
      <3> HIDE DEF g, r
      <3>6. r.heap = g /\ r.arena = w.arena
        BY <3>1, <3>3
      <3>7. QED BY <1>2, <3>6, <3>8 DEF InHand
    <2>4. QED BY <2>1, <2>2, <2>3
  <1> HIDE DEF r
  <1>4. Outcome(PopSmall(r, k), L, n)
    BY <1>3, PopSmallState
  <1>5. QED
    BY <1>1, <1>4

-----------------------------------------------------------------------------
(* malloc and free.                                                        *)

\* Whatever the owner of a large object writes, no item's header changes.
LEMMA ScribbleState ==
  ASSUME NEW h, NEW f, NEW L, NEW top, State(h, f, L, {}, top),
         NEW o, Held(h, f, L, o)
  PROVE  /\ State(Scribble(h, o), f, L, {}, top)
         /\ Scribble(h, o).kinds[o] = LARGE_OBJECT
         /\ Scribble(h, o).size = h.size /\ Scribble(h, o).large = h.large
  <1> DEFINE later == o + 1 .. EndOf(h, o) - 1
             g == Scribble(h, o)
             X == {}
             kinds == [c \in Chunks |-> IF PageStart(c) \in later THEN FREE_LARGE_OBJECT
                                        ELSE h.kinds[c]]
  <1>1. State(h, f, L, X, top) /\ o \notin X
    OBVIOUS
  <1> HIDE DEF X
  <1>2. /\ EndOf(h, o) = f[o]
        /\ h \in Heaps /\ h.sane /\ o \in Nat /\ f[o] \in Nat
    BY <1>1, HeldFacts
  <1>3. Tiling(f, top) /\ o \in DOMAIN f /\ h.kinds[o] = LARGE_OBJECT
    BY DEF State, Held
  <1>4. kinds \in [Chunks -> Nat]
    <2>1. h.kinds \in [Chunks -> Nat]
      BY <1>2, HeapParts
    <2> HIDE DEF later
    <2>2. \A c \in Chunks : h.kinds[c] \in Nat /\ FREE_LARGE_OBJECT \in Nat
      BY <2>1, KindFacts
    <2>3. QED BY <2>2
  <1>5. g = [h EXCEPT !.kinds = kinds]
    BY <1>2 DEF Scribble, PageStart, Heaps
  <1>6. \A i \in DOMAIN f : kinds[i] = h.kinds[i]
    <2> TAKE i \in DOMAIN f
    <2>1. i \in Chunks /\ i \in Nat
      BY <1>3, ItemsAreChunks
    <2>2. PageStart(i) \in Nat
      BY <2>1, PageFacts
    <2>3. PageStart(i) < o \/ f[o] <= PageStart(i)
      BY <1>3 DEF Tiling, ItemsApart
    <2>4. PageStart(i) \notin later
      BY <2>2, <2>3, <1>2
    <2> HIDE DEF later
    <2>5. QED BY <2>1, <2>4
  <1> HIDE DEF kinds, g
  <1>7. /\ g \in Heaps /\ g.kinds = kinds /\ g.size = h.size
        /\ g.large = h.large /\ g.small = h.small /\ g.sane = h.sane
    BY <1>2, <1>4, <1>5 DEF Heaps
  <1>8. State(g, f, L, X, top)
    BY <1>1, <1>2, <1>6, <1>7, Frame
  <1>9. QED
    BY <1>3, <1>6, <1>7, <1>8 DEF X, g

LEMMA AllocateLargeState ==
  ASSUME NEW r, NEW L, NEW n \in Nat, n > 256, Allocated(r, L, n)
  PROVE  Outcome(AllocateLarge(r), L, n)
  <1> DEFINE o == r.obj
             top == Top(r.arena)
             g == Scribble(r.heap, o)
             q == AllocateLarge(r)
             p == <<o, 16>>
             x == <<p, n>>
  <1>1. CASE o = 0
    <2>1. q = [ptr |-> NULL, heap |-> r.heap, arena |-> r.arena]
      BY <1>1 DEF AllocateLarge
    <2> HIDE DEF q
    <2>2. q.ptr = NULL /\ q.heap = r.heap /\ q.arena = r.arena
      BY <2>1
    <2>3. Outcome(q, L, n)
      BY <2>2, <1>1 DEF Outcome, Allocated, Tidy, Merged
    <2>4. QED BY <2>3 DEF q
  <1>2. CASE o # 0
    <2>1. q = [ptr |-> p, heap |-> g, arena |-> r.arena]
      BY <1>2 DEF AllocateLarge, LARGE_OBJECT_HEADER_SIZE
    <2> HIDE DEF q
    <2>2. PICK f : Got(r.heap, f, L, top, o, n)
      BY <1>2 DEF Allocated
    <2> HIDE DEF o, top
    <2>3. /\ State(r.heap, f, L, {}, top) /\ Held(r.heap, f, L, o) /\ r.heap.size[o] >= n
          /\ Spread(f, Range(r.heap.large))
      BY <2>2 DEF Got
    <2>4. /\ State(g, f, L, {}, top)
          /\ g.kinds[o] = LARGE_OBJECT /\ g.size = r.heap.size
          /\ g.large = r.heap.large
      BY <2>3, ScribbleState
    <2> HIDE DEF g
    <2>5. o \in DOMAIN f /\ o \in Nat /\ o \in Chunks
      BY <2>3, ItemsAreChunks DEF Held, State
    <2>6. g.size[o] \in Nat
      BY <2>4, <2>5, HeapParts DEF State, Sound
    <2>7. x \in (Nat \X Nat) \X Nat /\ x[1] = p /\ x[2] = n /\ p[1] = o /\ p[2] = 16
      BY <2>5
    <2> HIDE DEF x, p
    <2>8. Object(g, f, {}, x)
      BY <2>3, <2>4, <2>5, <2>6, <2>7 DEF Object
    <2>9. \A y \in L : y[1] # x[1]
      BY <2>3, <2>7 DEF Held
    <2>10. Tidy(g, f, L \cup {x}, top)
      <3>1. State(g, f, L \cup {x}, {}, top)
        BY <2>4, <2>8, <2>9, Granted
      <3>2. QED BY <3>1, <2>3, <2>4 DEF Tidy, Merged
    <2>11. p # NULL
      <3>1. NULL[2] = 0
        BY DEF NULL
      <3>2. QED BY <2>7, <3>1
    <2>12. q.ptr = p /\ q.heap = g /\ q.arena = r.arena
      BY <2>1
    <2>13. Outcome(q, L, n)
      BY <2>7, <2>9, <2>10, <2>11, <2>12 DEF Outcome, Allocated, x, top
    <2>14. QED BY <2>13 DEF q
  <1>3. QED
    BY <1>1, <1>2

LEMMA AllocationsState ==
  ASSUME NEW h, NEW f, NEW L, NEW a, SoundArena(a), Tidy(h, f, L, Top(a)),
         NEW n \in Nat, NEW r \in Allocations(h, a, n)
  PROVE  Outcome(r, L, n)
  <1>1. PICK willing \in BOOLEAN :
          r = IF KindFor(n) = LARGE_OBJECT
                THEN AllocateLarge(AllocateLargeObject(h, a, n, willing))
                ELSE AllocateSmall(h, a, KindFor(n), willing)
    BY DEF Allocations
  <1>2. CASE KindFor(n) = LARGE_OBJECT
    <2>1. n > 256
      BY <1>2, KindForFits, KindFacts
    <2>2. Allocated(AllocateLargeObject(h, a, n, willing), L, n)
      BY AllocateLargeObjectState DEF Tidy
    <2>3. QED BY <1>1, <1>2, <2>1, <2>2, AllocateLargeState
  <1>3. CASE KindFor(n) # LARGE_OBJECT
    <2>1. KindFor(n) \in SmallKinds /\ SmallSize(KindFor(n)) >= n
      BY <1>3, KindForFits
    <2>2. Outcome(AllocateSmall(h, a, KindFor(n), willing), L, n)
      BY <2>1, AllocateSmallState
    <2>3. QED BY <1>1, <1>3, <2>2
  <1>4. QED
    BY <1>2, <1>3

\* free gives back what an object takes up.
LEMMA ReleaseState ==
  ASSUME NEW h, NEW f, NEW L, NEW top, Tidy(h, f, L, top), NEW x \in L
  PROVE  Tidy(Release(h, x[1]), f, L \ {x}, top)
  <1> DEFINE p == x[1]
             c == p[1]
             k == h.kinds[c]
             g == Release(h, p)
             M == L \ {x}
             X == {}
  <1>1. /\ Sound(h, f, X) /\ Tiling(f, top)
        /\ Object(h, f, X, x) /\ \A y \in M : Object(h, f, X, y) /\ y[1] # p
    BY DEF Tidy, State, Uses
  <1>2. c \in DOMAIN f /\ p \in Nat \X Nat
    BY <1>1 DEF Object
  <1>3. h \in Heaps /\ h.sane /\ c \in Chunks /\ c \in Nat /\ DOMAIN f \subseteq Chunks
    BY <1>1, <1>2, ItemsAreChunks DEF Sound
  <1>4. /\ h.kinds \in [Chunks -> Nat] /\ h.large \in Seq(Nat)
        /\ h.small \in [SmallKinds -> Seq(Nat \X Nat)]
    BY <1>3, HeapParts
  <1>5. State(h, f, M, X, top)
    BY Fewer DEF Tidy
  <1>6. M = L \ {x}
    OBVIOUS
  <1> HIDE DEF M
  <1>7. CASE k = LARGE_OBJECT
    <2> DEFINE kinds == [h.kinds EXCEPT ![c] = FREE_LARGE_OBJECT]
               list == <<c>> \o h.large
               Y == X \cup {c}
    <2>1. g = [Mark(h, c, FREE_LARGE_OBJECT) EXCEPT !.large = <<c>> \o @, !.compact = TRUE]
      BY <1>7 DEF Release
    <2>2. Mark(h, c, FREE_LARGE_OBJECT).large = h.large
      BY <1>3 DEF Mark, Heaps
    <2>3. g = [h EXCEPT !.kinds = kinds, !.large = list, !.compact = TRUE]
      BY <2>1, <2>2, <1>3 DEF Mark, Heaps
    <2>4. kinds \in [Chunks -> Nat] /\ list \in Seq(Nat)
      BY <1>3, <1>4, KindFacts
    <2>5. kinds[c] = FREE_LARGE_OBJECT /\ \A i \in Chunks \ {c} : kinds[i] = h.kinds[i]
      BY <1>3, <1>4
    <2> HIDE DEF g, kinds
    <2>6. /\ g \in Heaps /\ g.kinds = kinds /\ g.large = list
          /\ g.size = h.size /\ g.small = h.small /\ g.sane = h.sane /\ g.compact
      <3> HIDE DEF list
      <3>1. QED BY <2>3, <2>4, <1>3 DEF Heaps
    <2>7. Spans(h, f, c) /\ h.size[c] >= 256 /\ p[2] = 16
      <3>1. Item(h, f, c)
        BY <1>1, <1>2 DEF Sound
      <3>2. QED BY <3>1, <1>1, <1>7, KindFacts DEF Item, Object
    <2>8. \A y \in M : y[1][1] # c
      <3>1. ASSUME NEW y \in M, y[1][1] = c PROVE FALSE
        <4>1. y[1] \in Nat \X Nat /\ y[1][2] = 16 /\ y[1] # p
          BY <1>1, <1>7, <3>1, KindFacts DEF Object
        <4>2. y[1] = p
          BY <4>1, <3>1, <1>2, <2>7
        <4>3. QED BY <4>1, <4>2
      <3>2. QED BY <3>1
    <2>9. Held(h, f, M, c)
      BY <1>2, <1>7, <2>8 DEF Held
    <2>10. State(h, f, M, Y, top)
      <3>1. c \notin X
        OBVIOUS
      <3> HIDE DEF X
      <3>2. QED BY <3>1, <1>5, <2>9, LetGo
    <2>11. c \in Y /\ Y \ {c} = {}
      OBVIOUS
    <2>12. \A i \in DOMAIN f \ Y : g.kinds[i] = h.kinds[i] /\ g.size[i] = h.size[i]
      BY <1>3, <2>5, <2>6
    <2>13. g.kinds[c] = FREE_LARGE_OBJECT /\ Spans(g, f, c) /\ g.size[c] >= 256
      BY <2>5, <2>6, <2>7 DEF Spans
    <2> HIDE DEF Y, c
    <2>14. State(g, f, M, Y \ {c}, top)
      <3>1. g.large = <<c>> \o h.large /\ g.sane
        BY <2>6, <1>3
      <3>2. QED BY <3>1, <2>6, <2>10, <2>11, <2>12, <2>13, PushLarge
    <2>15. State(g, f, M, {}, top) /\ Merged(g, f)
      BY <2>6, <2>11, <2>14 DEF Merged
    <2>16. QED BY <2>15, <1>6 DEF g, Tidy
  <1>8. CASE k # LARGE_OBJECT
    <2>1. k \in SmallKinds /\ p[2] \in Range(Slots(k)) /\ p \notin Range(h.small[k])
      BY <1>1, <1>8 DEF Object
    <2> DEFINE list == <<p>> \o h.small[k]
               small == [h.small EXCEPT ![k] = list]
    <2>2. SmallList(h, f, X, k) /\ h.small[k] \in Seq(Nat \X Nat)
      BY <1>1, <1>4, <2>1 DEF Sound
    <2>3. /\ list \in Seq(Nat \X Nat) /\ IsInjective(list)
          /\ Range(list) = {p} \cup Range(h.small[k])
      <3>1. IsInjective(h.small[k])
        BY <2>2 DEF SmallList
      <3> HIDE DEF p, k
      <3>2. QED BY <3>1, <2>1, <2>2, <1>2, Pushed
    <2>4. g = [h EXCEPT !.small[k] = <<p>> \o @]
      <3>1. Asserted(h, k \in SmallKinds) = h
        <4>1. k \in SmallKinds
          BY <2>1
        <4> HIDE DEF k
        <4>2. QED BY <4>1, <1>3, AssertedTrue
      <3>2. QED BY <3>1, <1>8 DEF Release
    <2>5. g = [h EXCEPT !.small = small]
      BY <2>4, <1>3 DEF Heaps
    <2> HIDE DEF list
    <2>6. small \in [SmallKinds -> Seq(Nat \X Nat)]
      BY <1>4, <2>1, <2>3
    <2>7. small[k] = list /\ \A j \in SmallKinds \ {k} : small[j] = h.small[j]
      BY <1>4, <2>1
    <2> HIDE DEF small, g
    <2>8. /\ g \in Heaps /\ g.kinds = h.kinds /\ g.size = h.size
          /\ g.large = h.large /\ g.small = small /\ g.sane = h.sane /\ g.compact = h.compact
      BY <2>5, <2>6, <1>3 DEF Heaps
    <2>9. ASSUME NEW j \in SmallKinds PROVE SmallList(g, f, X, j)
      <3>1. SmallList(h, f, X, j)
        BY <1>1 DEF Sound
      <3>2. CASE j # k
        BY <3>1, <3>2, <2>7, <2>8 DEF SmallList
      <3>3. CASE j = k
        <4>1. \A q \in Range(h.small[k]) :
                q[1] \in DOMAIN f \ X /\ h.kinds[q[1]] = k /\ q[2] \in Range(Slots(k))
          BY <2>2 DEF SmallList
        <4>2. c \in DOMAIN f \ X
          BY <1>2
        <4> HIDE DEF X
        <4>3. \A q \in Range(g.small[k]) :
                q[1] \in DOMAIN f \ X /\ g.kinds[q[1]] = k /\ q[2] \in Range(Slots(k))
          <5>1. Range(g.small[k]) = {p} \cup Range(h.small[k])
            BY <2>3, <2>7, <2>8
          <5>2. p[1] \in DOMAIN f \ X /\ h.kinds[p[1]] = k /\ p[2] \in Range(Slots(k))
            BY <4>2, <2>1
          <5> HIDE DEF k, c, p
          <5>3. QED BY <4>1, <5>1, <5>2, <2>8
        <4>4. QED BY <4>3, <3>3, <2>3, <2>7, <2>8 DEF SmallList
      <3>4. QED BY <3>2, <3>3
    <2>10. Sound(g, f, X)
      <3>1. \A i \in DOMAIN f \ X : Item(g, f, i)
        BY <1>1, <2>8 DEF Sound, Item, Spans
      <3>2. QED BY <1>1, <2>8, <2>9, <3>1 DEF Sound
    <2>11. ASSUME NEW y \in M PROVE Object(g, f, X, y)
      <3>1. Object(h, f, X, y) /\ y[1] # p
        BY <1>1, <1>6
      <3>2. h.kinds[y[1][1]] \in SmallKinds /\ y[1] \notin Range(h.small[h.kinds[y[1][1]]])
              => y[1] \notin Range(g.small[h.kinds[y[1][1]]])
        BY <3>1, <2>3, <2>7, <2>8
      <3>3. QED BY <3>1, <3>2, <2>8 DEF Object
    <2>12. State(g, f, M, X, top)
      BY <1>5, <2>10, <2>11 DEF State, Uses
    <2>13. State(g, f, M, {}, top) /\ Merged(g, f)
      BY <2>8, <2>12 DEF Tidy, Merged
    <2>14. QED BY <2>13, <1>6 DEF g, Tidy
  <1>9. QED
    BY <1>7, <1>8

-----------------------------------------------------------------------------
(* The calls keep the state sound.                                         *)

WallocInv == SoundArena(arena) /\ \E f : Tidy(heap, f, live, Top(arena))

LEMMA InitIsSound ==
  ASSUME Init
  PROVE  WallocInv
  <1> DEFINE f == [i \in {} |-> 0]
  <1>1. PICK b \in FirstBreak, s \in BOOLEAN :
          arena = [heap_base |-> 0, heap_end |-> 0, brk_end |-> 0, break |-> b, static |-> s]
    BY DEF Init, FreshArenas
  <1>2. /\ arena \in Arenas /\ arena.heap_base = 0 /\ arena.break \in 1 .. LastBreak
        /\ LastBreak \in Nat
    BY <1>1, PageAssumption DEF Arenas
  <1>3. SoundArena(arena) /\ Top(arena) = 0
    BY <1>2 DEF SoundArena, Unstarted, Top
  <1>4. live = {}
    BY DEF Init
  <1>5. /\ heap \in Heaps /\ heap.sane /\ heap.large = <<>>
        /\ \A k \in SmallKinds : heap.small[k] = <<>>
    BY DEF Init, Heaps
  <1>6. Range(<<>>) = {} /\ IsInjective(<<>>)
    BY DEF Range, IsInjective
  <1>7. DOMAIN f = {}
    OBVIOUS
  <1> HIDE DEF f
  <1>8. Tiling(f, 0)
    BY <1>2, <1>7 DEF Tiling
  <1>9. Sound(heap, f, {})
    BY <1>5, <1>6, <1>7 DEF Sound, SmallList
  <1>10. Uses(heap, f, live, {})
    BY <1>4 DEF Uses
  <1>11. State(heap, f, live, {}, Top(arena))
    BY <1>3, <1>8, <1>9, <1>10 DEF State
  <1>12. Tidy(heap, f, live, Top(arena))
    BY <1>5, <1>6, <1>11 DEF Tidy, Merged, Spread
  <1>13. QED
    BY <1>3, <1>12 DEF WallocInv

LEMMA MallocIsSound ==
  ASSUME WallocInv, NEW n \in Requests, Malloc(n)
  PROVE  WallocInv'
  <1>1. PICK f : Tidy(heap, f, live, Top(arena))
    BY DEF WallocInv
  <1>2. PICK r \in Allocations(heap, arena, n) :
          /\ heap' = r.heap /\ arena' = r.arena
          /\ live' = IF r.ptr = NULL THEN live ELSE live \cup {<<r.ptr, n>>}
    BY DEF Malloc
  <1>3. n \in Nat /\ SoundArena(arena)
    BY WallocAssumption DEF WallocInv
  <1>4. Outcome(r, live, n)
    BY <1>1, <1>3, AllocationsState
  <1>5. SoundArena(arena') /\ \E g : Tidy(heap', g, live', Top(arena'))
    BY <1>2, <1>4 DEF Outcome
  <1>6. WallocInv'
    BY <1>5 DEF WallocInv
  <1>7. QED
    BY <1>6

LEMMA FreeIsSound ==
  ASSUME WallocInv, NEW x \in live, Free(x)
  PROVE  WallocInv'
  <1>1. PICK f : Tidy(heap, f, live, Top(arena))
    BY DEF WallocInv
  <1>2. Tidy(Release(heap, x[1]), f, live \ {x}, Top(arena))
    BY <1>1, ReleaseState
  <1>3. heap' = Release(heap, x[1]) /\ live' = live \ {x} /\ arena' = arena
    BY DEF Free
  <1>4. SoundArena(arena') /\ Tidy(heap', f, live', Top(arena'))
    BY <1>2, <1>3 DEF WallocInv
  <1>5. QED
    BY <1>4 DEF WallocInv

\* malloc_usable_size tells what an object really has.
LEMMA UsableIsTrue ==
  ASSUME NEW h, NEW f, NEW x, Object(h, f, {}, x), h \in Heaps, DOMAIN f \subseteq Chunks
  PROVE  /\ UsableSize(h, x[1]) \in Nat /\ UsableSize(h, x[1]) >= x[2]
         /\ \A n \in Nat : n <= UsableSize(h, x[1]) => Object(h, f, {}, <<x[1], n>>)
  <1> DEFINE c == x[1][1]
             k == h.kinds[c]
  <1>1. h.size[c] \in Nat
    BY HeapParts DEF Object
  <1>2. \A n \in Nat : <<x[1], n>> \in (Nat \X Nat) \X Nat
    BY DEF Object
  <1>3. CASE k = LARGE_OBJECT
    <2>1. UsableSize(h, x[1]) = h.size[c]
      BY <1>3 DEF UsableSize
    <2>2. QED BY <2>1, <1>1, <1>2, <1>3, KindFacts DEF Object
  <1>4. CASE k \in SmallKinds
    <2>1. UsableSize(h, x[1]) = SmallSize(k)
      BY <1>4, KindFacts DEF UsableSize
    <2>2. SmallSize(k) \in Nat
      BY <1>4, SlotFacts
    <2>3. QED BY <2>1, <2>2, <1>2, <1>4, KindFacts DEF Object
  <1>5. QED
    BY <1>3, <1>4 DEF Object

LEMMA ReallocIsSound ==
  ASSUME WallocInv, NEW x \in live, NEW n \in Requests, Realloc(x, n)
  PROVE  WallocInv'
  <1>1. PICK f : Tidy(heap, f, live, Top(arena))
    BY DEF WallocInv
  <1>2. n \in Nat /\ SoundArena(arena)
    BY WallocAssumption DEF WallocInv
  <1>3. CASE UsableSize(heap, x[1]) >= n /\ UNCHANGED <<heap, arena>>
             /\ live' = (live \ {x}) \cup {<<x[1], n>>}
    <2> DEFINE M == live \ {x}
               y == <<x[1], n>>
    <2>1. Object(heap, f, {}, x) /\ heap \in Heaps /\ DOMAIN f \subseteq Chunks
      BY <1>1, ItemsAreChunks DEF Tidy, State, Uses, Sound
    <2>2. Object(heap, f, {}, y)
      BY <2>1, <1>2, <1>3, UsableIsTrue
    <2>3. State(heap, f, M, {}, Top(arena)) /\ Merged(heap, f)
      BY <1>1, Fewer DEF Tidy
    <2>4. \A z \in M : z[1] # y[1]
      BY <1>1 DEF Tidy, State, Uses
    <2> HIDE DEF M, y
    <2>5. Tidy(heap, f, M \cup {y}, Top(arena))
      BY <2>2, <2>3, <2>4, Granted DEF Tidy
    <2>6. SoundArena(arena') /\ Tidy(heap', f, live', Top(arena'))
      BY <2>5, <1>2, <1>3 DEF M, y
    <2>7. QED BY <2>6 DEF WallocInv
  <1>4. ASSUME NEW r \in Allocations(heap, arena, n), arena' = r.arena,
               \/ r.ptr = NULL /\ heap' = r.heap /\ UNCHANGED live
               \/ /\ r.ptr # NULL
                  /\ heap' = Release(r.heap, x[1])
                  /\ live' = (live \ {x}) \cup {<<r.ptr, n>>}
        PROVE  WallocInv'
    <2>1. Outcome(r, live, n)
      BY <1>1, <1>2, AllocationsState
    <2>2. CASE r.ptr = NULL
      <3>1. SoundArena(arena') /\ \E g : Tidy(heap', g, live', Top(arena'))
        BY <1>4, <2>1, <2>2 DEF Outcome
      <3>2. QED BY <3>1 DEF WallocInv
    <2>3. CASE r.ptr # NULL
      <3> DEFINE y == <<r.ptr, n>>
                 N == live \cup {y}
      <3>1. PICK g : Tidy(r.heap, g, N, Top(r.arena))
        BY <2>1, <2>3 DEF Outcome
      <3>2. x # y
        BY <2>1, <2>3 DEF Outcome
      <3>3. x \in N /\ N \ {x} = (live \ {x}) \cup {y}
        BY <3>2
      <3> HIDE DEF N
      <3>4. Tidy(Release(r.heap, x[1]), g, N \ {x}, Top(r.arena))
        BY <3>1, <3>3, ReleaseState
      <3>5. SoundArena(arena') /\ Tidy(heap', g, live', Top(arena'))
        BY <1>4, <2>1, <2>3, <3>3, <3>4 DEF Outcome
      <3>6. QED BY <3>5 DEF WallocInv
    <2>4. QED BY <2>2, <2>3
  <1>5. QED
    BY <1>3, <1>4 DEF Realloc

\* The granted memory stays tiled by items that the headers, the lists and the
\* objects in use agree on (walloc.c, all of it).
THEOREM WallocInvariant == Spec => []WallocInv
  <1>1. Init => WallocInv
    BY InitIsSound
  <1>2. WallocInv /\ [Next]_wallocVars => WallocInv'
    <2> SUFFICES ASSUME WallocInv, [Next]_wallocVars PROVE WallocInv'
      OBVIOUS
    <2>1. ASSUME NEW n \in Requests, Malloc(n) PROVE WallocInv'
      BY <2>1, MallocIsSound
    <2>2. ASSUME NEW x \in live, Free(x) PROVE WallocInv'
      BY <2>2, FreeIsSound
    <2>3. ASSUME NEW x \in live, NEW n \in Requests, Realloc(x, n) PROVE WallocInv'
      BY <2>3, ReallocIsSound
    <2>4. CASE UNCHANGED wallocVars
      <3>1. heap' = heap /\ arena' = arena /\ live' = live
        BY <2>4 DEF wallocVars
      <3>2. SoundArena(arena') /\ \E f : Tidy(heap', f, live', Top(arena'))
        BY <3>1 DEF WallocInv
      <3>3. QED BY <3>2 DEF WallocInv
    <2>5. QED BY <2>1, <2>2, <2>3, <2>4 DEF Next
  <1>3. QED
    BY <1>1, <1>2, PTL DEF Spec

-----------------------------------------------------------------------------
(* What a sound state means for the bytes of the objects.                  *)

\* The bytes b of the place p: a slot of a chunk of small objects, or the whole
\* of a large object.
Place(h, f, p, b) ==
  /\ p \in Nat \X Nat /\ p[1] \in DOMAIN f
  /\ \/ /\ h.kinds[p[1]] \in SmallKinds /\ p[2] \in Range(Slots(h.kinds[p[1]]))
        /\ b = <<256 * p[1] + p[2], 256 * p[1] + p[2] + SmallSize(h.kinds[p[1]])>>
     \/ /\ h.kinds[p[1]] \notin SmallKinds /\ p[2] = 16
        /\ b = <<256 * p[1], 256 * f[p[1]]>>

\* A place lies within its item.
LEMMA PlaceInItem ==
  ASSUME NEW h, NEW f, NEW top, Tiling(f, top), Sound(h, f, {}),
         NEW p, NEW b, Place(h, f, p, b)
  PROVE  /\ p[1] \in Nat /\ f[p[1]] \in Nat /\ b[1] \in Nat /\ b[2] \in Nat
         /\ 256 * p[1] <= b[1] /\ b[1] <= b[2] /\ b[2] <= 256 * f[p[1]]
  <1> DEFINE o == p[1]
             q == p[2]
             k == h.kinds[o]
             s == SmallSize(k)
  <1>1. o \in Nat /\ q \in Nat /\ o \in DOMAIN f
    BY DEF Place
  <1>2. f[o] \in Nat /\ o < f[o]
    BY <1>1 DEF Tiling, ItemFits
  <1>3. CASE k \in SmallKinds
    <2>1. q \in Range(Slots(k)) /\ b = <<256 * o + q, 256 * o + q + s>>
      BY <1>3 DEF Place
    <2>2. s \in Nat /\ q + s <= 256
      BY <1>3, <2>1, SlotFacts
    <2>3. f[o] = o + 1
      BY <1>1, <1>3, KindFacts DEF Sound, Item
    <2> HIDE DEF o, q, s
    <2>4. b[1] = 256 * o + q /\ b[2] = 256 * o + q + s
      BY <2>1
    <2>5. QED BY <1>1, <1>2, <2>2, <2>3, <2>4 DEF o
  <1>4. CASE k \notin SmallKinds
    <2>1. b = <<256 * o, 256 * f[o]>>
      BY <1>4 DEF Place
    <2> HIDE DEF o
    <2>2. b[1] = 256 * o /\ b[2] = 256 * f[o]
      BY <2>1
    <2>3. QED BY <1>1, <1>2, <2>2 DEF o
  <1>5. QED
    BY <1>3, <1>4

\* Different places are apart.
LEMMA PlacesApart ==
  ASSUME NEW h, NEW f, NEW top, Tiling(f, top), Sound(h, f, {}),
         NEW p, NEW b, Place(h, f, p, b), NEW q, NEW c, Place(h, f, q, c), p # q
  PROVE  Apart(b, c)
  <1>1. /\ p[1] \in Nat /\ f[p[1]] \in Nat /\ b[1] \in Nat /\ b[2] \in Nat
        /\ 256 * p[1] <= b[1] /\ b[1] <= b[2] /\ b[2] <= 256 * f[p[1]]
    BY PlaceInItem
  <1>2. /\ q[1] \in Nat /\ f[q[1]] \in Nat /\ c[1] \in Nat /\ c[2] \in Nat
        /\ 256 * q[1] <= c[1] /\ c[1] <= c[2] /\ c[2] <= 256 * f[q[1]]
    BY PlaceInItem
  <1>3. /\ p \in Nat \X Nat /\ q \in Nat \X Nat
        /\ p[1] \in DOMAIN f /\ q[1] \in DOMAIN f
    BY DEF Place
  <1>4. CASE p[1] # q[1]
    <2>1. f[p[1]] <= q[1] \/ f[q[1]] <= p[1]
      BY <1>3, <1>4 DEF Tiling, ItemsApart
    <2>2. b[2] <= c[1] \/ c[2] <= b[1]
      BY <1>1, <1>2, <2>1
    <2>3. QED BY <2>2 DEF Apart
  <1>5. CASE p[1] = q[1]
    <2> DEFINE k == h.kinds[p[1]]
               s == SmallSize(k)
    <2>1. p[2] # q[2]
      BY <1>3, <1>5
    <2>2. k \in SmallKinds
      BY <1>5, <2>1 DEF Place
    <2>3. /\ p[2] \in Range(Slots(k)) /\ q[2] \in Range(Slots(k))
          /\ b = <<256 * p[1] + p[2], 256 * p[1] + p[2] + s>>
          /\ c = <<256 * p[1] + q[2], 256 * p[1] + q[2] + s>>
      BY <1>5, <2>2 DEF Place
    <2>4. s \in Nat /\ (p[2] + s <= q[2] \/ q[2] + s <= p[2])
      BY <2>1, <2>2, <2>3, SlotFacts
    <2> HIDE DEF s
    <2>5. /\ b[1] = 256 * p[1] + p[2] /\ b[2] = 256 * p[1] + p[2] + s
          /\ c[1] = 256 * p[1] + q[2] /\ c[2] = 256 * p[1] + q[2] + s
      BY <2>3
    <2>6. b[2] <= c[1] \/ c[2] <= b[1]
      BY <2>4, <2>5, <1>1, <1>3
    <2>7. QED BY <2>6 DEF Apart
  <1>6. QED
    BY <1>4, <1>5

\* The bytes of a live object are its place.
LEMMA LiveObjectPlace ==
  ASSUME NEW f, State(heap, f, live, {}, Top(arena)), NEW x \in live
  PROVE  Place(heap, f, x[1], Bytes(x[1]))
  <1> DEFINE p == x[1]
             o == p[1]
             k == heap.kinds[o]
             first == o * CHUNK_SIZE + p[2]
             back == IF k = LARGE_OBJECT THEN LARGE_OBJECT_HEADER_SIZE ELSE 0
  <1>1. /\ Tiling(f, Top(arena)) /\ Sound(heap, f, {})
        /\ Object(heap, f, {}, x) /\ heap \in Heaps
    BY DEF State, Uses, Sound
  <1>2. p \in Nat \X Nat /\ o \in DOMAIN f /\ o \in Nat /\ p[2] \in Nat
    BY <1>1 DEF Object
  <1>3. Bytes(p) = <<first - back, first + UsableSize(heap, p)>>
    BY DEF Bytes
  <1>4. first = 256 * o + p[2]
    <2>1. CHUNK_SIZE = 256
      BY DEF CHUNK_SIZE
    <2> HIDE DEF o
    <2>2. QED BY <1>2, <2>1
  <1>5. CASE k = LARGE_OBJECT
    <2>1. p[2] = 16 /\ back = 16 /\ UsableSize(heap, p) = heap.size[o]
      BY <1>1, <1>5, KindFacts DEF Object, UsableSize, LARGE_OBJECT_HEADER_SIZE
    <2>2. Spans(heap, f, o)
      BY <1>1, <1>2, <1>5, KindFacts DEF Sound, Item
    <2>3. heap.size[o] \in Nat /\ f[o] \in Nat /\ EndOf(heap, o) = f[o]
      BY <1>1, <1>2, <2>2, EndOfItem
    <2> HIDE DEF first, back, o
    <2>4. first - back = 256 * o /\ first + heap.size[o] = 256 * f[o]
      BY <1>2, <1>4, <2>1, <2>2, <2>3 DEF Spans
    <2>5. Bytes(p) = <<256 * o, 256 * f[o]>>
      BY <1>3, <2>1, <2>4
    <2>6. k \notin SmallKinds
      BY <1>5, KindFacts
    <2>7. QED BY <1>2, <2>1, <2>5, <2>6 DEF Place, o
  <1>6. CASE k # LARGE_OBJECT
    <2>1. k \in SmallKinds /\ p[2] \in Range(Slots(k))
      BY <1>1, <1>6 DEF Object
    <2>2. UsableSize(heap, p) = SmallSize(k) /\ back = 0
      BY <2>1, <1>6 DEF UsableSize
    <2> HIDE DEF first, back, o
    <2>3. first - back = 256 * o + p[2]
      BY <1>2, <1>4, <2>2
    <2>4. Bytes(p) = <<256 * o + p[2], 256 * o + p[2] + SmallSize(k)>>
      BY <1>3, <1>4, <2>2, <2>3
    <2>5. QED BY <1>2, <2>1, <2>4 DEF Place, o
  <1>7. QED
    BY <1>5, <1>6

\* The free bytes are places that no object has.
LEMMA FreePlace ==
  ASSUME NEW f, State(heap, f, live, {}, Top(arena)), NEW b \in FreeBytes
  PROVE  \E p : Place(heap, f, p, b) /\ \A x \in live : x[1] # p
  <1>1. /\ Tiling(f, Top(arena)) /\ Sound(heap, f, {}) /\ Uses(heap, f, live, {})
        /\ heap \in Heaps
    BY DEF State, Sound
  <1>2. CHUNK_SIZE = 256
    BY DEF CHUNK_SIZE
  <1>3. CASE b \in {<<o * CHUNK_SIZE, EndOf(heap, o) * CHUNK_SIZE>> : o \in Range(heap.large)}
    <2>1. PICK o \in Range(heap.large) : b = <<o * CHUNK_SIZE, EndOf(heap, o) * CHUNK_SIZE>>
      BY <1>3
    <2>2. o \in DOMAIN f /\ heap.kinds[o] = FREE_LARGE_OBJECT /\ Spans(heap, f, o)
      BY <1>1, KindFacts DEF Sound, Item
    <2>3. EndOf(heap, o) = f[o] /\ o \in Nat /\ f[o] \in Nat
      BY <1>1, <2>2, EndOfItem
    <2>4. b = <<256 * o, 256 * f[o]>>
      BY <2>1, <2>3, <1>2
    <2> DEFINE p == <<o, 16>>
    <2>5. p \in Nat \X Nat /\ p[1] = o /\ p[2] = 16
      BY <2>3
    <2> HIDE DEF p
    <2>6. Place(heap, f, p, b)
      BY <2>2, <2>4, <2>5, KindFacts DEF Place
    <2>7. \A x \in live : x[1] # p
      BY <1>1, <2>2, <2>5, KindFacts DEF Uses, Object
    <2>8. QED BY <2>6, <2>7
  <1>4. CASE \E k \in SmallKinds :
               b \in {<<p[1] * CHUNK_SIZE + p[2], p[1] * CHUNK_SIZE + p[2] + SmallSize(k)>> :
                        p \in Range(heap.small[k])}
    <2>1. PICK k \in SmallKinds :
            b \in {<<p[1] * CHUNK_SIZE + p[2], p[1] * CHUNK_SIZE + p[2] + SmallSize(k)>> :
                     p \in Range(heap.small[k])}
      BY <1>4
    <2>2. PICK p \in Range(heap.small[k]) :
            b = <<p[1] * CHUNK_SIZE + p[2], p[1] * CHUNK_SIZE + p[2] + SmallSize(k)>>
      BY <2>1
    <2>3. p[1] \in DOMAIN f /\ heap.kinds[p[1]] = k /\ p[2] \in Range(Slots(k))
      BY <1>1 DEF Sound, SmallList
    <2>4. p \in Nat \X Nat
      <3>1. heap.small[k] \in Seq(Nat \X Nat)
        BY <1>1, HeapParts
      <3>2. QED BY <3>1, EntryInRange
    <2>5. p[1] * CHUNK_SIZE = 256 * p[1]
      BY <2>4, <1>2
    <2>6. Place(heap, f, p, b)
      BY <2>2, <2>3, <2>4, <2>5 DEF Place
    <2>7. \A x \in live : x[1] # p
      BY <1>1, <2>3, KindFacts DEF Uses, Object
    <2>8. QED BY <2>6, <2>7
  <1>5. QED
    BY <1>3, <1>4 DEF FreeBytes

\* No item covers the header of a page that another starts in.
LEMMA HeaderApart ==
  ASSUME NEW h, NEW f, NEW top, Tiling(f, top), Sound(h, f, {}),
         NEW p, NEW b, Place(h, f, p, b), NEW j \in DOMAIN f
  PROVE  Apart(b, HeaderBytes(j))
  <1> DEFINE i == p[1]
             s == PageStart(j)
  <1>1. /\ i \in Nat /\ f[i] \in Nat /\ b[1] \in Nat /\ b[2] \in Nat
        /\ 256 * i <= b[1] /\ b[2] <= 256 * f[i] /\ i \in DOMAIN f
    BY PlaceInItem DEF Place
  <1>2. s < i \/ f[i] <= s
    BY <1>1 DEF Tiling, ItemsApart
  <1>3. j \in Nat /\ s \in Nat /\ PageOf(j) \in Nat
    BY ItemsAreChunks, PageFacts
  <1>4. PageOf(j) * PAGE_SIZE = 256 * s
    <2>1. PAGE_SIZE = 256 * PageUnits /\ PageUnits \in Nat
      BY PageSize, PageAssumption
    <2>2. PageOf(j) * (256 * PageUnits) = 256 * (PageOf(j) * PageUnits)
      BY <1>3, <2>1
    <2>3. QED BY <2>1, <2>2 DEF PageStart
  <1>5. HeaderBytes(j) = <<256 * s, 256 * s + 256>>
    BY <1>4 DEF HeaderBytes, CHUNK_SIZE
  <1> DEFINE c == HeaderBytes(j)
  <1> HIDE DEF i, s, c
  <1>6. c[1] = 256 * s /\ c[2] = 256 * s + 256
    BY <1>5 DEF c
  <1>7. b[2] <= c[1] \/ c[2] <= b[1]
    BY <1>1, <1>2, <1>3, <1>6
  <1>8. QED
    BY <1>7 DEF Apart, c

LEMMA TopBelowBreak ==
  ASSUME NEW a, SoundArena(a)
  PROVE  Top(a) \in Nat /\ a.break \in Nat /\ Top(a) <= a.break
  <1>1. a \in Arenas /\ Top(a) \in Nat
    BY StartedIsSound DEF SoundArena, Unstarted, ArenaInv
  <1>2. a.break \in Nat /\ a.heap_end \in Nat
    BY <1>1 DEF Arenas
  <1>3. QED
    BY <1>1, <1>2 DEF Top

\* Live objects share no byte with each other, with free memory or with the
\* headers of the pages they start in, and lie in mapped memory: malloc, free
\* and realloc never hand out or take back bytes in use (walloc.c).
THEOREM LiveObjectsApart == Spec => []ObjectsApart
  <1>1. WallocInv => ObjectsApart
    <2> SUFFICES ASSUME WallocInv PROVE ObjectsApart
      OBVIOUS
    <2> DEFINE top == Top(arena)
    <2>1. PICK f : State(heap, f, live, {}, top)
      BY DEF WallocInv, Tidy
    <2>2. Tiling(f, top) /\ Sound(heap, f, {}) /\ Uses(heap, f, live, {})
      BY <2>1 DEF State
    <2>3. \A x \in live : Place(heap, f, x[1], Bytes(x[1])) /\ x[1][1] \in DOMAIN f
      BY <2>1, LiveObjectPlace DEF Place
    <2>4. top \in Nat /\ arena.break \in Nat /\ top <= arena.break
      BY TopBelowBreak DEF WallocInv
    <2> HIDE DEF top
    <2>5. ASSUME NEW x \in live, NEW y \in live, x # y
          PROVE  Apart(Bytes(x[1]), Bytes(y[1]))
      <3>1. x[1] # y[1]
        BY <2>2, <2>5 DEF Uses
      <3>2. QED BY <2>2, <2>3, <3>1, PlacesApart
    <2>6. ASSUME NEW x \in live, NEW b \in FreeBytes PROVE Apart(Bytes(x[1]), b)
      <3>1. PICK p : Place(heap, f, p, b) /\ \A z \in live : z[1] # p
        BY <2>1, FreePlace DEF top
      <3>2. QED BY <2>2, <2>3, <3>1, PlacesApart
    <2>7. ASSUME NEW x \in live, NEW y \in live
          PROVE  Apart(Bytes(x[1]), HeaderBytes(y[1][1]))
      BY <2>2, <2>3, HeaderApart
    <2>8. ASSUME NEW x \in live PROVE Bytes(x[1])[2] <= arena.break * CHUNK_SIZE
      <3> DEFINE b == Bytes(x[1])
                 e == f[x[1][1]]
      <3>1. e \in Nat /\ b[2] \in Nat /\ b[2] <= 256 * e
        BY <2>2, <2>3, PlaceInItem
      <3>2. e <= top
        BY <2>2, <2>3 DEF Tiling, ItemFits
      <3> HIDE DEF b, e
      <3>3. b[2] <= arena.break * 256
        BY <3>1, <3>2, <2>4
      <3>4. QED BY <3>3 DEF b, CHUNK_SIZE
    <2>9. QED BY <2>5, <2>6, <2>7, <2>8 DEF ObjectsApart
  <1>2. QED
    BY <1>1, WallocInvariant, PTL

\* No memory is free twice, and the lists agree with the headers: what free, the
\* splits and the compaction put into the lists is sound (walloc.c).
THEOREM ListsAreSound == Spec => []FreeListsSound
  <1>1. WallocInv => FreeListsSound
    <2> SUFFICES ASSUME WallocInv PROVE FreeListsSound
      OBVIOUS
    <2>1. PICK f : State(heap, f, live, {}, Top(arena))
      BY DEF WallocInv, Tidy
    <2>2. Tiling(f, Top(arena)) /\ Sound(heap, f, {})
      BY <2>1 DEF State
    <2>3. ASSUME NEW b \in FreeBytes, NEW c \in FreeBytes, b # c PROVE Apart(b, c)
      <3>1. PICK p : Place(heap, f, p, b)
        BY <2>1, FreePlace
      <3>2. PICK q : Place(heap, f, q, c)
        BY <2>1, FreePlace
      <3>3. p # q
        BY <3>1, <3>2, <2>3 DEF Place
      <3>4. QED BY <2>2, <3>1, <3>2, <3>3, PlacesApart
    <2>4. \A o \in Range(heap.large) :
            heap.kinds[o] = FREE_LARGE_OBJECT /\ heap.size[o] >= CHUNK_SIZE
      BY <2>2, KindFacts DEF Sound, Item, CHUNK_SIZE
    <2>5. \A k \in SmallKinds :
            /\ IsInjective(heap.small[k])
            /\ \A p \in Range(heap.small[k]) : heap.kinds[p[1]] = k
      BY <2>2 DEF Sound, SmallList
    <2>6. IsInjective(heap.large)
      BY <2>2 DEF Sound
    <2>7. QED BY <2>3, <2>4, <2>5, <2>6 DEF FreeListsSound
  <1>2. QED
    BY <1>1, WallocInvariant, PTL

\* malloc_usable_size reads at least the size asked for, for as long as the object
\* is in use, whatever the owners of the others write and release.
THEOREM ObjectsBigEnough == Spec => []BigEnough
  <1>1. WallocInv => BigEnough
    <2> SUFFICES ASSUME WallocInv, NEW x \in live PROVE UsableSize(heap, x[1]) >= x[2]
      BY DEF BigEnough
    <2>1. PICK f : State(heap, f, live, {}, Top(arena))
      BY DEF WallocInv, Tidy
    <2>2. Object(heap, f, {}, x) /\ heap \in Heaps /\ DOMAIN f \subseteq Chunks
      BY <2>1, ItemsAreChunks DEF State, Uses, Sound
    <2>3. QED BY <2>2, UsableIsTrue
  <1>2. QED
    BY <1>1, WallocInvariant, PTL

\* No ASSERT of walloc.c fails but the one at line 300: objects end where chunks do,
\* and where pages do if they are split over pages (213, 318, 322, 343, 364, 371);
\* an object to absorb is in the list (228), a split leaves enough (336), the heap
\* grows by whole pages (170, 179, 180), and every small object has a list (404).
THEOREM AssertsAlwaysHold == Spec => []AssertsHold
  <1>1. WallocInv => AssertsHold
    BY DEF WallocInv, Tidy, State, Sound, AssertsHold
  <1>2. QED
    BY <1>1, WallocInvariant, PTL

\* Once compaction is done, no free large object is beside another in its page,
\* until the next is freed: the turns of maybe_compact_free_large_objects are enough
\* to merge every run of free objects, in whichever order the list has them, and
\* splitting and growing the heap leave no new one (walloc.c:205-252).
THEOREM FreeObjectsStayMerged == Spec => []FreeObjectsMerged
  <1>1. WallocInv => FreeObjectsMerged
    <2> SUFFICES ASSUME WallocInv, ~heap.compact,
                        NEW o \in Range(heap.large), NEW e \in Range(heap.large),
                        e = EndOf(heap, o)
                 PROVE  Index(e) = 0
      BY DEF FreeObjectsMerged
    <2>1. PICK f : State(heap, f, live, {}, Top(arena)) /\ Merged(heap, f)
      BY DEF WallocInv, Tidy
    <2>2. Tiling(f, Top(arena)) /\ Sound(heap, f, {})
      BY <2>1 DEF State
    <2>3. o \in DOMAIN f /\ Spans(heap, f, o) /\ heap \in Heaps
      BY <2>2, KindFacts DEF Sound, Item
    <2>4. e = f[o]
      BY <2>2, <2>3, EndOfItem
    <2>5. QED BY <2>1, <2>4 DEF Merged, Spread
  <1>2. QED
    BY <1>1, WallocInvariant, PTL
=============================================================================
