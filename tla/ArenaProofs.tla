---------------------------- MODULE ArenaProofs ----------------------------
(***************************************************************************)
(* Proofs about __page_alloc itself, for pages of any size and any breaks: *)
(* what one call does to sound variables.  Its callers' proofs use them.   *)
(***************************************************************************)
EXTENDS Arena, TLAPS

Arenas ==
  [heap_base : Nat, heap_end : Nat, brk_end : Nat, break : Nat, static : BOOLEAN]

\* The variables of the allocator, once it has started: brk_end is what the
\* kernel last answered.
ArenaInv(a) ==
  /\ a \in Arenas
  /\ a.heap_base # 0
  /\ a.heap_base <= a.heap_end
  /\ a.heap_base <= a.break
  /\ a.break <= LastBreak
  /\ a.brk_end = a.break

\* Before the first call only the break is set.
Unstarted(a) ==
  /\ a \in Arenas
  /\ a.heap_base = 0
  /\ a.break \in 1 .. LastBreak

\* What is granted lies below both heap_end and the break: a request that is
\* refused moves only heap_end.
Top(a) ==
  IF a.heap_base = 0 THEN 0
  ELSE IF a.heap_end <= a.break THEN a.heap_end ELSE a.break

-----------------------------------------------------------------------------
\* Aligning up moves up, by less than the alignment, and to a multiple.
LEMMA AlignUpBounds ==
  ASSUME NEW x \in Nat, NEW a \in Nat \ {0}
  PROVE  /\ AlignUp(x, a) \in Nat
         /\ AlignUp(x, a) >= x /\ AlignUp(x, a) < x + a
         /\ AlignUp(x, a) % a = 0
  <1> DEFINE q == (x + a - 1) \div a
  <1>1. q \in Nat
    OBVIOUS
  <1>2. x + a - 1 = a * q + ((x + a - 1) % a) /\ (x + a - 1) % a < a
    OBVIOUS
  <1>3. q * a \in Nat /\ q * a >= x /\ q * a < x + a
    BY <1>1, <1>2
  <1>4. (q * a) % a = 0
    BY <1>1
  <1>5. QED
    BY <1>3, <1>4 DEF AlignUp

\* The first call's question to the kernel makes the variables sound.
LEMMA StartedIsSound ==
  ASSUME NEW a, Unstarted(a) \/ ArenaInv(a)
  PROVE  /\ ArenaInv(Started(a))
         /\ Top(a) <= Started(a).heap_end /\ Top(a) <= Started(a).break
         /\ Top(a) \in Nat /\ Top(a) <= LastBreak
  <1>1. LastBreak \in Nat
    BY PageAssumption
  <1>2. CASE Unstarted(a)
    <2> DEFINE s == [a EXCEPT !.heap_base = a.break, !.heap_end = a.break,
                              !.brk_end = a.break]
    <2>1. a \in Arenas /\ a.heap_base = 0 /\ a.break \in 1 .. LastBreak
      BY <1>2 DEF Unstarted
    <2>2. a.break \in Nat /\ a.break # 0 /\ a.break <= LastBreak
      BY <2>1, <1>1
    <2>3. /\ s \in Arenas
          /\ s.heap_base = a.break /\ s.heap_end = a.break /\ s.brk_end = a.break
          /\ s.break = a.break
      BY <2>1, <2>2 DEF Arenas
    <2>4. Started(a) = s
      BY <2>1 DEF Started
    <2> HIDE DEF s
    <2>5. ArenaInv(Started(a)) /\ Started(a).heap_end = a.break /\ Started(a).break = a.break
      BY <2>2, <2>3, <2>4 DEF ArenaInv
    <2>6. Top(a) = 0
      BY <2>1 DEF Top
    <2>7. QED
      BY <1>1, <2>2, <2>5, <2>6
  <1>3. CASE ArenaInv(a)
    BY <1>1, <1>3 DEF Started, ArenaInv, Arenas, Top
  <1>4. QED
    BY <1>2, <1>3

\* What one call does to sound variables: it returns NULL or an aligned run
\* of n pages above the old heap_end and below the new break; heap_end and
\* the break only move up.
LEMMA GetPagesIsSound ==
  ASSUME NEW old \in Arenas, NEW n \in Nat, NEW willing \in BOOLEAN,
         ArenaInv(Started(old))
  PROVE  LET s == Started(old)
             r == GetPages(old, n, willing)
         IN /\ ArenaInv(r.arena)
            /\ r.arena.heap_base = s.heap_base
            /\ r.arena.heap_end >= s.heap_end
            /\ r.arena.break >= s.break
            /\ r.ptr \in Nat
            /\ r.ptr # 0 => /\ r.ptr >= s.heap_end
                            /\ r.ptr % PageUnits = 0
                            /\ r.ptr + PageUnits * n <= r.arena.heap_end
                            /\ r.ptr + PageUnits * n <= r.arena.break
  <1> DEFINE s == Started(old)
             p == AlignUp(s.heap_end, PageUnits)
             d == PageUnits * n
             end == p + d
             grows == end > s.brk_end
             brk == IF grows THEN Brk(s, end, willing) ELSE s.break
             r == GetPages(old, n, willing)
             after == [s EXCEPT !.heap_end = end, !.break = brk,
                                !.brk_end = IF grows THEN brk ELSE @]
  <1>1. s \in Arenas /\ s.heap_base # 0 /\ s.heap_base <= s.heap_end
        /\ s.heap_base <= s.break /\ s.brk_end = s.break /\ s.break <= LastBreak
    BY DEF ArenaInv
  <1>2. s.heap_end \in Nat /\ s.break \in Nat /\ s.heap_base \in Nat
    BY <1>1 DEF Arenas
  <1>3. PageUnits \in Nat \ {0} /\ LastBreak \in Nat
    BY PageAssumption
  <1>4. p \in Nat /\ p >= s.heap_end /\ p % PageUnits = 0
    BY <1>2, <1>3, AlignUpBounds
  <1>5. d \in Nat
    BY <1>3
  <1>6. r = [ptr |-> IF grows /\ brk < end THEN 0 ELSE p, arena |-> after]
    BY DEF GetPages
  <1> HIDE DEF s, p, d, r
  <1>7. brk \in Nat /\ brk >= s.break /\ brk <= LastBreak /\ (~grows => end <= brk)
    BY <1>1, <1>2, <1>3, <1>4, <1>5 DEF Brk
  <1> HIDE DEF brk
  <1>8. /\ after \in Arenas
        /\ after.heap_base = s.heap_base
        /\ after.heap_end = end
        /\ after.break = brk
        /\ after.brk_end = brk
    <2>1. (IF grows THEN brk ELSE s.brk_end) = brk
      BY <1>1 DEF brk
    <2>2. after = [s EXCEPT !.heap_end = end, !.break = brk, !.brk_end = brk]
      BY <2>1
    <2>3. end \in Nat
      BY <1>4, <1>5
    <2> HIDE DEF after, end, grows
    <2>4. QED BY <2>2, <2>3, <1>1, <1>7 DEF Arenas
  <1> HIDE DEF after
  <1>9. ArenaInv(after)
    BY <1>1, <1>2, <1>4, <1>5, <1>7, <1>8 DEF ArenaInv
  <1>10. r.ptr = (IF grows /\ brk < end THEN 0 ELSE p) /\ r.arena = after
    BY <1>6
  <1>11. /\ ArenaInv(r.arena)
         /\ r.arena.heap_base = s.heap_base
         /\ r.arena.heap_end >= s.heap_end
         /\ r.arena.break >= s.break
         /\ r.ptr \in Nat
         /\ r.ptr # 0 => /\ r.ptr >= s.heap_end
                         /\ r.ptr % PageUnits = 0
                         /\ r.ptr + d <= r.arena.heap_end
                         /\ r.ptr + d <= r.arena.break
    BY <1>2, <1>4, <1>5, <1>7, <1>8, <1>9, <1>10
  <1>12. QED
    BY <1>11 DEF s, r, d
=============================================================================
