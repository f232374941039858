----------------------------- MODULE Arena -------------------------------
(***************************************************************************)
(* __page_alloc (libc/arch/x86_64-linux.c): the heap grows with brk, in    *)
(* pages aligned to their size.  What a call returns and leaves behind is a *)
(* function of the static variables it finds, so it can be a part of the   *)
(* steps of its callers.  Addresses are counted in units of which          *)
(* PageUnits make a page; 0 is NULL.                                       *)
(***************************************************************************)
EXTENDS Integers

CONSTANTS
  PageUnits,     \* page_size
  FirstBreak,    \* where the kernel may have put the break of the process
  LastBreak      \* the highest break the kernel grants, or the static heap's end

ASSUME PageAssumption ==
  /\ PageUnits \in Nat \ {0}
  /\ LastBreak \in Nat
  /\ FirstBreak \subseteq 1 .. LastBreak

\* The static variables of the file, the break that brk keeps, and which brk was
\* compiled: the kernel's, or the one of a static heap.
FreshArenas ==
  {[heap_base |-> 0, heap_end |-> 0, brk_end |-> 0, break |-> b, static |-> s] :
     b \in FirstBreak, s \in BOOLEAN}

AlignUp(x, a) == ((x + a - 1) \div a) * a

\* brk returns the break in force afterwards.  SYS_brk leaves the old one when it
\* refuses (willing = FALSE, or beyond what it can ever grant); the static heap
\* moves its own up to its end.
Brk(a, addr, willing) ==
  IF addr <= LastBreak /\ (willing \/ a.static) THEN addr
  ELSE IF a.static THEN LastBreak
  ELSE a.break

\* The first call asks for the break.
Started(a) ==
  IF a.heap_base # 0 THEN a
  ELSE [a EXCEPT !.heap_base = a.break, !.heap_end = a.break, !.brk_end = a.break]

\* Faulty: takes what the kernel refused for granted.
UncheckedAlloc(old, n, willing) ==
  LET a     == Started(old)
      ptr   == AlignUp(a.heap_end, PageUnits)
      end   == ptr + PageUnits * n
      brk   == IF end > a.brk_end THEN Brk(a, end, willing) ELSE a.break
  IN [ptr   |-> ptr,
      arena |-> [a EXCEPT !.heap_end = end, !.brk_end = end, !.break = brk]]

\* Faulty: moves heap_end one page short.
ShortAlloc(old, n, willing) ==
  LET a     == Started(old)
      ptr   == AlignUp(a.heap_end, PageUnits)
      end   == ptr + PageUnits * n
      grows == end > a.brk_end
      brk   == IF grows THEN Brk(a, end, willing) ELSE a.break
  IN [ptr   |-> IF grows /\ brk < end THEN 0 ELSE ptr,
      arena |-> [a EXCEPT !.heap_end = end - PageUnits, !.break = brk,
                          !.brk_end = IF grows THEN brk ELSE @]]

\* What __page_alloc(_, n) returns and leaves behind.  heap_end moves before
\* the kernel is asked, and stays when it refuses.
GetPages(old, n, willing) ==
  LET a     == Started(old)
      ptr   == AlignUp(a.heap_end, PageUnits)
      end   == ptr + PageUnits * n
      grows == end > a.brk_end
      brk   == IF grows THEN Brk(a, end, willing) ELSE a.break
  IN [ptr   |-> IF grows /\ brk < end THEN 0 ELSE ptr,
      arena |-> [a EXCEPT !.heap_end = end, !.break = brk,
                          !.brk_end = IF grows THEN brk ELSE @]]
=============================================================================
