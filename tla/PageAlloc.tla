----------------------------- MODULE PageAlloc -----------------------------
(***************************************************************************)
(* __page_alloc and its caller, which asks for one run of pages after      *)
(* another (walloc.c holds its mutex around every call) and never returns  *)
(* them.                                                                   *)
(***************************************************************************)
EXTENDS Arena

CONSTANT MaxPages    \* bound on the size of a request

ASSUME RequestAssumption == MaxPages \in Nat

VARIABLES
  arena,
  granted     \* history: the regions handed out, <<first unit, pages>>

pageVars == <<arena, granted>>

PagesInit == arena \in FreshArenas /\ granted = {}

Request(n, willing) ==
  LET r == GetPages(arena, n, willing)
  IN /\ arena' = r.arena
     /\ granted' = IF r.ptr = 0 THEN granted ELSE granted \cup {<<r.ptr, n>>}

\* Requests go on until heap_end has passed the last break (a bound).
PagesNext ==
  \E n \in 1 .. MaxPages, willing \in BOOLEAN :
    /\ arena.heap_end <= LastBreak
    /\ Request(n, willing)

PagesSpec == PagesInit /\ [][PagesNext]_pageVars

Units(g) == g[1] .. g[1] + PageUnits * g[2] - 1

\* No two requests are given the same memory, also after requests that the
\* kernel refused and that left heap_end beyond the break.
GrantsDisjoint == \A g, h \in granted : g # h => Units(g) \cap Units(h) = {}

\* What is handed out is aligned and mapped: it lies between where the break
\* was at first and where the kernel says it is now.
GrantsUsable == \A g \in granted :
  /\ g[1] % PageUnits = 0
  /\ Units(g) \subseteq arena.heap_base .. arena.break - 1
=============================================================================
