------------------------------ MODULE MCWalloc ------------------------------
(***************************************************************************)
(* Small instances of Walloc for TLC.  All sizes mixed make too many heaps:*)
(* a behaviour keeps to the sizes of one menu, and to its brk and the break*)
(* it starts from, which is in the middle of a page and leaves room for    *)
(* two pages or three.                                                     *)
(* Seven chunks make a page, so that three free large objects may be       *)
(* neighbours in it.  Of the sizes, 100 is a small object, 250 takes a     *)
(* whole chunk, 260 two, 1290 and 1508 fit in a page of 1792 bytes (1508   *)
(* just so) and 1568 does not.                                             *)
(***************************************************************************)
EXTENDS Walloc

VARIABLE menu

Breaks == {2, 9}

Menus ==
  {[break |-> 9, static |-> FALSE, sizes |-> {100, 260, 1568}],
   [break |-> 9, static |-> TRUE,  sizes |-> {250, 260, 1568}],
   [break |-> 9, static |-> FALSE, sizes |-> {260, 1290, 1508, 1568}],
   [break |-> 2, static |-> FALSE, sizes |-> {260, 1290, 1568}]}

MCInit ==
  /\ Init
  /\ menu \in Menus
  /\ arena.break = menu.break /\ arena.static = menu.static

MCNext ==
  \/ \E n \in menu.sizes : Cardinality(live) < MaxLive /\ Malloc(n) /\ UNCHANGED menu
  \/ \E x \in live : Free(x) /\ UNCHANGED menu
  \/ \E x \in live, n \in menu.sizes : Realloc(x, n) /\ UNCHANGED menu

MCSpec == MCInit /\ [][MCNext]_<<wallocVars, menu>>
=============================================================================
