------------------------------- MODULE Walloc -------------------------------
(***************************************************************************)
(* malloc, free, realloc and calloc (libc/src/walloc.c, stdlib.c) on the   *)
(* pages of __page_alloc (module Arena).                                   *)
(*                                                                         *)
(* Memory is counted in chunks of 256 bytes, PageUnits of them to a page;  *)
(* the first chunk of a page is its header, which holds the kind of every  *)
(* chunk of the page.  A pointer is <<chunk, byte offset in it>>.  Every   *)
(* function holds walloc_mutex from beginning to end (free and malloc may  *)
(* run inside realloc, one after the other), so a call is one step.        *)
(*                                                                         *)
(* The whole of the allocator's state is the record heap:                  *)
(*                                                                         *)
(*   kinds    chunk_kinds of the pages' headers, by chunk                  *)
(*   size     the size field of the large object that starts at a chunk    *)
(*   large    the list large_objects, as the chunks the objects start at   *)
(*   small    small_object_freelists, as the pointers in each              *)
(*   compact  pending_large_object_compact                                 *)
(*   pages    walloc_heap_size, in pages                                   *)
(*   fits     has the ASSERT that fresh pages have room for the object and *)
(*            its header held?                                             *)
(*   sane     has every other ASSERT held?                                 *)
(*                                                                         *)
(* A failed ASSERT traps, unless NDEBUG is defined, as the release builds  *)
(* of CMake do: then the code goes on, and so does the model.              *)
(***************************************************************************)
EXTENDS Arena, SequencesExt

CONSTANTS
  Requests,    \* the sizes callers ask for
  MaxLive,     \* bound on the number of live objects
  LastEnd      \* bound on heap_end, which refused requests move too

ASSUME WallocAssumption ==
  /\ PageUnits > 2
  /\ Requests \subseteq Nat
  /\ MaxLive \in Nat /\ LastEnd \in Nat

VARIABLES
  heap, arena,
  live     \* history: the objects in use, <<pointer, size asked for>>

wallocVars == <<heap, arena, live>>

CHUNK_SIZE == 256
LARGE_OBJECT_HEADER_SIZE == 16
GRANULE_SIZE == 8
PAGE_SIZE == PageUnits * CHUNK_SIZE

small_object_granule_sizes == <<1, 2, 3, 4, 5, 6, 8, 10, 16, 32>>
FREE_LARGE_OBJECT == 254
LARGE_OBJECT == 255
GRANULES_32 == 10
SmallKinds == 1 .. 10
NULL == <<0, 0>>

Chunks == 0 .. LastBreak - 1
PageOf(c) == c \div PageUnits
Index(c) == c % PageUnits

\* The bytes of an object of a small kind, and where they start in a chunk.
SmallSize(k) == small_object_granule_sizes[k] * GRANULE_SIZE
Slots(k) == LET n == CHUNK_SIZE \div SmallSize(k)
            IN [i \in 1 .. n |-> CHUNK_SIZE - (n + 1 - i) * SmallSize(k)]

\* Faulty: a size that is a multiple of the granule gets one granule less.
KindForTruncated(n) ==
  LET fits == {k \in SmallKinds : small_object_granule_sizes[k] >= n \div GRANULE_SIZE}
  IN IF fits = {} THEN LARGE_OBJECT ELSE CHOOSE k \in fits : \A j \in fits : k <= j

\* granules_to_chunk_kind(size_to_granules(n)): the first kind that fits.
KindFor(n) ==
  LET fits == {k \in SmallKinds : SmallSize(k) >= n}
  IN IF fits = {} THEN LARGE_OBJECT ELSE CHOOSE k \in fits : \A j \in fits : k <= j

\* The chunk after a large object.
EndOf(h, o) == o + (LARGE_OBJECT_HEADER_SIZE + h.size[o]) \div CHUNK_SIZE

\* allocate_chunk
Mark(h, c, k) == [h EXCEPT !.kinds[c] = k]

Asserted(h, p) == [h EXCEPT !.sane = @ /\ p]

\* ASSERT_ALIGNED of the end of a large object of n bytes and its header, which
\* starts at a chunk.
WholeObject(n) == (LARGE_OBJECT_HEADER_SIZE + n) % CHUNK_SIZE = 0

Init ==
  /\ heap = [kinds |-> [c \in Chunks |-> 0], size |-> [c \in Chunks |-> 0],
             large |-> <<>>, small |-> [k \in SmallKinds |-> <<>>],
             compact |-> FALSE, pages |-> 0, fits |-> TRUE, sane |-> TRUE]
  /\ arena \in FreshArenas
  /\ live = {}

-----------------------------------------------------------------------------
(* Compaction of the free large objects.                                   *)

\* Faulty: leaves the absorbed object in the list.
AbsorbKept(h, o, e) ==
  [h EXCEPT !.size[o] = @ + LARGE_OBJECT_HEADER_SIZE + h.size[e]]

\* Object o absorbs the free object e that follows it.
Absorb(h, o, e) ==
  [h EXCEPT !.large = RemoveFirst(@, e),
            !.size[o] = @ + LARGE_OBJECT_HEADER_SIZE + h.size[e]]

\* The object after o in the list; 0 at its end.
NextOf(list, o) ==
  LET i == SelectInSeq(list, LAMBDA w : w = o)
  IN IF i < Len(list) THEN list[i + 1] ELSE 0

\* Object s.at of the heap s.heap absorbs the free object that follows it in its
\* page, which the ASSERT says is in the list, or the next in the list has its turn.
Merge(s) ==
  LET e == EndOf(s.heap, s.at)
  IN IF Index(e) = 0 \/ s.heap.kinds[e] # FREE_LARGE_OBJECT
       THEN [s EXCEPT !.at = NextOf(s.heap.large, @)]
     ELSE IF Contains(s.heap.large, e)
       THEN [s EXCEPT !.heap = Absorb(@, s.at, e)]
     ELSE [heap |-> Asserted(s.heap, FALSE), at |-> 0]

\* One turn of the loops of maybe_merge_free_large_object and
\* maybe_compact_free_large_objects, which end at the end of the list.
Turn(s) ==
  IF s.at = 0 THEN s
  ELSE Merge([s EXCEPT !.heap = Asserted(@, WholeObject(@.size[s.at]))])

\* The turns, from the first object in the list on.  In each an object is passed
\* over or taken off the list; one that was passed over may still be taken off when
\* a later one absorbs it, so that at most twice as many turns as objects are
\* needed, and the last ones may find the list at its end.
Turns(h) ==
  LET turn[i \in 0 .. 2 * Len(h.large)] ==
        IF i = 0 THEN [heap |-> h, at |-> Head(h.large)] ELSE Turn(turn[i - 1])
  IN turn

\* Faulty: has one turn for each object in the list, and leaves adjacent free
\* objects when one that was passed over is absorbed.
CompactOnce(h) ==
  LET quiet == [h EXCEPT !.compact = FALSE]
  IN IF h.compact /\ h.large # <<>> THEN Turns(quiet)[Len(h.large)].heap ELSE quiet

Compact(h) ==
  LET quiet == [h EXCEPT !.compact = FALSE]
  IN IF h.compact /\ h.large # <<>> THEN Turns(quiet)[2 * Len(h.large)].heap ELSE quiet

-----------------------------------------------------------------------------
(* Splitting.  The result of allocate_large_object is the object, 0 if     *)
(* there is no memory, and what it leaves behind.                          *)

\* A free large object of n bytes goes to the head of the list; one that spans
\* a single chunk becomes an object of the GRANULES_32 freelist instead
\* (maybe_repurpose_single_chunk_large_objects_head).
PushFree(h, o, n) ==
  IF n < CHUNK_SIZE
    THEN [Mark(h, o, GRANULES_32) EXCEPT
            !.size[o] = n, !.small[GRANULES_32] = <<<<o, 0>>>> \o @]
    ELSE [Mark(h, o, FREE_LARGE_OBJECT) EXCEPT
            !.size[o] = n, !.large = <<o>> \o @]

PushTail(h, c, n) == PushFree(Asserted(h, WholeObject(n)), c, n)

\* Faulty: a tail may start in the header of a page.
FreeTailAnywhere(h, c, tail) ==
  PushTail(h, c, tail - LARGE_OBJECT_HEADER_SIZE)

\* The tail bytes from chunk c on become a free object, which skips the header
\* of the page they start in.
FreeTail(h, c, tail) ==
  IF Index(c) # 0 THEN PushTail(h, c, tail - LARGE_OBJECT_HEADER_SIZE)
  ELSE IF tail = CHUNK_SIZE THEN h
  ELSE PushTail(h, c + 1, tail - CHUNK_SIZE - LARGE_OBJECT_HEADER_SIZE)

\* Object o keeps all but its last tail bytes.
WithoutTail(h, o, tail) ==
  IF tail = 0 THEN h
  ELSE FreeTail([h EXCEPT !.size[o] = @ - tail],
                EndOf(h, o) - tail \div CHUNK_SIZE, tail)

\* The object that allocate_large_object returns ends where a chunk does.
Returned(h, o) == [obj |-> o, heap |-> Asserted(h, WholeObject(h.size[o]))]

CutTail(h, o, tail) == Returned(WithoutTail(h, o, tail), o)

WholeChunks(n) == (n \div CHUNK_SIZE) * CHUNK_SIZE

\* The object would span pages but fits in one: its first bytes, to the end of
\* their page, become a free object, and it moves to the next page.
SplitHead(h, o, n, first) ==
  LET b    == (PageOf(o) + 1) * PageUnits + 1
      left == h.size[o] - first - CHUNK_SIZE - LARGE_OBJECT_HEADER_SIZE
  IN CutTail(Asserted([Mark(PushFree(h, o, first), b, LARGE_OBJECT) EXCEPT !.size[b] = left],
                      left >= n),
             b, WholeChunks(left - n))

\* Faulty: an object of several pages keeps its bytes, not whole pages.
SplitPagesUnrounded(h, o, n, first) ==
  CutTail(h, o, WholeChunks(h.size[o] - n))

\* The object takes up all of its last page.
SplitPages(h, o, n, first) ==
  CutTail(h, o, h.size[o] - (first + AlignUp(n - first, PAGE_SIZE)))

\* What is kept of object o, from start to end, for n bytes: all of it if less
\* than a chunk would be left.
SplitRange(h, o, n, start, end) ==
  LET tail  == WholeChunks(h.size[o] - n)
      first == PAGE_SIZE - (start % PAGE_SIZE)
  IN IF tail = 0 THEN CutTail(h, o, 0)
     ELSE IF start \div PAGE_SIZE = (end - tail - 1) \div PAGE_SIZE
       THEN CutTail(Asserted(h, end % CHUNK_SIZE = 0), o, tail)
     ELSE IF n < PAGE_SIZE - LARGE_OBJECT_HEADER_SIZE - CHUNK_SIZE
       THEN SplitHead(Asserted(h, end % PAGE_SIZE = 0), o, n, first)
     ELSE SplitPages(Asserted(h, end % PAGE_SIZE = 0), o, n, first)

Split(h, o, n) ==
  SplitRange(h, o, n, o * CHUNK_SIZE + LARGE_OBJECT_HEADER_SIZE,
             o * CHUNK_SIZE + LARGE_OBJECT_HEADER_SIZE + h.size[o])

-----------------------------------------------------------------------------
(* Allocation.                                                             *)

\* The smallest free object of at least n bytes, the first of several; 0 if
\* there is none.
BestFit(h, n) ==
  LET fits == {i \in DOMAIN h.large : h.size[h.large[i]] >= n}
      best == {i \in fits : \A j \in fits : h.size[h.large[i]] <= h.size[h.large[j]]}
  IN IF fits = {} THEN 0
     ELSE h.large[CHOOSE i \in best : \A j \in best : i <= j]

\* allocate_pages: how many bytes to ask for, at least half of the heap.
GrowBytes(h, n) ==
  LET needed == n + LARGE_OBJECT_HEADER_SIZE + CHUNK_SIZE
      half   == (h.pages * PAGE_SIZE) \div 2
  IN AlignUp(IF half < needed THEN needed ELSE half, PAGE_SIZE)

PagesFor(h, n) == GrowBytes(h, n) \div PAGE_SIZE

\* ASSERT(grow), which is checked before the kernel is asked and once more after,
\* with the ASSERT_ALIGNED of the same number.
GrowChecked(h, n) ==
  Asserted(h, GrowBytes(h, n) # 0 /\ GrowBytes(h, n) % PAGE_SIZE = 0)

\* The p pages that g holds, treated as a fresh large object.
Grow(h, n, p, g) ==
  LET o    == g.ptr + 1
      size == p * PAGE_SIZE - CHUNK_SIZE - LARGE_OBJECT_HEADER_SIZE
  IN IF g.ptr = 0 THEN [obj |-> 0, heap |-> h]
     ELSE Split([Mark(h, o, LARGE_OBJECT) EXCEPT
                   !.pages = @ + p, !.size[o] = size,
                   !.fits = @ /\ size >= n + LARGE_OBJECT_HEADER_SIZE], o, n)

\* The free object o is taken off the list.
Take(h, n, o) ==
  Split([Mark(h, o, LARGE_OBJECT) EXCEPT !.large = RemoveFirst(@, o)], o, n)

With(r, a) == [obj |-> r.obj, heap |-> r.heap, arena |-> a]

GrowWith(h, n, p, g) == With(Grow(h, n, p, g), g.arena)

LargeFrom(h, a, n, willing, o) ==
  IF o # 0 THEN With(Take(h, n, o), a)
  ELSE GrowWith(GrowChecked(h, n), n, PagesFor(h, n),
                GetPages(a, PagesFor(h, n), willing))

FitFrom(h, a, n, willing) == LargeFrom(h, a, n, willing, BestFit(h, n))

AllocateLargeObject(h, a, n, willing) == FitFrom(Compact(h), a, n, willing)

\* obtain_small_objects: a free whole chunk if there is one, else a fresh one.
WholeChunk(h, a, willing) ==
  IF h.small[GRANULES_32] # <<>>
    THEN [obj |-> Head(h.small[GRANULES_32])[1], arena |-> a,
          heap |-> [h EXCEPT !.small[GRANULES_32] = Tail(@)]]
    ELSE AllocateLargeObject(h, a, 0, willing)

\* The slots of the chunk r obtained replace the freelist of kind k.
Carve(r, k) ==
  [r EXCEPT !.heap = [Mark(@, r.obj, k) EXCEPT
     !.small[k] = [i \in DOMAIN Slots(k) |-> <<r.obj, Slots(k)[i]>>]]]

PopSmall(r, k) ==
  IF r.heap.small[k] = <<>> THEN [ptr |-> NULL, heap |-> r.heap, arena |-> r.arena]
  ELSE [ptr |-> Head(r.heap.small[k]), arena |-> r.arena,
        heap |-> [r.heap EXCEPT !.small[k] = Tail(@)]]

Obtain(r, k) == IF r.obj = 0 THEN r ELSE Carve(r, k)

FromList(h, a, k, willing) ==
  PopSmall(IF h.small[k] # <<>> THEN [obj |-> 0, heap |-> h, arena |-> a]
           ELSE Obtain(WholeChunk(h, a, willing), k), k)

\* get_small_object_freelist asserts that there is a list of kind k.
AllocateSmall(h, a, k, willing) ==
  FromList(Asserted(h, k \in SmallKinds), a, k, willing)

\* The owner of a large object may write anything to the headers of the later
\* pages it covers, at worst the kind that invites a merge.
Scribble(h, o) ==
  [h EXCEPT !.kinds = [c \in Chunks |->
     IF PageOf(c) * PageUnits \in o + 1 .. EndOf(h, o) - 1
       THEN FREE_LARGE_OBJECT ELSE @[c]]]

AllocateLarge(r) ==
  IF r.obj = 0 THEN [ptr |-> NULL, heap |-> r.heap, arena |-> r.arena]
  ELSE [ptr |-> <<r.obj, LARGE_OBJECT_HEADER_SIZE>>,
        heap |-> Scribble(r.heap, r.obj), arena |-> r.arena]

\* What malloc can return and leave behind, as the kernel has memory or not.
Allocations(h, a, n) ==
  {IF KindFor(n) = LARGE_OBJECT
     THEN AllocateLarge(AllocateLargeObject(h, a, n, willing))
     ELSE AllocateSmall(h, a, KindFor(n), willing) : willing \in BOOLEAN}

\* free
Release(h, p) ==
  LET c == p[1]
      k == h.kinds[c]
  IN IF k = LARGE_OBJECT
       THEN [Mark(h, c, FREE_LARGE_OBJECT) EXCEPT
               !.large = <<c>> \o @, !.compact = TRUE]
       ELSE [Asserted(h, k \in SmallKinds) EXCEPT !.small[k] = <<p>> \o @]

\* malloc_usable_size
UsableSize(h, p) ==
  LET k == h.kinds[p[1]]
  IN IF k = LARGE_OBJECT THEN h.size[p[1]]
     ELSE IF k \in SmallKinds THEN SmallSize(k) ELSE 0

-----------------------------------------------------------------------------
(* The calls.                                                              *)

\* malloc, and calloc, which asks malloc for num * size bytes.
Malloc(n) ==
  \E r \in Allocations(heap, arena, n) :
    /\ r.arena.heap_end <= LastEnd
    /\ heap' = r.heap
    /\ arena' = r.arena
    /\ live' = IF r.ptr = NULL THEN live ELSE live \cup {<<r.ptr, n>>}

Free(x) ==
  /\ heap' = Release(heap, x[1])
  /\ live' = live \ {x}
  /\ UNCHANGED arena

\* realloc of a live object to another size: the same object if it is large
\* enough, else a new one, and the old one freed once its content is copied.
Realloc(x, n) ==
  \/ /\ UsableSize(heap, x[1]) >= n
     /\ live' = (live \ {x}) \cup {<<x[1], n>>}
     /\ UNCHANGED <<heap, arena>>
  \/ /\ UsableSize(heap, x[1]) < n
     /\ \E r \in Allocations(heap, arena, n) :
          /\ r.arena.heap_end <= LastEnd
          /\ arena' = r.arena
          /\ \/ r.ptr = NULL /\ heap' = r.heap /\ UNCHANGED live
             \/ /\ r.ptr # NULL
                /\ heap' = Release(r.heap, x[1])
                /\ live' = (live \ {x}) \cup {<<r.ptr, n>>}

Next ==
  \/ \E n \in Requests : Cardinality(live) < MaxLive /\ Malloc(n)
  \/ \E x \in live : Free(x)
  \/ \E x \in live, n \in Requests \ {0} : Realloc(x, n)

Spec == Init /\ [][Next]_wallocVars

-----------------------------------------------------------------------------
(* Properties.                                                             *)

\* The bytes of a live object, counted from address 0; for a large object,
\* its header too.
Bytes(p) ==
  LET first == p[1] * CHUNK_SIZE + p[2]
      back  == IF heap.kinds[p[1]] = LARGE_OBJECT THEN LARGE_OBJECT_HEADER_SIZE ELSE 0
  IN <<first - back, first + UsableSize(heap, p)>>

Apart(a, b) == a[2] <= b[1] \/ b[2] <= a[1]

\* The bytes the allocator itself may still write: the free objects and the
\* headers of the pages an object starts in.
FreeBytes ==
  {<<o * CHUNK_SIZE, EndOf(heap, o) * CHUNK_SIZE>> : o \in Range(heap.large)}
  \cup UNION {{<<p[1] * CHUNK_SIZE + p[2], p[1] * CHUNK_SIZE + p[2] + SmallSize(k)>> :
                 p \in Range(heap.small[k])} : k \in SmallKinds}

HeaderBytes(c) == <<PageOf(c) * PAGE_SIZE, PageOf(c) * PAGE_SIZE + CHUNK_SIZE>>

\* Live objects share no byte with each other, with the memory the freelists
\* thread through, or with the headers of the pages they start in, and all of
\* them lie in mapped memory.
ObjectsApart ==
  /\ \A x, y \in live : x # y => Apart(Bytes(x[1]), Bytes(y[1]))
  /\ \A x \in live : \A f \in FreeBytes : Apart(Bytes(x[1]), f)
  /\ \A x, y \in live : Apart(Bytes(x[1]), HeaderBytes(y[1][1]))
  /\ \A x \in live : Bytes(x[1])[2] <= arena.break * CHUNK_SIZE

\* The freelists are disjoint too: no memory is free twice, and each free
\* object is of the kind that its page's header states; one in the list of large
\* objects spans more than its first chunk.
FreeListsSound ==
  /\ \A f, g \in FreeBytes : f # g => Apart(f, g)
  /\ IsInjective(heap.large)
  /\ \A o \in Range(heap.large) :
       heap.kinds[o] = FREE_LARGE_OBJECT /\ heap.size[o] >= CHUNK_SIZE
  /\ \A k \in SmallKinds :
       /\ IsInjective(heap.small[k])
       /\ \A p \in Range(heap.small[k]) : heap.kinds[p[1]] = k

\* An object is as large as its owner asked for, by what malloc_usable_size
\* reads from the header of its page, whatever the owners of other objects
\* have written since.
BigEnough == \A x \in live : UsableSize(heap, x[1]) >= x[2]

\* No ASSERT of walloc.c fails, but for the one of RoomForHeader: merging and
\* splitting meet ends of objects where chunks and pages end (walloc.c:213, 318,
\* 322, 343, 364, 371) and objects in the list and large enough where they
\* expect them (228, 336), pages are asked for in whole ones and not none (170,
\* 179, 180), and what is allocated or freed as a small object has a list (404).
AssertsHold == heap.sane

\* Once the free large objects are compacted, none of them is followed in its page
\* by another one, until the next is freed: splitting leaves no two beside each other,
\* and merging misses none, in whichever order the list has them (walloc.c:205-206,
\* "merge any adjacent objects").
FreeObjectsMerged ==
  ~heap.compact =>
    \A o, e \in Range(heap.large) : e = EndOf(heap, o) => Index(e) = 0

\* "ASSERT(best_size >= size_with_header)" (walloc.c:300): fresh pages have room
\* for the object and its header.
RoomForHeader == heap.fits

\* Chunks "pushed back on the GRANULES_32 small object freelist"
\* (walloc.c:192-193) are not lost: a chunk of that kind is in use or on that
\* list.
WholeChunksKept ==
  \A c \in Chunks : heap.kinds[c] = GRANULES_32 /\ Index(c) # 0 =>
    \/ <<c, 0>> \in Range(heap.small[GRANULES_32])
    \/ \E x \in live : Bytes(x[1])[1] <= c * CHUNK_SIZE /\ c * CHUNK_SIZE < Bytes(x[1])[2]
    \/ \E f \in FreeBytes : f[1] <= c * CHUNK_SIZE /\ c * CHUNK_SIZE < f[2]
=============================================================================
