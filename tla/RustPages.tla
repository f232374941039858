----------------------------- MODULE RustPages -----------------------------
(***************************************************************************)
(* __page_alloc of the Rust bindings (tiny-libc/src/linux.rs): a mapping   *)
(* of its own for every call, or the next pages of a preallocated buffer   *)
(* that threads share without a lock.  Addresses are counted in units of   *)
(* which PageUnits make a page, as in Arena.                               *)
(***************************************************************************)
EXTENDS Arena, SequencesExt

CONSTANTS
  Borrowers,     \* threads
  Buffers,       \* where the linker may have put the preallocated buffer
  BufferUnits,   \* its size, N
  Mappings,      \* where the kernel may put a mapping
  MaxBorrowed,   \* bound on the pages of a request
  MaxBorrows     \* bound on the number of requests

ASSUME RustPagesAssumption ==
  /\ Buffers \subseteq Nat \ {0} /\ Mappings \subseteq Nat \ {0}
  /\ BufferUnits \in Nat /\ MaxBorrowed \in Nat /\ MaxBorrows \in Nat

VARIABLES
  syscalls,   \* "prealloc" (LinuxSyscallsPrealloc) or "mmap" (LinuxSyscalls)
  bufAt,      \* the address of the buffer
  heap,       \* the index of its next free unit
  borrow,     \* per thread: [step, n], n the pages it asks for
  lent,       \* history: what the calls returned, in order: [ptr, n]
  mapped      \* the mappings the kernel has made: [ptr, size]

rustPageVars == <<syscalls, bufAt, heap, borrow, lent, mapped>>

Resting == [step |-> "idle", n |-> 0]

RustPagesInit ==
  /\ syscalls \in {"prealloc", "mmap"}
  /\ bufAt \in Buffers /\ heap = 0
  /\ borrow = [t \in Borrowers |-> Resting]
  /\ lent = <<>> /\ mapped = {}

AlignOffset(ptr) == AlignUp(ptr, PageUnits) - ptr

\* Calls under way and returned.
Borrows == Len(lent) + Cardinality({t \in Borrowers : borrow[t] # Resting})

Borrow(t) ==
  /\ borrow[t] = Resting /\ Borrows < MaxBorrows
  /\ \E n \in 1 .. MaxBorrowed : borrow' = [borrow EXCEPT ![t] = [step |-> "exchange", n |-> n]]
  /\ UNCHANGED <<syscalls, bufAt, heap, lent, mapped>>

\* Faulty: stores the offset although another thread has gone on from it.
SkipAnyway(t) ==
  /\ syscalls = "prealloc" /\ borrow[t].step = "exchange"
  /\ heap' = AlignOffset(bufAt)
  /\ borrow' = [borrow EXCEPT ![t].step = "add"]
  /\ UNCHANGED <<syscalls, bufAt, lent, mapped>>

\* compare_exchange: the first call skips to the first page.
SkipToPage(t) ==
  /\ syscalls = "prealloc" /\ borrow[t].step = "exchange"
  /\ heap' = IF heap = 0 THEN AlignOffset(bufAt) ELSE heap
  /\ borrow' = [borrow EXCEPT ![t].step = "add"]
  /\ UNCHANGED <<syscalls, bufAt, lent, mapped>>

\* fetch_add, without a look at the size of the buffer.
FetchAdd(t) ==
  /\ borrow[t].step = "add"
  /\ heap' = heap + PageUnits * borrow[t].n
  /\ lent' = Append(lent, [ptr |-> bufAt + heap, n |-> borrow[t].n])
  /\ borrow' = [borrow EXCEPT ![t] = Resting]
  /\ UNCHANGED <<syscalls, bufAt, mapped>>

MappedUnits(m) == m.ptr .. m.ptr + m.size - 1
LentUnits(g) == g.ptr .. g.ptr + PageUnits * g.n - 1

\* One page more than asked for; the pages begin at the next border of one, a
\* whole page further when the mapping is on a border, because the address is
\* stored in the word before.  The kernel may refuse.
Map(t) ==
  LET size == PageUnits * borrow[t].n + PageUnits IN
  /\ syscalls = "mmap" /\ borrow[t].step = "exchange"
  /\ borrow' = [borrow EXCEPT ![t] = Resting]
  /\ \/ UNCHANGED <<lent, mapped>>
     \/ \E p \in Mappings :
          LET m == [ptr |-> p, size |-> size]
              offset == IF AlignOffset(p) = 0 THEN PageUnits ELSE AlignOffset(p)
          IN /\ \A o \in mapped : MappedUnits(o) \cap MappedUnits(m) = {}
             /\ mapped' = mapped \cup {m}
             /\ lent' = Append(lent, [ptr |-> p + offset, n |-> borrow[t].n])
  /\ UNCHANGED <<syscalls, bufAt, heap>>

RustPagesNext ==
  \E t \in Borrowers : Borrow(t) \/ SkipToPage(t) \/ FetchAdd(t) \/ Map(t)

RustPagesSpec == RustPagesInit /\ [][RustPagesNext]_rustPageVars

-----------------------------------------------------------------------------
\* How far into the buffer the first n of the calls get, one after the other.
Reach(first, calls) ==
  LET upTo[n \in 0 .. Len(calls)] ==
        IF n = 0 THEN first ELSE upTo[n - 1] + PageUnits * calls[n].n
  IN  upTo
Demand == Reach(AlignOffset(bufAt), lent)[Len(lent)]

\* However the calls of the threads interleave, no two of them get the same
\* memory, and each gets pages on a border of one: pages of the buffer while the
\* calls together ask for no more than it holds, which nothing checks, or pages
\* of its own mapping, with room for the word before them.
BorrowsSound ==
  /\ \A i, j \in 1 .. Len(lent) :
       /\ i # j => LentUnits(lent[i]) \cap LentUnits(lent[j]) = {}
       /\ lent[i].ptr % PageUnits = 0
  /\ syscalls = "prealloc" /\ Demand <= BufferUnits =>
       \A i \in 1 .. Len(lent) :
         LentUnits(lent[i]) \subseteq bufAt .. bufAt + BufferUnits - 1
  /\ syscalls = "mmap" =>
       \A i \in 1 .. Len(lent) : \E m \in mapped :
         /\ LentUnits(lent[i]) \cup {lent[i].ptr - 1} \subseteq MappedUnits(m)
         /\ \A j \in 1 .. Len(lent) \ {i} :
              LentUnits(lent[j]) \cap MappedUnits(m) = {}
=============================================================================
