# A TLA+ verification of tiny-libc

tiny-libc is a C library just large enough to run QuickJS on bare Linux
system calls (`libc/`), with Rust bindings beside it (`crates/`). Most of it is
sequential code with a few lines of state. What is hard about it is the rest:
a futex mutex, `pthread_once` and a condition variable written from scratch, an
allocator whose invariants are spread over page headers, freelists and lazily
merged objects, FILEs that several threads print to while writes fail, and an
exit path that runs user code with a lock held. That is what the modules here
model, check with TLC and, all but the directives of printf and what must happen
eventually, prove with TLAPS.

Paths below are relative to the root of the repository.

## 1. Inventory

| component | state | operations | used by |
|---|---|---|---|
| mutex, `libc/src/pthread/mutex.c`, `futex.h` | one 32-bit word | lock, timedlock, trylock, unlock | cond, walloc, stdio, exit |
| once, `libc/src/pthread/once.c` | one word | `pthread_once` | programs |
| condition variable, `libc/src/pthread/cond.c` | one word | wait, timedwait, signal, broadcast | programs |
| futex and clock, `libc/arch/x86_64-linux.c:37-65` | the kernel's queues | `__wait`, `__wake`, `__unixtime_nsec` | the three above |
| page allocator, `libc/arch/x86_64-linux.c:67-124` | `heap_base`, `heap_end`, `brk_end`, the break | `__page_alloc` | walloc |
| walloc, `libc/src/walloc.c`, `stdlib.c` | page headers, object headers, 11 freelists, `pending_large_object_compact` | malloc, free, realloc, calloc, malloc_usable_size | programs, atexit |
| process, `libc/src/entrypoint.c` | `at_exit_list`, `at_exit_mutex` | `_start`, atexit, exit, abort | programs |
| stdio, `libc/src/stdio.c` | two buffers and two mutexes in each FILE | fputc, fputs, fwrite, printf, fflush; fgetc, fread | programs, exit |
| printf, `libc/src/printf.c` | none | the directive parser and the conversions | stdio |
| 128-bit division, `libc/src/crt.c` | none | `__udivmodti4`, `__divmodti4` and what the compiler calls | clocks, deadlines |
| calendar, `libc/src/localtime.c` | none (`errno`) | `__secs_to_tm`, `localtime_r` | programs |
| numbers, `libc/src/strtod.c`, `ctype.c` | none (`errno`) | `strtod`, `atoi` | programs |
| strings, `libc/src/string.c` | none | copies, comparisons, searches | programs |
| clocks, `libc/src/time.c`, `pthread/futex.h` | none | `clock_gettime`, `gettimeofday`, `__wait_abs` | mutex, cond, programs |
| math, `libc/src/math/` | none | musl's libm | programs |
| Rust bindings, `crates/tiny-libc/`, `crates/tiny-libc-macros/` | a preallocated heap with its atomic index | a second set of the system calls; `print!`, `read_line` | Rust programs; the library itself when linked with them |

How they interact. Every lock in the library is a `pthread_mutex_t`: walloc takes
`walloc_mutex` around every call, a FILE has one mutex for input and one for
output, exit and atexit share `at_exit_mutex`, and a wait on a condition variable
unlocks and relocks the mutex of its caller. The mutex, once and the condition
variable sleep in the kernel through `__wait`, which **drops the result of the
system call**: a caller cannot tell a wake from a timeout, from EINTR or from
EAGAIN, and has to look at its word again. exit calls user code (handlers and
destructors) and flushes stdout and stderr last. walloc asks `__page_alloc` for
pages and never gives one back.

What is hard in it, each listed at its line under `hazards` in `PROJECT.json`:

* **interleavings of single atomic operations**: the two-step unlock (fetch_sub,
  then store) against a locker that marks the word; a word that changes between
  the compare-exchange that saw it and FUTEX_WAIT; the condition's word, read
  before the unlock and compared by the kernel after it;
* **wake-ups**: one wake and several sleepers, a chosen sleeper that times out, a
  woken thread that loses the race;
* **failure in the middle**: a write that fails or is short with bytes left in a
  full buffer, a page request the kernel refuses after `heap_end` has moved;
* **long legal histories**: splitting, lazily merging and repurposing chunks of an
  allocator that trusts headers which objects may have overwritten;
* **user code called with a lock held** in exit;
* **where irregular cases meet** in sequential code: sign, zeros, precision and
  prefix in one width of a printf directive; the leap day that ends 4, 100 or
  400 years; the least signed number in a division; the half that a decimal is
  rounded from; the eighteenth digit of a number that is read; the last bit of a
  square root; zeros, infinities and NaNs;
* **the second backend**: the Rust bindings implement the same system calls with
  units and guarantees of their own.

What makes each component correct:

* mutex: one owner; the word tells whether there is one; no sleeper is forgotten;
  it is a lock; calls return.
* once: the routine runs once; callers return after it; nobody sleeps for ever.
* cond: a change of the word reaches everybody who sleeps on it; the latch that the
  code supports opens.
* page allocator: grants are disjoint, aligned and mapped.
* walloc: live objects are disjoint, large enough and inside the heap, the
  freelists say the truth, free neighbours are merged, no `ASSERT` fails.
* exit: constructors, handlers, destructors in order and once each; their output
  is flushed; the process ends.
* stdio: no byte is lost, repeated, reordered or mixed into another call's; the
  results tell what happened; lines are out when the call returns.
* division: the quotient is truncated, the remainder has the dividend's sign.
* calendar: the date is the one the seconds stand for.
* printf: every character and argument is used once, a directive puts out what C
  says, and a buffer receives what it has room for.
* numbers: a decimal number is read with the value it stands for, whatever follows it.
* strings: copies arrive, nothing else changes, searches and orders are C's.
* clocks: a timed wait returns ETIMEDOUT after its deadline and not before, and
  never sleeps past it.
* math: where C determines the result to the bit, it is that one.
* Rust pages: what is lent is disjoint, aligned and inside its buffer or mapping.

## 2. The modules

```
AbstractLock      what a lock promises
  ^ implemented by
Mutex                                        Once
  ^ EXTENDS
Cond     wait, signal and broadcast on the steps of Mutex
  ^ EXTENDS
Latch    a client program of Cond
Mutex, Cond, Latch ---- MutexProofs

Arena     __page_alloc as an operator on its static variables ---- ArenaProofs
  ^ EXTENDS            ^ EXTENDS
PageAlloc, RustPages   Walloc ---- WallocProofs      on ArenaProofs

Exit ---- ExitProofs     OutFile ---- OutFileProofs     InFile
                                   take their mutex as an atomic lock

Clock     clocks and deadlines on the C and on the Rust system calls

Conversions <- Printf      Floats <- MathBits      Numbers     Strings
Division     Calendar          sequential functions

InFile, Clock, Calendar, Division, Once, PageAlloc, RustPages ---- ComponentProofs
Strings, Numbers ---- TextProofs
Floats, MathBits ---- MathProofs
```

`MCxxx.tla` with `MCxxx.cfg` instantiates module `Xxx` for TLC. Two of them
instantiate several modules and have a variable `subject`, which says which of them a
behaviour is about: MCThreads those in which threads take a mutex and call back
(Mutex, Latch on Cond, Exit), MCComponents the eleven components whose instances are
small and share no state (PageAlloc, RustPages, Clock, InFile, Division, Calendar, Printf,
Numbers, Strings, MathBits, Once). MCNumbers has the texts for Numbers. Operators
whose comment begins with "Faulty" are mutants of the definition that follows them:
each property of each run is violated by one of them, which shows that the property
depends on the code it is about.

### Mutex (`mutex.c`, `futex.h`, `__wait`, `__wake`)

`mutex` is the futex word, `c` and `deadline` are the local variables of
`pthread_mutex_timedlock`, `pc` says where in the code a thread stands. One action
is one atomic operation, one system call or one reading of the clock:

| action | code |
|---|---|
| `TimedLock` | the entry of timedlock and the first compare-exchange, `mutex.c:30-39` |
| `SkipSwap`, `Swap` | `c == LOCKED_WAIT \|\| compare_swap(...) != UNLOCKED`, 40-46 |
| `WaitAbs` | `__wait_abs` reads the clock, returns -1 for a past deadline |
| `FutexWait` | FUTEX_WAIT: sleep, or EAGAIN when the word has changed |
| `EndSleep` | FUTEX_WAIT ends by its timeout or by EINTR; the code cannot tell |
| `Retry` | the weak compare-exchange of the loop condition, 51-60 |
| `TryLock` | 62-70 |
| `Unlock`, `StoreUnlocked`, `WakeOne` | the three steps of unlock, 72-82 |
| `Expire` | the clock passes a deadline |

A weak compare-exchange may fail although the values are equal
(`WeakCASFails`); on x86-64 it does not, but the C code allows it. The word has
`WordSize` values, so that a fetch_sub that should wrap would be seen to.
`AbstractLock` is the promise: threads wait, one at a time owns. `ImplementsLock`
maps `owners` to the threads that hold the lock *or have done the fetch_sub of a
contended unlock but not yet the store*: until the store the word is still locked.

### Once (`once.c`)

`once` is the word; `begun` and `done` record the runs of the routine. The routine
takes any time. `Interruptible` are the threads whose sleep may end without a
wake.

### Cond and Latch (`cond.c`)

Cond EXTENDS Mutex: the unlock and the lock inside a wait are Mutex's own steps,
interleaved with every other thread's. `value` is the local variable of
`pthread_cond_timedwait`, `limit` its deadline, `notified` a history. `Notify` is
the fetch_or of signal and broadcast, `CondWake` the wake that only the caller
that found the bit clear does.

Nothing in `cond.c` ever clears the bit. A condition variable therefore works for
**one** notification. Latch is the program this supports, a flag set once: lock,
`while (!ready) wait`, unlock; and lock, `ready = 1`, unlock with the notification
before or after. Signal is used only where at most one thread waits.

### Arena, PageAlloc and Walloc

`Arena!GetPages` is `__page_alloc` as a function from the static variables to the
result and the new variables, the kernel's refusal being an argument. Which `brk` is
compiled is a field: SYS_brk keeps the old break when it refuses, that of a static heap
moves it to the heap's end. Addresses
are chunks (256 bytes), of which `PageUnits` make a page. Walloc keeps the whole
heap in one record (page headers, sizes, freelists, the pending flag) and an
allocator call is one step, because `walloc_mutex` is held from its first line to
its last. `fits` becomes FALSE when the `ASSERT` that fresh pages have room
(`walloc.c:300`) would have failed, `sane` when any other `ASSERT` or `ASSERT_ALIGNED` would,
the ones about where objects end (`WholeObject`) included. Compaction goes over
the list in turns (`Turn`): the object whose turn it is absorbs the one behind it, or
the next has its turn, until the end of the list. An object costs one turn when it is
absorbed before its own, and two when it is passed over first and absorbed by a
later one: with `b`, `a`, `x` in the list and in memory in the order x, a, b, `b` is passed
over, `a` absorbs it and `x` absorbs `a`. Twice as many turns as there are objects are
therefore enough, and what is left of them does nothing. `Scribble`
stands for the owner of a large object writing all over it, page headers
included. realloc and calloc call malloc and free one after the other; what other
threads do between those calls does not touch the objects concerned.

### Exit (`entrypoint.c`)

`at_exit_list` is the list, latest first; `ctx` says which user code a thread runs
(a constructor, main or a thread's function, a handler, a destructor), `place` where
in the library it stands, and `UserCalls` which of atexit and exit such code may call.
The tables have entries that are NULL, which the code passes over. `ExitRun` is a step
of a thread in the library or a return of user code, `_Exit` the end of the process.

### RustPages (`crates/tiny-libc/src/linux.rs`)

`__page_alloc` of the Rust bindings. `syscalls` chooses between a mapping for each
call (`Map`) and the preallocated buffer, where a call is two atomic operations on
`heap` with other threads' between them: `SkipToPage` (the compare-exchange that
only the first caller may win) and `FetchAdd`. `lent` is what the calls returned.

### OutFile (`stdio.c`, `crates/tiny-libc/src/io.rs`)

One FILE's output half. An output operation is a sequence of runs of
`fputbuf_unlocked`: one for fputc and fwrite, two for fputs, one for each character
of printf (its terminating NUL included, which the code does write to the file).
`write_fmt` is `print!` of the Rust bindings: each piece of the format is an fwrite
of its own, with the mutex free between them (`NextPiece`), and the number that
fwrite returns is dropped. write takes any positive number of bytes or fails.
Bytes carry the number of the call that stored them, so that loss, repetition and
mixing are all visible.

### InFile (`stdio.c`, `crates/tiny-libc/src/io.rs`)

One FILE's input half: fgetc, fread, and `Stdin::read_line`, which calls fread until
a newline or an empty read, without a lock between the calls, and then checks that
the line is UTF-8 (`from_utf8`, `Trailing` are the second bytes of characters). read
delivers any positive number of bytes, nothing or an error. A byte is its place in
the source.

The mutexes of Exit, OutFile and InFile are used through lock and unlock only, so
they are locks taken in one step when free; that the futex mutex behaves so is
what `ImplementsLock` says.

### Clock (`time.c`, `futex.h`, `x86_64-linux.c`, `linux.rs`)

One thread and the kernel's clock, which moves in every state. `Begin` reads the
clock and adds a delay, as a caller of a timed wait does; `Compute` is `__wait_abs`,
whose product `tv_sec * 1000000000` wraps around beyond `HalfWord`, half of
the values of a word; `Sleep` and
`Awake` are FUTEX_WAIT with the time that the backend asks for (`Asked`). `Backends`
chooses the C or the Rust system calls: the Rust ones take microseconds for
nanoseconds when they read the clock and the reverse when they sleep. Mutex and
Cond abstract this to a flag that a deadline has passed.

### Division (`crt.c`)

Words of any width: `Powers` are the words with one bit set, `TopBit` the highest.
`DivCall` enters `__divmodti4` or `__udivmodti4`, `Normalize` shifts by `clz128`,
`Subtract` is one turn of the loop, `Finish` puts the signs back, `Trap` is the
division by zero. The negation of the least number, which C leaves undefined,
wraps around as the build does.

### Calendar (`localtime.c`)

`SecsToTm` is `__secs_to_tm`, with C's truncating division; it counts from
2000-03-01 in cycles of 400, 100 and 4 years. `Localtime` is `localtime_r`. The
reference counts from 1970-01-01 in years and months of the Gregorian calendar.
The lengths of a minute, an hour and a day and the range of int are parameters, so
that TLC, whose integers have 32 bits, reaches the first and the last year of an
int.

### Conversions and Printf (`printf.c`, `snprintf` of `stdio.c`)

`format` is what the parser has not read, `next` the argument it takes next,
`flags`, `width` and `precision` the fields of the directive; `Text`, `Percent`,
`Flag`, `Width`, `Precision`, `Length`, `Specifier` and `End` are the stages of
`_vsnprintf`, `RunOff` the format that ends inside a directive. `out` is all that is
put out and `buffer` the array of `maxlen` chars that snprintf is given.

Conversions holds what a directive puts out. `Ntoa` is `_ntoa_long` with
`_ntoa_format`, buffer limit included; `AsSigned` and `AsUnsigned` cut an argument to
its type. `Fixed` is `_ftoa` and `Etoa` `_etoa`, on doubles that are exact fractions:
`Rounded` treats halves and carries as the code does, `Decimals` the count of
decimals that wraps around. The exponent of `_etoa` is estimated (`EstimateOf`): a
logarithm that is linear between powers of two (`Logarithm`, in parts of 10000), which
the conversion to int truncates towards zero, and one correction downwards
(`ExponentOf`). Below 1 the estimate may be two too high, and one correction is not
enough. The power of ten is an approximation as well, some of whose values lie above the
power and others below it: which, are the parameters `PowersAbove` and `PowersBelow`, and a
mantissa divided by one of them is "less" or "more" than its fraction.

The reference (`InC`) is told from the fields of a directive, not from its
characters, and builds sign, zeros, digits and padding from their meaning.
`RegularInteger` and `RegularNumber` list the directives where the code does
something else than C; section 5 says what.

### Numbers (`strtod.c`, `ctype.c`, `atoi`)

A text is a sequence of characters, a double a fraction and a power of ten.
`Mantissa10` is the loop that counts digits and finds the point, `Fraction` the two
integers that collect them, `Exponent10` the exponent, `strtod` the whole. Values of
digits (`ValueIn`) and powers of ten (`TenTo`) are recursive functions of a number of
digits. The reference divides the text: a division is a record of the lengths of its
blanks, sign, digits, fraction and exponent, whose ends (`SignEnd`, `IntegerEnd`,
`MantissaEnd`, `NumberEnd`) are places in the text, and C reads the one that reaches
furthest (`LongestFloat`). It knows nothing of what the code does with an `e` without
digits (`BareE`) and with leading zeros (`NoEarlyZeros`), where `NumbersAsInC` therefore
claims no end and no value; that these two contradict comments of the code is shown by
runs of their own.

### Strings (`string.c`)

One call on every memory of five signed chars. Each loop of the code is a function
of the address it has come to. The reference uses sets of places and sequences of
unsigned chars.

### Floats and MathBits (`libc/src/math/`)

Floats is an IEEE 754 format of any width as bit patterns: what the processor does.
MathBits are the functions of libm that work on the bits: floor, ceil, trunc, rint,
round, lrint, modf, frexp, scalbn, copysign, fabs, fmax, fmin, fmod, sqrt, and the
special cases of atan2 and pow, whose results name the path taken. sqrt starts from
any approximation of the root that its comments allow, and decides the last bit as
the code does, with products that wrap around. The references are stated on exact
integers.

## 3. The runs

| run | instance | asks |
|---|---|---|
| `MCThreads` | *mutex*: 3 threads, deadlines, EINTR, spurious CAS failures | is the mutex a lock that forgets no sleeper, and does every call return? |
| | *latch*: a notifier and 0 to 2 waiters, signal or broadcast, on the same mutex | does a latch open, without a missed waiter or two threads inside? |
| | *exit*: 3 threads, 3 registrations, 2 constructors, 3 destructors, calls to atexit and exit from everywhere | are the calls made in order, is their output flushed, does the process end? |
| `MCOnce_interrupted` | 4 threads, one interruptible | *violation*: does every caller wait for the routine? |
| `MCCond` | 3 threads, broadcast, deadlines, EINTR | does the first broadcast miss anybody? |
| `MCCond_renotified` | 2 threads, no deadlines | *violation*: does nobody sleep who has been notified? |
| `MCWalloc` | pages of 7 chunks, 6 sizes in 4 menus, 3 live objects, 2 first breaks, either brk; malloc, free, realloc and calloc | is the heap sound after every legal history, and are free neighbours merged? |
| `Walloc_lost` | pages of 4 chunks, 2 sizes | *violation*: does a repurposed chunk stay on a freelist? |
| `Walloc_tight` | pages of 4 chunks, 4 sizes | *violation*: have fresh pages room for the object and its header? |
| `MCOutFile` | 2 threads, a buffer of 3 bytes, 3 calls of 8 kinds, short and failing writes | is the output what was stored, call by call, and do the results say so? |
| `MCComponents` | *pages*: 4 units, 3 first breaks, requests of 1 to 3 pages, refusals | are grants of pages disjoint and usable? |
| | *borrowed pages*: 3 threads, 3 places of the buffer, 4 requests, with the buffer or mappings | is what is lent disjoint, aligned and the caller's own? |
| | *clock*: 14 nanoseconds, seconds of 8, words of 7 bits, 5 delays, the system calls of x86_64 in C | do timed waits keep their deadlines? |
| | *input*: 2 threads, a buffer of 3 bytes, a source of 6 with 2 newlines and a character of two bytes, 3 calls | does every byte reach exactly one caller, in order and in lines? |
| | *division*: all pairs of 5-bit words, signed and unsigned | is the division C's, and its loop invariant kept? |
| | *calendar*: every day of 31 years, at 3 times of the day | is the date the one the seconds stand for? |
| | *printf*: about 12,700 calls: formats of 1 to 3 pieces, buffers of 5 sizes | does printf put out what C says, and stay inside its format and its buffer? |
| | *numbers*: every text of up to 4 of 7 characters, 713 longer ones | do strtod and atoi read what C says? |
| | *strings*: every call on every memory of 5 chars of 3 values | do copies, comparisons and searches do what C says? |
| | *math*: every float of 8 bits, all pairs for fmod, 80 x 80 for the others | are the results those that C determines? |
| | *once*: 4 threads, one interruptible | does the routine run once, before anybody else returns, and does every call return? |
| `Numbers_extras` | the texts of *numbers* | *violation*: is a number that is not 0 read as one, however many digits it has? |
| `Numbers_end` | the texts of *numbers* | *violation*: does `*endPtr` point behind the number? |
| `Clock_rust` | the Rust system calls | *violation*: does a wait sleep for the nanoseconds it is given? |

Why the bounds are enough. *Mutex*: three threads give an owner, a sleeper and a third
that barges in, marks or times out; the word's three values are all the state there is,
and the safety part is proved for any number of threads. *Once*: an initializer, two
sleepers for the wake-all and one that is interrupted; also proved. *Cond*: the word
takes two values only, and two waiters with a notifier that is also a mutex user cover
every race of `CondSleep`. *Latch*: two waiters tell broadcast from signal. *Exit*: two
threads race for the lock while a third registers. What is safety of Cond, Latch and
Exit, and of Walloc, OutFile, Input, Clock, Calendar and Borrowed pages below, is proved
for any instance as well. *Pages*: requests that fit the rest of a page, end on a border
and cross it; proved in general. *Division*: five bits have every relation of lengths
and signs; proved in general. *Calendar*: the years are those before, at and after a
leap day that exists or is left out, on both sides of 1970 and of 2000, and the two
years at and beyond each end of an int. *Printf*: every combination of flags that C
gives a meaning to with widths and precisions shorter and longer than the digits, given
in the format and by arguments, negative ones too; numbers that a smaller type cuts off;
directives one after the other, and unfinished ones. *Walloc*: a page of seven chunks
has six usable ones, and three large objects of two chunks fill it: freed in any order,
they are three neighbours in every order of the list, which compaction must make one of.
The sizes are a small object, one that takes a whole chunk, one that takes two, two that
fit a page (one of them just so) and one that spans two pages. All six at once make too
many heaps; a behaviour keeps to one of four menus, each with its brk and a first break
that leaves room for two pages or three. A real page of 256 chunks adds length, not
branches, and the proofs hold for pages of any size above two chunks; `LastBreak` and
`LastEnd` bound the heap and the requests beyond it. *OutFile*: the buffer is shorter
than most jobs, so a call flushes at its end, in its middle and before its start, and a
third call finds what two failed ones left. *Input*: a call may end at a newline, the
end of the buffer, the end of the request or the end of the source, and a line is longer
than one request of `read_line`. *Borrowed pages*: the buffer starts on a page, before
and after one, and the requests exceed it. *Clock*: a deadline may lie in this second,
the next or a later one, pass before, in or after the sleep, or not fit a word. *Doubles
in printf*: halves that stay, go up, go up from 0 and carry, what rounds up to a whole
number, powers of ten that are missed and that are not, small numbers whose estimated
exponent is one and two too high, numbers on both sides of every limit, with the limits
themselves scaled down (2 decimals, 1000 for 1e9, 1e-2 and 1e2 for `%g`). *Numbers*: the
mantissa keeps 4 digits and the exponent 4 bits, so that longer ones occur; every limit
is crossed in both directions. *Math*: 2 bits of mantissa and 5 of exponent keep the
relation between the two that the constants of a double have (`FloatsAssumption`: the
exponents reach more than three mantissas far), and with it subnormals, ties, carries
into the next exponent and overflow.

Deadlock checking is on wherever threads may always start another call. It is
off for MCThreads (the programs of the latch and processes end; that the mutex does not
stop is what `EveryCallReturns` says), Walloc (the bounded heap is used up), MCOutFile
(`MaxCalls`), MCComponents and the runs of Numbers (bounded calls); Clock_rust has a last
moment too.

### Liveness and fairness

* `Mutex!EveryCallReturns`: if threads stop starting calls, nobody is left waiting.
  Weak fairness of each thread's own steps is the kernel's scheduler, and a thread
  that holds a lock is assumed to unlock it. Strong fairness of the *successful*
  retry says that a weak compare-exchange whose values match again and again does
  not fail spuriously for ever; hardware guarantees more. Without "stop
  starting", barging may starve a waiter: this mutex is not fair, and its
  authors do not say it is.
* `Once!EveryCallReturns`: weak fairness of the library's steps; the routine
  returns.
* `Latch!LatchOpens`: weak fairness of each thread, strong fairness of a retry that takes
  the mutex, as above, and `Calm`: at some time the
  kernel stops ending sleeps by itself. An endless storm of signals could keep a
  waiter taking the mutex ahead of the notifier.
* `Exit!ExitEnds`: weak fairness of each thread; handlers, destructors and main
  return. The conclusion has an exception that the code makes necessary: a
  handler or destructor that calls atexit or exit waits for the mutex its own
  thread holds.
* `OutFile!EveryCallReturns`: weak fairness of each thread in the library; write
  returns a positive number or an error. (`write` returning 0 for ever would keep
  `fflush_unlocked` in its loop.)

No fairness is assumed of calls, deadlines or signals.

## 4. What is proved

TLAPS checks these for every value of the constants, under the named assumptions
of the modules only. Most say no more than that the parameters are numbers, sequences
and subsets of the right kind (`MutexAssumption`, `OnceAssumption`, `CondAssumption`,
`LatchAssumption`, `ExitAssumption`, `PageAssumption`, `RequestAssumption`,
`RustPagesAssumption`, `OutAssumption`, `InAssumption`, `StringsAssumption`; `WallocAssumption`: a page has
more than two chunks). The others say what the code
has in any build:

* `WordAssumption`: half of a power of two above 1 is one.
* `TextAssumption`: fputc has one character, fputs a string and a newline.
* `ClockAssumption`: a second is a whole number of microseconds.
* `CalendarAssumption`: an hour is a whole number of minutes, a day of hours, and
  `INT_MAX` is at least 40000. The first test of `__secs_to_tm` cuts off what is more
  than an int of years of 366 days away; with an int shorter than that it would cut
  off years whose number fits, and the theorem would be false.
* `NumbersAssumption`: a text is a sequence of characters, and the limit of the powers of
  ten is below the largest number that the bits of `exp` hold.
* `FloatsAssumption`: `2 ^ (ExpBits - 1) > 3 * MantBits + 6`, as 1024 > 3 * 52 + 6. With
  fewer exponents the three factors of scalbn would not bring the largest float down to
  zero, and the theorem would be false.
* `MathBitsAssumption`: the low word is no longer than the mantissa; below `PowTiny` the
  exponents are of numbers less than 1, and from `PowHuge` on those of even integers.

**MutexProofs**, for any set of threads, with deadlines, EINTR and spurious
compare-exchange failures. The inductive invariant is the conjunction of
`TypeOK`, `MutualExclusion`, `WordTellsOwner` and `NoLostWakeup`: the four hold
each other up. Exclusion needs to know that an owner makes the word non-zero; that
an unlock's decrement leaves 1 and not 2 or a wrapped value needs exclusion and the
type; that the store of UNLOCKED loses no mark needs the wake that is still to come
to count in `NoLostWakeup`. From it follow `TypeCorrect`, `MutexExcludes`,
`NoWakeupIsLost`, `WordIsTrue`, and the refinement `MutexIsALock`: every step maps to a step of
`AbstractLock` or changes neither its owners nor its waiters.

For the condition variable and the latch: every step of Cond is a step of Mutex or
leaves Mutex's variables alone (`CondUsesMutex`), and every step of Latch is one of Cond
(`LatchUsesCond`), so that whatever is proved of the mutex holds inside waits too.
`BroadcastMissesNobody` needs only a look at what each step does to the word and to the
sleepers. For the latch, `LatchInv` ties the flag, the notification and the places of
the threads together: a waiter read the word with the mutex held before the flag was
set, so the notification is still to come, or it has changed the word.

**ExitProofs**: `CallsAreInOrder` and `OutputIsFlushed`, for tables of any length with
NULLs anywhere, any number of threads and any registrations. The invariant's core is
`OrderInv`: what has been called, followed by what the code still has before it, is
what the order demands. `Called`, which skips NULLs, is a recursive
function; `CalledSteps` shows what it does with one more element by taking the first
prefix where it would not.

**OutFileProofs**: `OutNothingIsLost`, `OutCallsContiguous`, `OutResultsAreTrue` and
`OutLinesAreOut`, for any buffer, any set of jobs and threads, with writes that are short
or fail. `OutInv` adds to them that the thread inside the functions holds the
lock, where its job stands in its text, which calls the bytes in the buffer come
from, and that the bytes a call has counted are those it has stored.

**WallocProofs**: `LiveObjectsApart`, `ListsAreSound`, `FreeObjectsStayMerged`,
`ObjectsBigEnough` and `AssertsAlwaysHold`, for pages of any size above two chunks,
requests of any sizes and any number of live objects, with either brk and a kernel that
grants or refuses. None of the five is inductive: where a large object ends is told by
its own header, whether the next chunk begins an object by the header of its page, which
may have been overwritten, and whether that object is free by a list. `WallocInv` says
that there is a **tiling** on which they agree: a function `f` from the chunk where an
item begins to the one where it ends. Items do not overlap; each begins behind the
header of a page, and ends at the end of a page or, in its first page, where another
item begins; and no item covers the header of a page in which another begins, which is
why scribbling owners do no harm (`ScribbleState`). `State` then says that each item is
a chunk of small objects, or a large object whose size field is right; that the large
freelist has exactly the free ones; that the small lists have slots of chunks of their
kind; and that each object in use is such a slot, in no list, or a used large item, no
two of them the same.

A call passes through states in which an item belongs to nobody. `State` therefore has
a parameter `X`, the items in hand, of whose headers nothing is said. What the code
does is then a sequence of small moves, each a lemma: take an item off a list
(`TakeOff`, `PoppedState`), make it a used object (`Settle`), let it go (`LetGo`), put it on
a list (`PushLarge`, `PushWhole`), cut it (`CutState`), join it with the next (`Absorbed`),
add one for fresh pages (`AddState`). The places where a split may cut are worked
out once (`SplitState` with `SplitHeadState` and `SplitPagesState`); that the code's bytes and
remainders modulo the page size are those places is `ChunkBytes`, `WholeChunksOf` and
`LastPage`. Compaction is an invariant of its turns (`TurnState`): the objects before the
one whose turn it is are followed by no free one in their page (`Over`), and twice the
length of the list less the place in it is below the number of turns that are left
(`Looking`), so that the turns end at the end of the list (`TurnsState`). There no two
free objects are beside each other (`Spread`), which splitting keeps (`SpreadCut`)
and the invariant says of every heap whose pending flag is clear (`Merged`). The lists' facts
(`Pushed`, `Popped`, `Removed`) are stated for any list without repetitions.

The theorems say what the runs check and what the model leaves in: sizes do not
overflow, and the `ASSERT` of `walloc.c:300` is not among them, for it fails.

**ComponentProofs** has seven components:

* *Once*: the routine runs at most once, no sleeper is forgotten, and a thread that
  only a wake can end returns after the routine. The invariant strengthens these with
  what the word says about where the initializer stands (PENDING from the
  compare-exchange to the store) and with `done` from "publish" on.
* *InFile*: `InNothingIsLost`, `InCallsTakeLines` and `InEmptyMeansEmpty`, for any source,
  any buffer and any number of readers. `InInv` says which bytes of the source are in
  the buffer, and that what a call has taken is a contiguous part of the source that
  ends where the buffer starts; `AllOfLine` that a line of `read_line`, which takes the
  lock more than once, is in order all the same.
* *Clock*: `DeadlinesAreKept`, for any clock, delay and width of a word. It is stated
  for `Backends = {"x86_64"}`: of the Rust system calls it is false, which is the last
  counterexample below.
* *Calendar*: `DatesAreTrue`: for every number of seconds, positive or negative, however
  large, `localtime` gives the date the seconds stand for, or fails exactly when the
  year is no int. The code takes 400, 100, 4 and 1 years off a count of days from March
  2000; the reference counts days from 1970 by the rule of leap years. `CycleBounds` says
  that each quotient, with its correction for the last day of a cycle, is a place
  in its cycle; `YearParts` and `LeapsCount` that leap years counted by the parts are
  those of the rule; `DateOfDay` that month and day agree; `YearsFit` that the test for
  overflow at the beginning cuts off only what the test at the end would.
* *Division*: `LoopIsSound` and `DivisionIsTruncating`, for words of any width.
  The loop keeps `quot * d + num = n`, `den = d * qbit` and `num < 2 * den` for the
  magnitudes `n` and `d` of the operands; when `qbit` reaches 0, `num < d` is left
  over from the last turn. `QuotientBound` shows that a signed quotient fits
  its half of the words, except in the one division that overflows.
* *PageAlloc*: `GrantsDisjoint` and `GrantsUsable` for any page size, first break and
  sequence of requests, granted and refused. The two are not inductive: a request that
  the kernel refuses moves `heap_end` and leaves the break, so nothing in them relates
  what has been granted to where the next grant begins. `PagesInv` adds that everything
  granted ends at or below both `heap_end` and the break, and that `brk_end` is what the
  kernel last answered. `AlignUpBounds` and `GetPagesIsSound`, in **ArenaProofs**, are the
  lemmas on the operators; Walloc's proofs use them too.
* *RustPages*: `BorrowsAreSound` holds of any number of borrowers, in the buffer or with
  a mapping each, and between the two atomic operations of a borrow. `RustInv` says that
  the index of the heap is where the last loan ends, as a function of everything that has
  been lent (`Reach`), and is 0 or aligned. A loan begins at or after that place, so it
  cannot meet an earlier one.

**TextProofs** is about the functions on text, for memories and texts of any length:

* *Strings*: `StringsAsInC` of every call on every memory. The code's loops are
  recursive functions of an address; where one stops is the least address at which its
  test fails (`EndsOnce`, `SkipEnds`), and a copy has moved, at every address below,
  what the reference's sequence has there. The first place in which two strings differ,
  by which C orders them, is the one at which the comparing loop stops. The property claims
  nothing where the code leaves C (section 5): the order memcmp gives to blocks that first
  differ in the sign of a char, codes that are no chars, strrchr for the terminator or on an
  empty string, a memchr that finds nothing in more than one char, and an empty string
  sought in an empty one.
* *Numbers*: `NumbersAsInC` of every text, with what it leaves open: the end before a bare
  `e`, the value behind zeros that count among the digits, and 0 or very small numbers at
  the limits of the powers. `StrtodIs` says at which places the loops of
  strtod stop, by the classes of the characters alone (`Marks`); `Longest` that these
  are the ends of one division of the text, and that every other one ends earlier, so
  that C's longest is the code's. `ValueJoins` and `FractionIs` then relate the value
  that the two collected integers make, with the digits that are dropped
  (`DroppedIs`) divided away, to the value of all the digits, and `RangeIs` the
  exponent that is halved and squared to the limits of the reference.

No induction theorem is needed for either. That a recursive function exists
(`StepsExist`), and that it has the value claimed of every number, is proved by looking
at the least number for which it would not.

**MathProofs**: `MathFollowsC`, which is `MathAsInC` of every function of MathBits on all
floats of any width that `FloatsAssumption` allows. Its argument is about magnitudes. A finite float has the integer
value `V(x)`, counted in smallest subnormals, and what the processor adds is the float
nearest to the sum (`NearestIs` says which one that is, `SumIs` what it makes of two
values). Where the sum is a float the operation is exact (`SumExact`), and values can be computed
with. In floor, ceil, rint and round there is one sum that is not exact, with 1/EPS, and
taking 1/EPS away again leaves the nearest even integer; the corrections that follow
look at the sign of a difference that is exact. Its main parts:

* `ScalbnIs`: scalbn rounds once. Of the at most three products, those before the last
  are exact, overflow for good, or are so far down that zero follows anyway.
* `FmodIs`: the number that the loop of fmod holds is congruent to what is left of the
  first operand and below twice the second, so that the last turn leaves the exact
  remainder, which needs no rounding wherever its exponent lies (`RemainderIs`, `RestoredIs`).
* `SqrtIs`: what wraps around in the difference of two products is small
  (`WrappedSign`), and its sign decides on which side of the middle between two floats the
  root lies (`RootBetween`), for every approximation that the comment allows.
* `MathFollowsC` has the special cases of pow and atan2 too, of which the hard part is
  `CheckintIs`: the bits that checkint masks say whether y is an odd integer.

Only model-checked:

* everything temporal under fairness (`EveryCallReturns` of Mutex, Once and OutFile,
  `LatchOpens`, `ExitEnds`): the provers have no rule for ENABLED;
* `PutsOutAsInC`: what `_ntoa`, `_ftoa` and `_etoa` put out is built by folds over digits
  on fractions, and its reference by others, for the directives of a finite list;
* that the properties of the seven violation runs hold of nothing: a counterexample is
  a run, not a proof.

## 5. What the checks found

Seven runs end in a counterexample, where the code does not do what a comment
or a declaration beside it says:

1. `MCOnce_interrupted`: "Wait for it to finish" (`once.c:23-24`). A FUTEX_WAIT
   that ends with EINTR makes `pthread_once` return while the routine still runs:
   `__wait` is called once, its result is lost and the word is not read again.
2. `MCCond_renotified`: "Wait, but only if there hasn't been any notification
   since we unlocked the mutex" (`cond.c:35-36`). The bit that signal and
   broadcast set is never cleared, and `pthread_cond_timedwait` uses the word
   without advancing a counter, so from the second notification on the word does not
   change: a waiter goes to sleep past it, and no wake is sent.
3. `Walloc_lost`: "push the chunk back on the GRANULES_32 small object
   freelist" (`walloc.c:191-193`). When the split that leaves a single chunk was
   itself made to fill the GRANULES_32 list, `allocate_small` stores the obtained
   chunk over the head of that list at line 416 and the pushed chunk is lost.
4. `Walloc_tight`: "ASSERT(best_size >= size_with_header)" (`walloc.c:300`). The pages
   are asked for with the object's header counted in, and `best_size` has it taken
   off again, so that a request which leaves less than 16 bytes of its pages traps in
   a build without NDEBUG, although the object fits: `malloc(65249)` to `malloc(65264)` on a
   fresh heap.
5. `Numbers_extras`: "If the mantissa has more than 18 digits, ignore the extras, since
   they can't affect the value anyway" (`strtod.c:117-119`). Zeros in front count among the
   eighteen, so that 0.0000000000000000001 is read as 0.
6. `Numbers_end`: "*endPtr is filled in with the address of the next character after the
   last one that was part of the floating-point number" (`strtod.c:54-56`). An `e`, and a sign
   behind it, are read over whether digits follow or not: of `3em`, endPtr points at the `m`.
7. `Clock_rust`: `__wait(..., uint128_t timeout_nsec)` (`arch.h:7`, and `futex.h:17`
   passes nanoseconds). The `__wait` that the Rust bindings generate
   (`tiny-libc-macros/src/lib.rs:59`) multiplies by 1000 and calls the result
   microseconds, so that a timed wait asks for a sleep a million times too long.

Seen while modelling, without a statement in the repository that it contradicts;
the models do as the code does, and the properties are worded accordingly:

* `cond.c:38`: a timed wait whose deadline has passed *before* it sleeps returns
  ETIMEDOUT with the mutex unlocked; one that times out *in* its sleep returns 0
  with it locked. A caller that unlocks after either may release a lock that another
  thread holds. No comment says which is meant, so `Cond!CondWaitAbs` does as the code
  does and no property is about it.
* `entrypoint.c:74`: handlers run with `at_exit_mutex` held, so atexit or exit
  called from one never returns (`WaitsForItself`).
* `printf.c:828`: the terminating NUL is written to the FILE as well.
* `printf.c:820-823`: a format that ends inside a directive makes the parser take
  the NUL for a specifier and read on behind it (`RunOff`).
* `printf.c:211`: with `#`, zeros are taken away for the prefix, and where the
  digits fill the width exactly, digits: `%#3x` of 0x123 puts out `0x3`.
* `printf.c:198`: `-` drops the zeros that a precision asks for.
* `printf.c:616`: a negative precision from an argument counts as 0, in C it
  counts as none; `printf.c:798`: `%p` ignores its width.
* `printf.c:373`: a half rounds up without the carry that line 366 has for anything
  above a half. `printf("%.1f", 0.95)`, whose product 0.95 * 10 is exactly 9.5, puts
  out thirty zeros and `10`; compiled, the code does so too. A half between .0 and .1
  rounds up, to an odd decimal.
* `printf.c:471`: the conversion to int cuts the estimate of the exponent towards zero, and
  line 480 corrects it down only once. `%e` of 0.0099 puts out `0.990000e-02` and of 0.0999
  `0.999000e-01`.
* `printf.c:479`: the approximated power of ten is above 10^2, 10^3 and many others,
  and these numbers come out as `10.000000e+01` and so on; `%g` gives 100 as
  `100.0000`. Others are below: `%.1e` of 12.5, a half, gives `1.3e+01`, and `%.9e` of 0.015
  gives `1.499999972e-02`. A mantissa like 9.999 rounds to `10.00e+00`.
* `printf.c:473`: `%e` and `%g` of 0 have the exponent `-308`.
* `printf.c:505`: `%g` without a precision keeps a decimal too many in the style of e,
  chooses the style without a look at the precision, and strips no zeros.
* `printf.c:352`: beyond 17 decimals zeros are put out, and from 49 on nothing else; a
  precision of 52 or more reads past `pow10`.
* `printf.c:323`: infinities ignore `% `, NaNs `%+`; with `0` neither is padded; -0 has
  no sign.
* `strtod.c:208`: the power of ten is infinite from 309 on, so that `0e400` is not a number,
  and `1000e-310` is 0; ERANGE is set from 512 on only, so that `1e400` is infinite without it.
  Hexadecimal numbers, infinities and NaNs are not read.
* `string.c`: `memcmp` orders signed chars (line 43); `strchr` and `memchr` compare with
  the int itself (54, 107); `strrchr` misses the terminator and runs off before an empty
  string (63); `memchr` never advances (106); `strstr` finds nothing in an empty
  string (114). `atoi` skips no blanks.
* `linux.rs:81`: `unixtime` takes the microseconds of gettimeofday for nanoseconds.
* `linux.rs:104`, `linux.rs:146`: a mapping that is not aligned is lent with more pages than
  it has room for behind the alignment, and the preallocated buffer is lent past its
  end (`BorrowsSound` says what holds of the rest).
* `io.rs:76`: two readers of lines may split a line between them, and a character, which
  then is EIO for both.
* `stdio.c:127`: fputs goes on to its newline when a failed flush cut the string
  short, and reports the full length (`ResultsAreTrue` says what holds).
* `assert.c:9`: the text of a failed assertion stays in stdout's buffer, since
  `_Exit` flushes nothing.

## 6. What is not modelled

* **Approximations.** exp, log, sin, cos, tan and their inverses, hyperbolic functions,
  cbrt and hypot of `math/`, the interior of pow and atan2 and the reduction by pi/2: they
  are floating-point polynomials over tables, C gives no exact result to compare with,
  and TLC has no reals. Likewise the rounding of strtod's last multiplication, and of
  the products in `_ftoa` (a half is one when the product is a half).
* **Sizes near 2^64**: `size_to_granules` (`walloc.c:434`) and the product in calloc
  (`stdlib.c:26`) overflow; the heap model would need addresses of both sizes at once.
* **The memory that locks guard**: every atomic operation of the library is
  sequentially consistent, so steps interleave; data of the callers is not modelled.
* `assert.c`, `_Exit` (the text of a failed assertion stays in the buffer), `errno.c`,
  `fenv.c`, `isalpha`, `__stack_chk_fail`, the panic handler and the cfg features of the
  Rust crates, calls of the bindings that pass their arguments on, build scripts and
  demo programs: one variable, one expression, or nothing to state.
* Exponents in the text of a number that overflow an int: undefined, and left out.

## 7. Plan

Done, in this order: Mutex with its refinement and proofs, Once with proofs, Cond
and Latch, Exit, Arena with PageAlloc and its proofs, Walloc, OutFile, InFile,
Division with its proofs, Calendar, Printf; then read_line and print! of the Rust
bindings in InFile and OutFile, RustPages, Clock, Numbers, Strings, Floats with
MathBits, and Conversions with the doubles of printf and the buffer of snprintf; then
the proofs of Cond, Latch, Exit, OutFile, InFile, Clock, Calendar, RustPages, Walloc,
Strings, Numbers and MathBits.

Next:

1. **Sizes**: malloc and calloc on words that wrap around, as functions of the size alone.
2. **A compound stdio**: OutFile on the steps of Mutex instead of an atomic lock, two FILEs
   and exit's flush.
