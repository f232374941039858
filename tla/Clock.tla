------------------------------- MODULE Clock -------------------------------
(***************************************************************************)
(* The clock and the timed waits of the locks: clock_gettime and           *)
(* gettimeofday (libc/src/time.c), __wait_abs (libc/src/pthread/futex.h)   *)
(* and what they stand on, __unixtime_nsec and __wait, of which there are  *)
(* two: libc/arch/x86_64-linux.c, and the Rust bindings                    *)
(* (tiny-libc-macros/src/lib.rs and tiny-libc/src/linux.rs).               *)
(*                                                                         *)
(* A thread reads the clock, adds a delay and waits until that deadline,   *)
(* as pthread_mutex_timedlock does: again and again until ETIMEDOUT.  now  *)
(* is the time of the kernel in nanoseconds.                               *)
(***************************************************************************)
EXTENDS Integers

CONSTANTS
  NSEC,        \* 1000000000, the nanoseconds of a second
  USEC,        \* 1000, the nanoseconds of a microsecond
  HalfWord,    \* 2 ^ 63, half the values of a word
  Backends,    \* which of the two: a subset of {"x86_64", "rust"}
  Delays,      \* how long a thread may want to wait, in nanoseconds
  Starts,      \* times to begin at
  MaxTime      \* bound on the time

ASSUME ClockAssumption ==
  /\ USEC \in Nat \ {0} /\ NSEC \in Nat \ {0} /\ NSEC % USEC = 0
  /\ HalfWord \in Nat \ {0}
  /\ Backends \subseteq {"x86_64", "rust"}
  /\ MaxTime \in Nat /\ Delays \subseteq Nat /\ Starts \subseteq 0 .. MaxTime

VARIABLES
  backend, now,
  stage,      \* "idle", before "compute" or "sleep", "asleep", or "returned"
  abstime,    \* the deadline, a struct timespec
  timeout_nsec,   \* the argument of __wait
  aim,        \* history: the deadline the thread meant
  computed    \* history: when __wait_abs read the clock

clockVars == <<backend, now, stage, abstime, timeout_nsec, aim, computed>>

\* The result of a signed multiplication or addition that leaves the type is
\* undefined; it wraps around.
Wrapped(x) == ((x + HalfWord) % (2 * HalfWord)) - HalfWord

-----------------------------------------------------------------------------
\* The Rust bindings take the microseconds that gettimeofday tells for
\* nanoseconds.
__unixtime_nsec ==
  IF backend = "x86_64" THEN now
  ELSE (now \div NSEC) * NSEC + ((now % NSEC) \div USEC)

clock_gettime ==
  [tv_sec |-> __unixtime_nsec \div NSEC, tv_nsec |-> __unixtime_nsec % NSEC]
gettimeofday ==
  [tv_sec |-> clock_gettime.tv_sec, tv_usec |-> clock_gettime.tv_nsec \div USEC]

\* How long __wait asks the kernel to sleep, in nanoseconds.  The Rust bindings
\* take 1000 times the nanoseconds, in one word, for microseconds.
Asked(nsec) ==
  IF backend = "x86_64" THEN nsec
  ELSE USEC * ((USEC * nsec) % (2 * HalfWord))

\* Faulty: forgets the part of a second.
AbsNsecWhole(ts) == Wrapped(ts.tv_sec * NSEC)

\* abstime_nsec, in words although it is stored in two.
AbsNsec(ts) == Wrapped(Wrapped(ts.tv_sec * NSEC) + ts.tv_nsec)

-----------------------------------------------------------------------------
ClockInit ==
  /\ backend \in Backends /\ now \in Starts
  /\ stage = "idle"
  /\ abstime = [tv_sec |-> 0, tv_nsec |-> 0]
  /\ timeout_nsec = 0 /\ aim = 0 /\ computed = 0

Tick ==
  /\ now < MaxTime
  /\ now' = now + 1
  /\ UNCHANGED <<backend, stage, abstime, timeout_nsec, aim, computed>>

\* The caller reads the clock and adds its delay.
Begin(delay) ==
  /\ stage = "idle"
  /\ LET nsec == clock_gettime.tv_nsec + delay
     IN abstime' = [tv_sec |-> clock_gettime.tv_sec + nsec \div NSEC,
                    tv_nsec |-> nsec % NSEC]
  /\ aim' = now + delay
  /\ stage' = "compute"
  /\ UNCHANGED <<backend, now, timeout_nsec, computed>>

\* __wait_abs
Compute ==
  /\ stage = "compute"
  /\ LET rel == AbsNsec(abstime) - __unixtime_nsec IN
     IF rel <= 0 THEN stage' = "returned" /\ UNCHANGED timeout_nsec
                 ELSE stage' = "sleep" /\ timeout_nsec' = rel
  /\ computed' = now
  /\ UNCHANGED <<backend, now, abstime, aim>>

\* FUTEX_WAIT with Asked(timeout_nsec), which does not sleep when the word has
\* changed.
Sleep ==
  /\ stage = "sleep"
  /\ stage' \in {"asleep", "compute"}
  /\ UNCHANGED <<backend, now, abstime, timeout_nsec, aim, computed>>

\* The kernel ends the sleep: the time has come, or it was woken or interrupted
\* before, and finds the lock taken again.
Awake ==
  /\ stage = "asleep"
  /\ stage' = "compute"
  /\ UNCHANGED <<backend, now, abstime, timeout_nsec, aim, computed>>

ClockNext ==
  Tick \/ (\E delay \in Delays : Begin(delay)) \/ Compute \/ Sleep \/ Awake

ClockSpec == ClockInit /\ [][ClockNext]_clockVars

-----------------------------------------------------------------------------
\* Every timed wait keeps the caller's deadline: ETIMEDOUT comes when it has
\* passed and not before, and the kernel is asked to sleep for what was left of
\* it when the clock was read, never longer; the two clocks tell the kernel's
\* time, in seconds and a fraction of one.  Deadlines that do not fit a word
\* are left out.
TimedWaitsKeepTime ==
  aim < HalfWord =>
    /\ stage = "returned" => aim <= computed
    /\ stage \in {"sleep", "asleep"} => Asked(timeout_nsec) = aim - computed
    /\ now = clock_gettime.tv_sec * NSEC + clock_gettime.tv_nsec
    /\ now - (gettimeofday.tv_sec * NSEC + gettimeofday.tv_usec * USEC) \in 0 .. USEC - 1
    /\ gettimeofday.tv_usec \in 0 .. (NSEC \div USEC) - 1

\* arch.h calls the argument of __wait timeout_nsec: the kernel is asked to sleep
\* for that number of nanoseconds.
SleepsNanoseconds ==
  stage \in {"sleep", "asleep"} => Asked(timeout_nsec) = timeout_nsec
=============================================================================
