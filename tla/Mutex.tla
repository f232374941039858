------------------------------- MODULE Mutex -------------------------------
(***************************************************************************)
(* pthread_mutex_t (libc/src/pthread/mutex.c): a 32-bit futex word that is *)
(* UNLOCKED, LOCKED_NO_WAIT or LOCKED_WAIT, and the Linux futex it sleeps  *)
(* on (libc/src/pthread/futex.h, __wait and __wake of                      *)
(* libc/arch/x86_64-linux.c).                                              *)
(*                                                                         *)
(* Every step is one atomic operation on the word, one system call or one  *)
(* read of the clock, so the steps of different threads interleave where   *)
(* the code lets them.  pc[t] is where thread t stands:                    *)
(*                                                                         *)
(*   "out"     in no mutex call, without the lock                          *)
(*   "body"    at the top of the do-while of pthread_mutex_timedlock       *)
(*   "wait"    about to call __wait_abs                                    *)
(*   "futex"   about to enter FUTEX_WAIT                                   *)
(*   "asleep"  in the kernel's queue of the word                           *)
(*   "retry"   about to evaluate the condition of the do-while             *)
(*   "held"    owns the lock, in no mutex call                             *)
(*   "store"   in unlock, after a fetch_sub that found LOCKED_WAIT         *)
(*   "wake"    in unlock, about to call __wake                             *)
(***************************************************************************)
EXTENDS Naturals

CONSTANTS
  Threads,
  WordSize,      \* how many values the futex word has: 2^32 in the code
  Timeouts,      \* may callers pass an absolute deadline?
  Interrupts,    \* may FUTEX_WAIT return with no wake (EINTR, spurious)?
  WeakCASFails   \* may a weak compare-exchange fail spuriously?

ASSUME MutexAssumption ==
  /\ WordSize \in Nat /\ WordSize > 2
  /\ {Timeouts, Interrupts, WeakCASFails} \subseteq BOOLEAN

VARIABLES
  mutex,      \* the futex word
  pc,         \* where each thread stands
  c,          \* the local variable c of pthread_mutex_timedlock
  deadline    \* abstime: "none" (NULL), "future" or "past"

mutexVars == <<mutex, pc, c, deadline>>

UNLOCKED       == 0
LOCKED_NO_WAIT == 1
LOCKED_WAIT    == 2

Locations == {"out", "body", "wait", "futex", "asleep", "retry", "held",
              "store", "wake"}

Goto(t, l) == pc' = [pc EXCEPT ![t] = l]

\* The threads the kernel has queued on the word.
Sleepers == {t \in Threads : pc[t] = "asleep"}

\* The word after atomic_fetch_sub(mutex, 1), which wraps.
Decremented == IF mutex = 0 THEN WordSize - 1 ELSE mutex - 1

Init ==
  /\ mutex = UNLOCKED
  /\ pc = [t \in Threads |-> "out"]
  /\ c = [t \in Threads |-> UNLOCKED]
  /\ deadline = [t \in Threads |-> "none"]

-----------------------------------------------------------------------------
(* pthread_mutex_lock (d = "none"), pthread_mutex_timedlock.               *)

\* Entry of the call and the first compare-exchange.
TimedLock(t, d) ==
  /\ pc[t] = "out"
  /\ \/ /\ mutex = UNLOCKED
        /\ mutex' = LOCKED_NO_WAIT
        /\ Goto(t, "held")
        /\ UNCHANGED <<c, deadline>>
     \/ /\ mutex # UNLOCKED
        /\ c' = [c EXCEPT ![t] = mutex]
        /\ deadline' = [deadline EXCEPT ![t] = d]
        /\ Goto(t, "body")
        /\ UNCHANGED mutex

\* c == LOCKED_WAIT: the word is already marked, no swap.
SkipSwap(t) ==
  /\ pc[t] = "body"
  /\ c[t] = LOCKED_WAIT
  /\ Goto(t, "wait")
  /\ UNCHANGED <<mutex, c, deadline>>

\* Faulty: marks the word with an addition instead of a compare-exchange.
SwapByAdding(t) ==
  /\ pc[t] = "body"
  /\ c[t] # LOCKED_WAIT
  /\ mutex' = mutex + 1
  /\ Goto(t, IF mutex # UNLOCKED THEN "wait" ELSE "retry")
  /\ UNCHANGED <<c, deadline>>

\* atomic_compare_swap(mutex, LOCKED_NO_WAIT, LOCKED_WAIT) != UNLOCKED.
Swap(t) ==
  /\ pc[t] = "body"
  /\ c[t] # LOCKED_WAIT
  /\ mutex' = IF mutex = LOCKED_NO_WAIT THEN LOCKED_WAIT ELSE mutex
  /\ Goto(t, IF mutex # UNLOCKED THEN "wait" ELSE "retry")
  /\ UNCHANGED <<c, deadline>>

\* __wait_abs reads the clock: a deadline in the past ends the call with
\* ETIMEDOUT, anything else goes on to the system call.
WaitAbs(t) ==
  /\ pc[t] = "wait"
  /\ \/ /\ deadline[t] = "past"
        /\ c' = [c EXCEPT ![t] = UNLOCKED]
        /\ deadline' = [deadline EXCEPT ![t] = "none"]
        /\ Goto(t, "out")
     \/ /\ deadline[t] # "past"
        /\ Goto(t, "futex")
        /\ UNCHANGED <<c, deadline>>
  /\ UNCHANGED mutex

\* FUTEX_WAIT: sleep if the word still is LOCKED_WAIT, else EAGAIN.
FutexWait(t) ==
  /\ pc[t] = "futex"
  /\ Goto(t, IF mutex = LOCKED_WAIT THEN "asleep" ELSE "retry")
  /\ UNCHANGED <<mutex, c, deadline>>

\* The kernel ends the sleep of t itself: its timeout has run out, or EINTR.
\* __wait drops the system call's result, so the caller cannot tell.
EndSleep(t) ==
  /\ pc[t] = "asleep"
  /\ Interrupts \/ deadline[t] = "past"
  /\ Goto(t, "retry")
  /\ UNCHANGED <<mutex, c, deadline>>

\* Faulty: leaves out the reset of c before the compare-exchange.
RetryWithoutReset(t) ==
  /\ pc[t] = "retry"
  /\ IF mutex = c[t]
       THEN /\ mutex' = LOCKED_WAIT
            /\ deadline' = [deadline EXCEPT ![t] = "none"]
            /\ Goto(t, "held")
            /\ UNCHANGED c
       ELSE /\ c' = [c EXCEPT ![t] = mutex]
            /\ Goto(t, "body")
            /\ UNCHANGED <<mutex, deadline>>

\* Faulty: takes the lock without recording that others may still wait.
RetryUnmarked(t) ==
  /\ pc[t] = "retry"
  /\ IF mutex = UNLOCKED
       THEN /\ mutex' = LOCKED_NO_WAIT
            /\ deadline' = [deadline EXCEPT ![t] = "none"]
            /\ Goto(t, "held")
            /\ UNCHANGED c
       ELSE /\ c' = [c EXCEPT ![t] = mutex]
            /\ Goto(t, "body")
            /\ UNCHANGED <<mutex, deadline>>

\* c = UNLOCKED and the weak compare-exchange from UNLOCKED to LOCKED_WAIT.
Retry(t) ==
  /\ pc[t] = "retry"
  /\ \/ /\ mutex = UNLOCKED
        /\ mutex' = LOCKED_WAIT
        /\ deadline' = [deadline EXCEPT ![t] = "none"]
        /\ Goto(t, "held")
        /\ c' = [c EXCEPT ![t] = UNLOCKED]
     \/ /\ mutex # UNLOCKED \/ WeakCASFails
        /\ c' = [c EXCEPT ![t] = mutex]
        /\ Goto(t, "body")
        /\ UNCHANGED <<mutex, deadline>>

-----------------------------------------------------------------------------
(* pthread_mutex_trylock and pthread_mutex_unlock.                         *)

\* Faulty: takes any lock that nobody has marked.
TryLockUnmarked(t) ==
  /\ pc[t] = "out"
  /\ mutex # LOCKED_WAIT
  /\ mutex' = LOCKED_NO_WAIT
  /\ Goto(t, "held")
  /\ UNCHANGED <<c, deadline>>

\* A trylock that finds the word taken returns EBUSY and changes nothing.
TryLock(t) ==
  /\ pc[t] = "out"
  /\ mutex = UNLOCKED
  /\ mutex' = LOCKED_NO_WAIT
  /\ Goto(t, "held")
  /\ UNCHANGED <<c, deadline>>

\* Faulty: releases the word and never looks for sleepers.
UnlockSilently(t) ==
  /\ pc[t] = "held"
  /\ mutex' = UNLOCKED
  /\ Goto(t, "out")
  /\ UNCHANGED <<c, deadline>>

\* atomic_fetch_sub(mutex, 1): done if it found LOCKED_NO_WAIT.
Unlock(t) ==
  /\ pc[t] = "held"
  /\ mutex' = Decremented
  /\ Goto(t, IF mutex # LOCKED_NO_WAIT THEN "store" ELSE "out")
  /\ UNCHANGED <<c, deadline>>

\* Faulty: leaves the decremented word instead of storing UNLOCKED.
StoreForgotten(t) ==
  /\ pc[t] = "store"
  /\ Goto(t, "wake")
  /\ UNCHANGED <<mutex, c, deadline>>

StoreUnlocked(t) ==
  /\ pc[t] = "store"
  /\ mutex' = UNLOCKED
  /\ Goto(t, "wake")
  /\ UNCHANGED <<c, deadline>>

\* __wake(mutex, 1): the kernel wakes one sleeper, if there is one.
WakeOne(t) ==
  /\ pc[t] = "wake"
  /\ \/ /\ Sleepers = {}
        /\ Goto(t, "out")
     \/ \E s \in Sleepers : pc' = [pc EXCEPT ![t] = "out", ![s] = "retry"]
  /\ UNCHANGED <<mutex, c, deadline>>

-----------------------------------------------------------------------------
(* The clock passes the deadline of a call in progress.                    *)
Expire(t) ==
  /\ deadline[t] = "future"
  /\ deadline' = [deadline EXCEPT ![t] = "past"]
  /\ UNCHANGED <<mutex, pc, c>>

\* The deadlines a caller can pass: none, one ahead, one already past.
Deadlines == IF Timeouts THEN {"none", "future", "past"} ELSE {"none"}

\* A thread starts a lock call; nothing obliges it to.
Call(t) == TryLock(t) \/ \E d \in Deadlines : TimedLock(t, d)

\* The steps a thread takes inside the library, and its unlock.
Run(t) ==
  \/ SkipSwap(t) \/ Swap(t) \/ WaitAbs(t) \/ FutexWait(t) \/ Retry(t)
  \/ Unlock(t) \/ StoreUnlocked(t) \/ WakeOne(t)

Next == \E t \in Threads : Call(t) \/ Run(t) \/ EndSleep(t) \/ Expire(t)

Spec == Init /\ [][Next]_mutexVars

\* The compare-exchange of a retry takes the lock.
Succeed(t) == Retry(t) /\ pc'[t] = "held"

(***************************************************************************)
(* Fairness: the kernel schedules every runnable thread, a thread that     *)
(* holds the lock goes on to unlock it, and a weak compare-exchange that   *)
(* finds the value it expects again and again does not fail spuriously     *)
(* for ever (on x86-64 it never does).  Nothing obliges a thread to call,  *)
(* a clock to pass a deadline or a signal to arrive.                       *)
(***************************************************************************)
FairSpec ==
  Spec /\ \A t \in Threads : WF_mutexVars(Run(t)) /\ SF_mutexVars(Succeed(t))

-----------------------------------------------------------------------------
(* Properties.                                                             *)

\* The word and the control state stay in range: in particular the word
\* never leaves the three values the code knows, whatever the interleaving.
TypeOK ==
  /\ mutex \in {UNLOCKED, LOCKED_NO_WAIT, LOCKED_WAIT}
  /\ pc \in [Threads -> Locations]
  /\ c \in [Threads -> {UNLOCKED, LOCKED_NO_WAIT, LOCKED_WAIT}]
  /\ deadline \in [Threads -> {"none", "future", "past"}]

\* The threads that own the lock.  An unlocker that found LOCKED_WAIT still
\* does until its store: the fetch_sub alone leaves the word locked.
Owners == {t \in Threads : pc[t] \in {"held", "store"}}

\* The threads in a lock call that found the lock taken.
Waiting == {t \in Threads : pc[t] \in {"body", "wait", "futex", "asleep", "retry"}}

\* At most one thread owns the lock.
MutualExclusion == \A t, u \in Owners : t = u

\* The word says whether the lock is owned: it is UNLOCKED exactly when
\* nobody does, also in the middle of an unlock.
WordTellsOwner == (mutex = UNLOCKED) <=> (Owners = {})

\* A thread that will look at the word again before it can sleep and that,
\* if it then sleeps or returns, leaves the word marked LOCKED_WAIT.
WillMark(t) == \/ pc[t] = "retry"
               \/ pc[t] = "body" /\ c[t] # LOCKED_WAIT

\* No lost wake-up: while a thread sleeps on the word, the word is marked so
\* that the next unlock wakes, or an unlock that has yet to wake is under
\* way, or a thread is about to mark the word.  A sleeper is never forgotten,
\* not even when the thread woken for it loses the race for the lock, times
\* out or is interrupted.
NoLostWakeup ==
  Sleepers # {} =>
    \/ mutex = LOCKED_WAIT
    \/ \E t \in Threads : pc[t] \in {"store", "wake"} \/ WillMark(t)

\* A mutex implements the abstract lock.
Lock == INSTANCE AbstractLock WITH owners <- Owners, waiting <- Waiting
ImplementsLock == Lock!Spec

\* When threads stop starting new calls, every lock call in progress returns:
\* nobody is left asleep beside a lock that has become free.
NoNewCalls == <>[][~ \E t \in Threads : Call(t)]_mutexVars
EveryCallReturns == NoNewCalls => <>[](Waiting = {})
=============================================================================
