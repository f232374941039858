-------------------------------- MODULE Cond --------------------------------
(***************************************************************************)
(* pthread_cond_t (libc/src/pthread/cond.c) on top of the futex mutex of   *)
(* module Mutex: the unlock and the relock of a wait are the steps of that *)
(* module, interleaved with every other thread's.                          *)
(*                                                                         *)
(* stage[t] is where thread t stands in a call of cond.c:                  *)
(*                                                                         *)
(*   "none"       in no such call                                          *)
(*   "unlock"     in pthread_mutex_unlock, the word already read           *)
(*   "abs"        about to call __wait_abs                                 *)
(*   "enter"      about to enter FUTEX_WAIT on the condition's word        *)
(*   "dozing"     in the kernel's queue of that word                       *)
(*   "relock"     in pthread_mutex_lock                                    *)
(*   "signal"     about to call __wake(cond, 1)                            *)
(*   "broadcast"  about to call __wake(cond, INT32_MAX)                    *)
(***************************************************************************)
EXTENDS Mutex

CONSTANT Notifications    \* the calls in use: among "signal", "broadcast"

ASSUME CondAssumption == Notifications \subseteq {"signal", "broadcast"}

VARIABLES
  cond,       \* the condition's futex word
  stage,      \* where each thread stands
  value,      \* the local variable value: the word read before the unlock
  limit,      \* abstime of the wait: "none", "future" or "past"
  notified    \* history: the waiters notified since they unlocked the mutex

waitLocals == <<value, limit, notified>>
condOnly == <<cond, stage, value, limit, notified>>
condVars == <<mutexVars, condOnly>>

Enter(t, s) == stage' = [stage EXCEPT ![t] = s]

\* The threads the kernel has queued on the condition's word.
Dozers == {t \in Threads : stage[t] = "dozing"}

\* The waiters that have unlocked the mutex and not yet come back.
Released == {t \in Threads : stage[t] \in {"abs", "enter", "dozing"}}

Signaled == cond % 2 = 1

CondInit ==
  /\ Init
  /\ cond = 0
  /\ stage = [t \in Threads |-> "none"]
  /\ value = [t \in Threads |-> 0]
  /\ limit = [t \in Threads |-> "none"]
  /\ notified = {}

-----------------------------------------------------------------------------
(* pthread_cond_wait (d = "none") and pthread_cond_timedwait.              *)

\* The wait returns and its locals are gone.
Return(t) ==
  /\ Enter(t, "none")
  /\ value' = [value EXCEPT ![t] = 0]
  /\ limit' = [limit EXCEPT ![t] = "none"]
  /\ notified' = notified \ {t}

\* The caller owns the mutex; the word is read before the mutex is unlocked.
CondWait(t, d) ==
  /\ pc[t] = "held"
  /\ stage[t] = "none"
  /\ value' = [value EXCEPT ![t] = cond]
  /\ limit' = [limit EXCEPT ![t] = d]
  /\ Enter(t, "unlock")
  /\ UNCHANGED <<mutexVars, cond, notified>>

\* A step of the unlock inside the wait.
CondUnlock(t) ==
  /\ stage[t] = "unlock"
  /\ Unlock(t) \/ StoreUnlocked(t) \/ WakeOne(t)
  /\ IF pc'[t] = "out" THEN Enter(t, "abs") ELSE UNCHANGED stage
  /\ UNCHANGED <<cond, value, limit, notified>>

\* __wait_abs on the condition's word.  With the deadline past the wait
\* returns ETIMEDOUT at once, the mutex not locked again.
CondWaitAbs(t) ==
  /\ stage[t] = "abs"
  /\ \/ limit[t] = "past" /\ Return(t)
     \/ limit[t] # "past" /\ Enter(t, "enter") /\ UNCHANGED waitLocals
  /\ UNCHANGED <<mutexVars, cond>>

\* Faulty: sleeps whatever the word holds.
CondSleepUnchecked(t) ==
  /\ stage[t] = "enter"
  /\ Enter(t, "dozing")
  /\ UNCHANGED <<mutexVars, cond, value, limit, notified>>

\* FUTEX_WAIT: sleep if the word still is the one read before the unlock.
CondSleep(t) ==
  /\ stage[t] = "enter"
  /\ Enter(t, IF cond = value[t] THEN "dozing" ELSE "relock")
  /\ UNCHANGED <<mutexVars, cond, value, limit, notified>>

\* The kernel ends the sleep itself; __wait_abs returns 0 all the same.
CondEndSleep(t) ==
  /\ stage[t] = "dozing"
  /\ Interrupts \/ limit[t] = "past"
  /\ Enter(t, "relock")
  /\ UNCHANGED <<mutexVars, cond, value, limit, notified>>

\* A step of the pthread_mutex_lock that ends the wait.
Relock(t) ==
  /\ stage[t] = "relock"
  /\ TimedLock(t, "none") \/ (pc[t] # "held" /\ Run(t))
  /\ IF pc'[t] = "held" THEN Return(t) ELSE UNCHANGED <<stage, waitLocals>>
  /\ UNCHANGED cond

-----------------------------------------------------------------------------
(* pthread_cond_signal and pthread_cond_broadcast, with or without the     *)
(* mutex.                                                                  *)

\* atomic_fetch_or(cond, 1); only the call that finds the bit clear wakes.
Notify(t, n) ==
  /\ pc[t] \in {"out", "held"}
  /\ stage[t] = "none"
  /\ cond' = IF Signaled THEN cond ELSE cond + 1
  /\ IF Signaled THEN UNCHANGED stage ELSE Enter(t, n)
  /\ notified' = notified \cup Released
  /\ UNCHANGED <<mutexVars, value, limit>>

\* Faulty: a broadcast wakes one thread.
CondWakeFirst(t) ==
  /\ stage[t] \in {"signal", "broadcast"}
  /\ \/ Dozers = {} /\ Enter(t, "none")
     \/ \E s \in Dozers :
          stage' = [stage EXCEPT ![t] = "none", ![s] = "relock"]
  /\ UNCHANGED <<mutexVars, cond, value, limit, notified>>

\* __wake: one sleeper for a signal, all of them for a broadcast.
CondWake(t) ==
  /\ \/ /\ stage[t] = "signal"
        /\ \/ Dozers = {} /\ Enter(t, "none")
           \/ \E s \in Dozers :
                stage' = [stage EXCEPT ![t] = "none", ![s] = "relock"]
     \/ /\ stage[t] = "broadcast"
        /\ stage' = [s \in Threads |-> IF s = t THEN "none"
                                       ELSE IF s \in Dozers THEN "relock"
                                       ELSE stage[s]]
  /\ UNCHANGED <<mutexVars, cond, value, limit, notified>>

\* The clock passes the deadline of a wait.
CondExpire(t) ==
  /\ limit[t] = "future"
  /\ stage[t] # "none"
  /\ limit' = [limit EXCEPT ![t] = "past"]
  /\ UNCHANGED <<mutexVars, cond, stage, value, notified>>

\* A thread in no call of cond.c uses the mutex itself.
UseMutex(t) ==
  /\ stage[t] = "none"
  /\ Call(t) \/ Run(t)
  /\ UNCHANGED condOnly

\* What the clock and the kernel do to a thread in a mutex call.
Environment(t) == (EndSleep(t) \/ Expire(t)) /\ UNCHANGED condOnly

\* The library's own steps inside a call of cond.c.
CondRun(t) ==
  \/ CondUnlock(t) \/ CondWaitAbs(t) \/ CondSleep(t) \/ Relock(t)
  \/ CondWake(t)

CondNext == \E t \in Threads :
  \/ UseMutex(t) \/ Environment(t)
  \/ \E d \in Deadlines : CondWait(t, d)
  \/ \E n \in Notifications : Notify(t, n)
  \/ CondRun(t) \/ CondEndSleep(t) \/ CondExpire(t)

CondSpec == CondInit /\ [][CondNext]_condVars

-----------------------------------------------------------------------------
(* Properties.                                                             *)

\* Where only broadcasts are used, the first broadcast misses nobody: a
\* thread that sleeps although the word has changed since it read it sleeps
\* only until a wake that is already on its way.
BroadcastReachesAll ==
  \A t \in Dozers : value[t] # cond =>
    \E u \in Threads : stage[u] \in {"signal", "broadcast"}

\* "Wait, but only if there hasn't been any notification since we unlocked
\* the mutex" (cond.c:35-36): nobody goes to sleep who has been notified
\* since it unlocked the mutex.
SleepsUnnotified ==
  [][\A t \in Threads :
       stage[t] = "enter" /\ stage'[t] = "dozing" => t \notin notified]_condVars
=============================================================================
