------------------------------- MODULE Latch -------------------------------
(***************************************************************************)
(* The use of a condition variable that cond.c supports: a flag that is    *)
(* set once.  Waiters run                                                  *)
(*                                                                         *)
(*   lock(m); while (!ready) cond_wait(c, m); unlock(m);                   *)
(*                                                                         *)
(* and the notifier runs                                                   *)
(*                                                                         *)
(*   lock(m); ready = 1; unlock(m);                                        *)
(*                                                                         *)
(* with the notification before or after its unlock.  The waits, the       *)
(* notification and the locks are the steps of modules Cond and Mutex.     *)
(* job[t] is where a thread stands in its own program: "start", "inside"   *)
(* from the moment it owns the mutex, "leaving" from its unlock on, "done".*)
(* Signal wakes one thread, so it is used only where one waits at most.    *)
(***************************************************************************)
EXTENDS Cond, FiniteSets

CONSTANT Notifier    \* the thread that sets the flag

ASSUME LatchAssumption == Notifier \in Threads /\ IsFiniteSet(Threads)

VARIABLES
  crew,     \* the threads that wait for the flag in this run
  ready,    \* the flag, guarded by the mutex
  told,     \* has the notifier called signal or broadcast?
  job       \* where each thread stands in its program

latchVars == <<condVars, crew, ready, told, job>>

Present == crew \cup {Notifier}

LatchInit ==
  /\ CondInit
  /\ crew \in SUBSET (Threads \ {Notifier})
  /\ ready = FALSE
  /\ told = FALSE
  /\ job = [t \in Threads |-> "start"]

Begin(t) ==
  /\ job[t] = "start"
  /\ stage[t] = "none"
  /\ TimedLock(t, "none") \/ (pc[t] # "held" /\ Run(t))
  /\ job' = [job EXCEPT ![t] = IF pc'[t] = "held" THEN "inside" ELSE "start"]
  /\ UNCHANGED <<condOnly, ready, told>>

\* The waiter's loop condition is false: wait again.
WaitReady(t) ==
  /\ t \in crew
  /\ job[t] = "inside"
  /\ ~ready
  /\ CondWait(t, "none")
  /\ UNCHANGED <<ready, told, job>>

SetReady ==
  /\ job[Notifier] = "inside"
  /\ ~ready
  /\ ready' = TRUE
  /\ UNCHANGED <<condVars, told, job>>

\* The notification, before the unlock or after it.
Tell(n) ==
  /\ ready
  /\ ~told
  /\ n = "signal" => Cardinality(crew) <= 1
  /\ Notify(Notifier, n)
  /\ told' = TRUE
  /\ UNCHANGED <<ready, job>>

End(t) ==
  /\ job[t] \in {"inside", "leaving"}
  /\ stage[t] = "none"
  /\ ready
  /\ Unlock(t) \/ StoreUnlocked(t) \/ WakeOne(t)
  /\ job' = [job EXCEPT ![t] = IF pc'[t] = "out" THEN "done" ELSE "leaving"]
  /\ UNCHANGED <<condOnly, ready, told>>

\* What thread t does when it is scheduled.
LatchRun(t) ==
  \/ Begin(t)
  \/ WaitReady(t)
  \/ t = Notifier /\ (SetReady \/ \E n \in Notifications : Tell(n))
  \/ End(t)
  \/ CondRun(t) /\ UNCHANGED <<ready, told, job>>

LatchNext ==
  /\ \E t \in Present :
       \/ LatchRun(t)
       \/ (Environment(t) \/ CondEndSleep(t)) /\ UNCHANGED <<ready, told, job>>
  /\ UNCHANGED crew

\* The compare-exchange of a retry takes the mutex.
Acquire(t) == LatchRun(t) /\ pc[t] = "retry" /\ pc'[t] = "held"

\* Every thread that can run is scheduled, and a weak compare-exchange does not
\* fail spuriously for ever.
LatchSpec ==
  /\ LatchInit
  /\ [][LatchNext]_latchVars
  /\ \A t \in Threads :
       /\ WF_latchVars(t \in Present /\ LatchRun(t) /\ UNCHANGED crew)
       /\ SF_latchVars(t \in Present /\ Acquire(t) /\ UNCHANGED crew)

-----------------------------------------------------------------------------
(* Properties.                                                             *)

\* No notification is missed: once the flag is set, a thread asleep on the
\* condition is one the notifier has yet to wake, although the flag is set,
\* the word is read and the sleep begins in different threads and steps.
LatchReachesSleepers ==
  ready /\ Dozers # {} =>
    ~told \/ stage[Notifier] \in {"signal", "broadcast"}

\* The kernel stops ending sleeps by itself at some time: an endless storm of
\* signals could keep a waiter taking the mutex ahead of the notifier.
Calm == <>[][~ \E t \in Threads : EndSleep(t) \/ CondEndSleep(t)]_latchVars

\* Every thread gets through its program: the notifier sets the flag, and every
\* waiter sees it.
LatchOpens == Calm => <>(\A t \in Present : job[t] = "done")
=============================================================================
