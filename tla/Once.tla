-------------------------------- MODULE Once --------------------------------
(***************************************************************************)
(* pthread_once (libc/src/pthread/once.c): a control word that goes from   *)
(* UNINITIALIZED through PENDING to INITIALIZED, the first caller runs the *)
(* routine and every other caller waits on the word's futex.               *)
(*                                                                         *)
(* place[t] is where thread t stands in its current call:                     *)
(*                                                                         *)
(*   "out"       in no call                                                *)
(*   "routine"   running init_routine                                      *)
(*   "publish"   init_routine has returned, INITIALIZED not yet stored     *)
(*   "wake"      about to call __wake                                      *)
(*   "futex"     found PENDING, about to enter FUTEX_WAIT                  *)
(*   "asleep"    in the kernel's queue of the word                         *)
(*   "returned"  back in the caller, which may use what was initialized    *)
(***************************************************************************)
EXTENDS Naturals

CONSTANTS
  Threads,
  Interruptible   \* those whose FUTEX_WAIT may end with no wake (EINTR)

ASSUME OnceAssumption == Interruptible \subseteq Threads

VARIABLES
  once,    \* the control word once_ctrl
  place,      \* where each thread stands
  begun,   \* how often init_routine has been entered
  done     \* has a run of init_routine returned?

onceVars == <<once, place, begun, done>>

UNINITIALIZED == 0
PENDING       == 1
INITIALIZED   == 2

Locations == {"out", "routine", "publish", "wake", "futex", "asleep",
              "returned"}

Goto(t, l) == place' = [place EXCEPT ![t] = l]

Sleepers == {t \in Threads : place[t] = "asleep"}

OnceInit ==
  /\ once = UNINITIALIZED
  /\ place = [t \in Threads |-> "out"]
  /\ begun = 0
  /\ done = FALSE

\* Faulty: reads the word first and stores PENDING afterwards without looking.
CallByStore(t) ==
  /\ place[t] = "out"
  /\ \/ /\ once # INITIALIZED
        /\ once' = PENDING
        /\ begun' = begun + 1
        /\ Goto(t, "routine")
     \/ /\ once # UNINITIALIZED
        /\ Goto(t, IF once = PENDING THEN "futex" ELSE "returned")
        /\ UNCHANGED <<once, begun>>
  /\ UNCHANGED done

\* Faulty: PENDING counts as run.
CallNoWait(t) ==
  /\ place[t] = "out"
  /\ \/ /\ once = UNINITIALIZED
        /\ once' = PENDING
        /\ begun' = begun + 1
        /\ Goto(t, "routine")
     \/ /\ once # UNINITIALIZED
        /\ Goto(t, "returned")
        /\ UNCHANGED <<once, begun>>
  /\ UNCHANGED done

\* The compare-exchange from UNINITIALIZED to PENDING and the switch.
Call(t) ==
  /\ place[t] = "out"
  /\ \/ /\ once = UNINITIALIZED
        /\ once' = PENDING
        /\ begun' = begun + 1
        /\ Goto(t, "routine")
     \/ /\ once # UNINITIALIZED
        /\ Goto(t, IF once = PENDING THEN "futex" ELSE "returned")
        /\ UNCHANGED <<once, begun>>
  /\ UNCHANGED done

\* init_routine returns; how long it runs is the caller's affair.
RoutineReturns(t) ==
  /\ place[t] = "routine"
  /\ done' = TRUE
  /\ Goto(t, "publish")
  /\ UNCHANGED <<once, begun>>

Publish(t) ==
  /\ place[t] = "publish"
  /\ once' = INITIALIZED
  /\ Goto(t, "wake")
  /\ UNCHANGED <<begun, done>>

\* Faulty: wakes a single sleeper.
WakeJustOne(t) ==
  /\ place[t] = "wake"
  /\ \E woken \in {{}} \cup {{s} : s \in Sleepers} :
       /\ woken = {} <=> Sleepers = {}
       /\ place' = [u \in Threads |->
                   IF u = t \/ u \in woken THEN "returned" ELSE place[u]]
  /\ UNCHANGED <<once, begun, done>>

\* __wake(once_ctrl, INT32_MAX): every sleeper returns.
WakeAll(t) ==
  /\ place[t] = "wake"
  /\ place' = [u \in Threads |->
              IF u = t \/ u \in Sleepers THEN "returned" ELSE place[u]]
  /\ UNCHANGED <<once, begun, done>>

\* Faulty: sleeps whatever the word holds.
FutexWaitUnchecked(t) ==
  /\ place[t] = "futex"
  /\ Goto(t, "asleep")
  /\ UNCHANGED <<once, begun, done>>

\* __wait(once_ctrl, PENDING, 0): sleep if the word still is PENDING; the
\* call returns 0 either way, without looking at the word again.
FutexWait(t) ==
  /\ place[t] = "futex"
  /\ Goto(t, IF once = PENDING THEN "asleep" ELSE "returned")
  /\ UNCHANGED <<once, begun, done>>

\* The kernel ends a sleep without a wake.
Interrupt(t) ==
  /\ t \in Interruptible
  /\ place[t] = "asleep"
  /\ Goto(t, "returned")
  /\ UNCHANGED <<once, begun, done>>

\* The caller goes on and may call again.
Leave(t) ==
  /\ place[t] = "returned"
  /\ Goto(t, "out")
  /\ UNCHANGED <<once, begun, done>>

Run(t) ==
  \/ RoutineReturns(t) \/ Publish(t) \/ WakeAll(t) \/ FutexWait(t)

OnceNext == \E t \in Threads : Call(t) \/ Run(t) \/ Interrupt(t) \/ Leave(t)

OnceSpec == OnceInit /\ [][OnceNext]_onceVars

\* The kernel schedules every runnable thread, and init_routine returns.
FairOnceSpec == OnceSpec /\ \A t \in Threads : WF_onceVars(Run(t))

-----------------------------------------------------------------------------
(* Properties.                                                             *)

TypeOK ==
  /\ once \in {UNINITIALIZED, PENDING, INITIALIZED}
  /\ place \in [Threads -> Locations]
  /\ begun \in Nat
  /\ done \in BOOLEAN

\* The thread that won the compare-exchange and has not yet published.
Initializers == {t \in Threads : place[t] \in {"routine", "publish"}}

\* The routine is entered at most once, by one thread, however the callers
\* race.
RunsOnce ==
  /\ begun <= 1
  /\ \A t, u \in Initializers : t = u
  /\ begun = 0 => once = UNINITIALIZED

\* A thread whose sleep nothing but a wake can end does not return before a
\* run of the routine has completed, whatever happens to the other callers.
ReturnsInitialized ==
  \A t \in Threads \ Interruptible : place[t] = "returned" => done

\* "Another thread is already running the init_routine. Wait for it to finish"
\* (once.c:23-24): no call at all returns before the routine has.
WaitsForRoutine == \A t \in Threads : place[t] = "returned" => done

\* A sleeper is never forgotten: while a thread sleeps, the word is PENDING
\* with an initializer to publish it, or the wake is still to come.
NoLostWakeup ==
  Sleepers # {} => \E t \in Threads : place[t] \in {"routine", "publish", "wake"}

\* Every call returns.
EveryCallReturns == \A t \in Threads : place[t] # "out" ~> place[t] = "returned"
=============================================================================
