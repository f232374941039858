---------------------------- MODULE MutexProofs ----------------------------
(***************************************************************************)
(* Proofs about Mutex for any set of threads, any word size above 2 and    *)
(* with or without timeouts, interrupted sleeps and spurious               *)
(* compare-exchange failures; and about Cond and the client program Latch  *)
(* for any set of threads.  The mutex inside a wait is the one of module   *)
(* Mutex, so its theorems carry over: every step of a condition variable   *)
(* is a step of the mutex or leaves the mutex alone.                       *)
(***************************************************************************)
EXTENDS Latch, FiniteSetTheorems, TLAPS

\* The inductive invariant.  MutualExclusion alone is not inductive: a
\* thread acquires because the word is UNLOCKED, so the proof needs that an
\* owner keeps the word locked (WordTellsOwner), and the decrement of unlock
\* stays in range only because an owner's word is not UNLOCKED.
IInv ==
  /\ TypeOK
  /\ MutualExclusion
  /\ WordTellsOwner
  /\ NoLostWakeup

-----------------------------------------------------------------------------
\* The initial word is unlocked, with no owner and no sleeper.
LEMMA InitInv == Init => IInv
  BY DEF Init, IInv, TypeOK, MutualExclusion, WordTellsOwner, NoLostWakeup,
         Owners, Sleepers, Locations, UNLOCKED, LOCKED_NO_WAIT, LOCKED_WAIT

\* Every step of a thread keeps the word, the control state, the local
\* variables and the deadlines in range.
LEMMA StepTypeOK ==
  ASSUME TypeOK, WordTellsOwner, [Next]_mutexVars
  PROVE  TypeOK'
  <1> USE DEF TypeOK, Locations, Goto, UNLOCKED, LOCKED_NO_WAIT, LOCKED_WAIT
  <1>1. ASSUME NEW t \in Threads, NEW d \in Deadlines, TimedLock(t, d)
        PROVE  TypeOK'
    BY <1>1 DEF TimedLock, Deadlines
  <1>2. ASSUME NEW t \in Threads, TryLock(t) PROVE TypeOK'
    BY <1>2 DEF TryLock
  <1>3. ASSUME NEW t \in Threads, SkipSwap(t) PROVE TypeOK'
    BY <1>3 DEF SkipSwap
  <1>4. ASSUME NEW t \in Threads, Swap(t) PROVE TypeOK'
    BY <1>4 DEF Swap
  <1>5. ASSUME NEW t \in Threads, WaitAbs(t) PROVE TypeOK'
    BY <1>5 DEF WaitAbs
  <1>6. ASSUME NEW t \in Threads, FutexWait(t) PROVE TypeOK'
    BY <1>6 DEF FutexWait
  <1>7. ASSUME NEW t \in Threads, EndSleep(t) PROVE TypeOK'
    BY <1>7 DEF EndSleep
  <1>8. ASSUME NEW t \in Threads, Retry(t) PROVE TypeOK'
    BY <1>8 DEF Retry
  <1>9. ASSUME NEW t \in Threads, Unlock(t) PROVE TypeOK'
    <2>1. mutex # UNLOCKED
      BY <1>9 DEF Unlock, WordTellsOwner, Owners
    <2>2. QED
      BY <1>9, <2>1 DEF Unlock, Decremented
  <1>10. ASSUME NEW t \in Threads, StoreUnlocked(t) PROVE TypeOK'
    BY <1>10 DEF StoreUnlocked
  <1>11. ASSUME NEW t \in Threads, WakeOne(t) PROVE TypeOK'
    BY <1>11 DEF WakeOne, Sleepers
  <1>12. ASSUME NEW t \in Threads, Expire(t) PROVE TypeOK'
    BY <1>12 DEF Expire
  <1>13. CASE UNCHANGED mutexVars
    BY <1>13 DEF mutexVars
  <1>14. QED
    BY <1>1, <1>2, <1>3, <1>4, <1>5, <1>6, <1>7, <1>8, <1>9, <1>10, <1>11,
       <1>12, <1>13 DEF Next, Call, Run

-----------------------------------------------------------------------------
\* What each step does to the owners of the lock and to the threads waiting
\* for it: nothing, or one step of the abstract lock.
LEMMA StepImplementsLock ==
  ASSUME TypeOK, MutualExclusion, WordTellsOwner, [Next]_mutexVars
  PROVE  [Lock!Next]_(Lock!lockVars)
  <1> DEFINE Stutter == Owners' = Owners /\ Waiting' = Waiting
  <1> USE DEF TypeOK, Locations, Goto, UNLOCKED, LOCKED_NO_WAIT, LOCKED_WAIT,
              Owners, Waiting
  <1>1. ASSUME NEW t \in Threads, NEW d \in Deadlines, TimedLock(t, d)
        PROVE  Lock!Request(t) \/ Lock!Acquire(t)
    <2>1. CASE mutex = UNLOCKED
      <3>1. Owners = {} BY <2>1 DEF WordTellsOwner
      <3>2. pc' = [pc EXCEPT ![t] = "held"] BY <1>1, <2>1 DEF TimedLock
      <3>3. Owners' = {t} BY <3>1, <3>2
      <3>4. Waiting' = Waiting \ {t} BY <3>2
      <3>5. QED BY <3>1, <3>3, <3>4 DEF Lock!Acquire
    <2>2. CASE mutex # UNLOCKED
      <3>1. Owners # {} BY <2>2 DEF WordTellsOwner
      <3>2. pc[t] = "out" /\ pc' = [pc EXCEPT ![t] = "body"]
        BY <1>1, <2>2 DEF TimedLock
      <3>3. t \notin Owners \cup Waiting BY <3>2
      <3>4. Owners' = Owners /\ Waiting' = Waiting \cup {t} BY <3>2
      <3>5. QED BY <3>1, <3>3, <3>4 DEF Lock!Request
    <2>3. QED BY <2>1, <2>2
  <1>2. ASSUME NEW t \in Threads, TryLock(t) PROVE Lock!Acquire(t)
    <2>1. Owners = {} BY <1>2 DEF TryLock, WordTellsOwner
    <2>2. pc' = [pc EXCEPT ![t] = "held"] BY <1>2 DEF TryLock
    <2>3. Owners' = {t} BY <2>1, <2>2
    <2>4. Waiting' = Waiting \ {t} BY <2>2
    <2>5. QED BY <2>1, <2>3, <2>4 DEF Lock!Acquire
  <1>3. ASSUME NEW t \in Threads, SkipSwap(t) PROVE Stutter
    BY <1>3 DEF SkipSwap
  <1>4. ASSUME NEW t \in Threads, Swap(t) PROVE Stutter
    BY <1>4 DEF Swap
  <1>5. ASSUME NEW t \in Threads, WaitAbs(t)
        PROVE  Stutter \/ Lock!GiveUp(t)
    BY <1>5 DEF WaitAbs, Lock!GiveUp
  <1>6. ASSUME NEW t \in Threads, FutexWait(t) PROVE Stutter
    BY <1>6 DEF FutexWait
  <1>7. ASSUME NEW t \in Threads, EndSleep(t) PROVE Stutter
    BY <1>7 DEF EndSleep
  <1>8. ASSUME NEW t \in Threads, Retry(t)
        PROVE  Stutter \/ Lock!Acquire(t)
    <2>1. CASE mutex = UNLOCKED /\ pc' = [pc EXCEPT ![t] = "held"]
      <3>1. Owners = {} BY <2>1 DEF WordTellsOwner
      <3>2. Owners' = {t} BY <2>1, <3>1
      <3>3. Waiting' = Waiting \ {t} BY <2>1
      <3>4. QED BY <3>1, <3>2, <3>3 DEF Lock!Acquire
    <2>2. CASE pc[t] = "retry" /\ pc' = [pc EXCEPT ![t] = "body"]
      BY <2>2
    <2>3. QED BY <1>8, <2>1, <2>2 DEF Retry
  <1>9. ASSUME NEW t \in Threads, Unlock(t)
        PROVE  Stutter \/ Lock!Release(t)
    BY <1>9 DEF Unlock, Lock!Release
  <1>10. ASSUME NEW t \in Threads, StoreUnlocked(t) PROVE Lock!Release(t)
    BY <1>10 DEF StoreUnlocked, Lock!Release
  <1>11. ASSUME NEW t \in Threads, WakeOne(t) PROVE Stutter
    BY <1>11 DEF WakeOne, Sleepers
  <1>12. ASSUME NEW t \in Threads, Expire(t) PROVE Stutter
    BY <1>12 DEF Expire
  <1>13. CASE UNCHANGED mutexVars
    BY <1>13 DEF mutexVars, Lock!lockVars
  <1> HIDE DEF TypeOK, Locations, Goto, UNLOCKED, LOCKED_NO_WAIT, LOCKED_WAIT,
               Owners, Waiting
  <1>14. Stutter => UNCHANGED Lock!lockVars
    BY DEF Lock!lockVars
  <1> HIDE DEF Stutter
  <1>15. QED
    BY <1>1, <1>2, <1>3, <1>4, <1>5, <1>6, <1>7, <1>8, <1>9, <1>10, <1>11,
       <1>12, <1>13, <1>14 DEF Next, Call, Run, Lock!Next

\* A step of the abstract lock keeps it with at most one owner.
LEMMA StepMutualExclusion ==
  ASSUME MutualExclusion, [Lock!Next]_(Lock!lockVars)
  PROVE  MutualExclusion'
  BY DEF MutualExclusion, Lock!Next, Lock!lockVars, Lock!Request,
         Lock!Acquire, Lock!GiveUp, Lock!Release

\* The word is UNLOCKED exactly while the lock has no owner: acquiring makes
\* it non-zero, and of the two atomic operations of unlock the one that ends
\* the ownership is the one that zeroes the word.
LEMMA StepWordTellsOwner ==
  ASSUME TypeOK, MutualExclusion, WordTellsOwner, [Next]_mutexVars
  PROVE  WordTellsOwner'
  <1> USE DEF TypeOK, Locations, Goto, UNLOCKED, LOCKED_NO_WAIT, LOCKED_WAIT,
              Owners, WordTellsOwner
  <1>1. ASSUME NEW t \in Threads, NEW d \in Deadlines, TimedLock(t, d)
        PROVE  WordTellsOwner'
    BY <1>1 DEF TimedLock
  <1>2. ASSUME NEW t \in Threads, TryLock(t) PROVE WordTellsOwner'
    BY <1>2 DEF TryLock
  <1>3. ASSUME NEW t \in Threads, SkipSwap(t) PROVE WordTellsOwner'
    BY <1>3 DEF SkipSwap
  <1>4. ASSUME NEW t \in Threads, Swap(t) PROVE WordTellsOwner'
    BY <1>4 DEF Swap
  <1>5. ASSUME NEW t \in Threads, WaitAbs(t) PROVE WordTellsOwner'
    BY <1>5 DEF WaitAbs
  <1>6. ASSUME NEW t \in Threads, FutexWait(t) PROVE WordTellsOwner'
    BY <1>6 DEF FutexWait
  <1>7. ASSUME NEW t \in Threads, EndSleep(t) PROVE WordTellsOwner'
    BY <1>7 DEF EndSleep
  <1>8. ASSUME NEW t \in Threads, Retry(t) PROVE WordTellsOwner'
    BY <1>8 DEF Retry
  <1>9. ASSUME NEW t \in Threads, Unlock(t) PROVE WordTellsOwner'
    <2>1. Owners = {t} /\ mutex \in {LOCKED_NO_WAIT, LOCKED_WAIT}
      BY <1>9 DEF Unlock, MutualExclusion
    <2>2. CASE mutex = LOCKED_NO_WAIT
      BY <1>9, <2>1, <2>2 DEF Unlock, Decremented
    <2>3. CASE mutex = LOCKED_WAIT
      BY <1>9, <2>1, <2>3 DEF Unlock, Decremented
    <2>4. QED BY <2>1, <2>2, <2>3
  <1>10. ASSUME NEW t \in Threads, StoreUnlocked(t) PROVE WordTellsOwner'
    <2>1. Owners = {t} BY <1>10 DEF StoreUnlocked, MutualExclusion
    <2>2. Owners' = {} BY <1>10, <2>1 DEF StoreUnlocked
    <2>3. QED BY <1>10, <2>2 DEF StoreUnlocked
  <1>11. ASSUME NEW t \in Threads, WakeOne(t) PROVE WordTellsOwner'
    BY <1>11 DEF WakeOne, Sleepers
  <1>12. ASSUME NEW t \in Threads, Expire(t) PROVE WordTellsOwner'
    BY <1>12 DEF Expire
  <1>13. CASE UNCHANGED mutexVars
    BY <1>13 DEF mutexVars
  <1>14. QED
    BY <1>1, <1>2, <1>3, <1>4, <1>5, <1>6, <1>7, <1>8, <1>9, <1>10, <1>11,
       <1>12, <1>13 DEF Next, Call, Run

\* No step leaves a sleeper behind with an unmarked word and nobody about to
\* wake it or to mark the word: the thread an unlock wakes marks the word
\* itself before it can sleep or return.
LEMMA StepNoLostWakeup ==
  ASSUME TypeOK, NoLostWakeup, [Next]_mutexVars
  PROVE  NoLostWakeup'
  <1> USE DEF TypeOK, Locations, Goto, UNLOCKED, LOCKED_NO_WAIT, LOCKED_WAIT,
              Sleepers, NoLostWakeup, WillMark
  <1>1. ASSUME NEW t \in Threads, NEW d \in Deadlines, TimedLock(t, d)
        PROVE  NoLostWakeup'
    BY <1>1 DEF TimedLock
  <1>2. ASSUME NEW t \in Threads, TryLock(t) PROVE NoLostWakeup'
    BY <1>2 DEF TryLock
  <1>3. ASSUME NEW t \in Threads, SkipSwap(t) PROVE NoLostWakeup'
    BY <1>3 DEF SkipSwap
  <1>4. ASSUME NEW t \in Threads, Swap(t) PROVE NoLostWakeup'
    BY <1>4 DEF Swap
  <1>5. ASSUME NEW t \in Threads, WaitAbs(t) PROVE NoLostWakeup'
    BY <1>5 DEF WaitAbs
  <1>6. ASSUME NEW t \in Threads, FutexWait(t) PROVE NoLostWakeup'
    BY <1>6 DEF FutexWait
  <1>7. ASSUME NEW t \in Threads, EndSleep(t) PROVE NoLostWakeup'
    BY <1>7 DEF EndSleep
  <1>8. ASSUME NEW t \in Threads, Retry(t) PROVE NoLostWakeup'
    BY <1>8 DEF Retry
  <1>9. ASSUME NEW t \in Threads, Unlock(t) PROVE NoLostWakeup'
    BY <1>9 DEF Unlock
  <1>10. ASSUME NEW t \in Threads, StoreUnlocked(t) PROVE NoLostWakeup'
    BY <1>10 DEF StoreUnlocked
  <1>11. ASSUME NEW t \in Threads, WakeOne(t) PROVE NoLostWakeup'
    BY <1>11 DEF WakeOne
  <1>12. ASSUME NEW t \in Threads, Expire(t) PROVE NoLostWakeup'
    BY <1>12 DEF Expire
  <1>13. CASE UNCHANGED mutexVars
    BY <1>13 DEF mutexVars
  <1>14. QED
    BY <1>1, <1>2, <1>3, <1>4, <1>5, <1>6, <1>7, <1>8, <1>9, <1>10, <1>11,
       <1>12, <1>13 DEF Next, Call, Run

-----------------------------------------------------------------------------
\* The invariant holds in every reachable state of every instance.
THEOREM MutexInvariant == Spec => []IInv
  <1>1. IInv /\ [Next]_mutexVars => IInv'
    BY StepTypeOK, StepImplementsLock, StepMutualExclusion,
       StepWordTellsOwner, StepNoLostWakeup DEF IInv
  <1>2. QED
    BY InitInv, <1>1, PTL DEF Spec

\* The futex word never leaves the three values the code knows, although
\* unlock decrements it without looking first.
THEOREM TypeCorrect == Spec => []TypeOK
  <1>1. IInv => TypeOK
    BY DEF IInv
  <1>2. QED
    BY MutexInvariant, <1>1, PTL

\* No two threads ever own the mutex.
THEOREM MutexExcludes == Spec => []MutualExclusion
  <1>1. IInv => MutualExclusion
    BY DEF IInv
  <1>2. QED
    BY MutexInvariant, <1>1, PTL

\* The word says locked when a thread owns the mutex, also between the two
\* steps of unlock.
THEOREM WordIsTrue == Spec => []WordTellsOwner
  <1>1. IInv => WordTellsOwner
    BY DEF IInv
  <1>2. QED
    BY MutexInvariant, <1>1, PTL

\* No sleeper is ever left behind beside a word that nobody will mark or wake.
THEOREM NoWakeupIsLost == Spec => []NoLostWakeup
  <1>1. IInv => NoLostWakeup
    BY DEF IInv
  <1>2. QED
    BY MutexInvariant, <1>1, PTL

\* The futex mutex implements the abstract lock.
THEOREM MutexIsALock == Spec => ImplementsLock
  <1>1. Init => Lock!Init
    BY DEF Init, Lock!Init, Owners, Waiting
  <1>2. IInv /\ [Next]_mutexVars => [Lock!Next]_(Lock!lockVars)
    BY StepImplementsLock DEF IInv
  <1>3. QED
    BY <1>1, <1>2, MutexInvariant, PTL DEF Spec, Lock!Spec, ImplementsLock

-----------------------------------------------------------------------------
(* Cond.                                                                   *)

Stages == {"none", "unlock", "abs", "enter", "dozing", "relock", "signal",
           "broadcast"}

StagesOK == stage \in [Threads -> Stages]

-----------------------------------------------------------------------------
(* The mutex under the condition variable.                                 *)

\* A step of cond.c takes the mutex through one of its own steps or not at all.
LEMMA CondStepsMutex ==
  ASSUME [CondNext]_condVars
  PROVE  [Next]_mutexVars
  <1>1. ASSUME NEW t \in Threads, UseMutex(t) PROVE Next
    BY <1>1 DEF UseMutex, Next
  <1>2. ASSUME NEW t \in Threads, Environment(t) PROVE Next
    BY <1>2 DEF Environment, Next
  <1>3. ASSUME NEW t \in Threads, CondRun(t) PROVE [Next]_mutexVars
    <2>1. CASE CondUnlock(t)
      BY <2>1 DEF CondUnlock, Next, Run
    <2>2. CASE Relock(t)
      <3>1. "none" \in Deadlines
        BY DEF Deadlines
      <3>2. QED
        BY <2>2, <3>1 DEF Relock, Next, Call
    <2>3. CASE CondWaitAbs(t) \/ CondSleep(t) \/ CondWake(t)
      BY <2>3 DEF CondWaitAbs, CondSleep, CondWake
    <2>4. QED
      BY <1>3, <2>1, <2>2, <2>3 DEF CondRun
  <1>4. ASSUME NEW t \in Threads, NEW d \in Deadlines, CondWait(t, d)
        PROVE  UNCHANGED mutexVars
    BY <1>4 DEF CondWait
  <1>5. ASSUME NEW t \in Threads, NEW n \in Notifications, Notify(t, n)
        PROVE  UNCHANGED mutexVars
    BY <1>5 DEF Notify
  <1>6. ASSUME NEW t \in Threads, CondEndSleep(t) \/ CondExpire(t)
        PROVE  UNCHANGED mutexVars
    BY <1>6 DEF CondEndSleep, CondExpire
  <1>7. CASE UNCHANGED condVars
    BY <1>7 DEF condVars
  <1>8. QED
    BY <1>1, <1>2, <1>3, <1>4, <1>5, <1>6, <1>7 DEF CondNext

\* Waits, signals and broadcasts use the mutex as its own callers do.
THEOREM CondUsesMutex == CondSpec => Spec
  <1>1. CondInit => Init
    BY DEF CondInit
  <1>2. QED
    BY <1>1, CondStepsMutex, PTL DEF CondSpec, Spec

\* So at most one thread has the mutex, the thread that a wait returns to
\* included.
THEOREM CondExcludes == CondSpec => []MutualExclusion
  BY CondUsesMutex, MutexExcludes, PTL

-----------------------------------------------------------------------------
(* What each step does to stage.                                           *)

\* Every thread is at one of the named places.
LEMMA CondStagesOK ==
  ASSUME StagesOK, [CondNext]_condVars
  PROVE  StagesOK'
  <1> USE DEF StagesOK, Stages, Enter
  <1>1. ASSUME NEW t \in Threads, UseMutex(t) \/ Environment(t) PROVE StagesOK'
    BY <1>1 DEF UseMutex, Environment, condOnly
  <1>2. ASSUME NEW t \in Threads, CondUnlock(t) PROVE StagesOK'
    BY <1>2 DEF CondUnlock
  <1>3. ASSUME NEW t \in Threads, CondWaitAbs(t) \/ CondSleep(t) PROVE StagesOK'
    BY <1>3 DEF CondWaitAbs, CondSleep, Return
  <1>4. ASSUME NEW t \in Threads, Relock(t) PROVE StagesOK'
    BY <1>4 DEF Relock, Return
  <1>5. ASSUME NEW t \in Threads, CondWake(t) PROVE StagesOK'
    BY <1>5 DEF CondWake, Dozers
  <1>6. ASSUME NEW t \in Threads, NEW d \in Deadlines, CondWait(t, d)
        PROVE  StagesOK'
    BY <1>6 DEF CondWait
  <1>7. ASSUME NEW t \in Threads, NEW n \in Notifications, Notify(t, n)
        PROVE  StagesOK'
    BY <1>7, CondAssumption DEF Notify
  <1>8. ASSUME NEW t \in Threads, CondEndSleep(t) \/ CondExpire(t)
        PROVE  StagesOK'
    BY <1>8 DEF CondEndSleep, CondExpire
  <1>9. CASE UNCHANGED condVars
    BY <1>9 DEF condVars, condOnly
  <1>10. QED
    BY <1>1, <1>2, <1>3, <1>4, <1>5, <1>6, <1>7, <1>8, <1>9 DEF CondNext, CondRun

-----------------------------------------------------------------------------
(* A first broadcast misses nobody.                                        *)

\* BroadcastReachesAll is inductive once nobody is about to wake one thread
\* only: the word changes just once, in the step that puts a broadcast on its
\* way, and a broadcast that arrives leaves no thread asleep.
BroadcastInv ==
  /\ StagesOK
  /\ \A t \in Threads : stage[t] # "signal"
  /\ value \in [Threads -> Int] /\ cond \in Int
  /\ BroadcastReachesAll

LEMMA BroadcastStep ==
  ASSUME Notifications \subseteq {"broadcast"}, BroadcastInv,
         [CondNext]_condVars
  PROVE  BroadcastInv'
  <1> USE DEF BroadcastInv, BroadcastReachesAll, Dozers, Enter
  <1>1. StagesOK'
    BY CondStagesOK
  <1>2. ASSUME NEW t \in Threads, UseMutex(t) \/ Environment(t)
        PROVE  BroadcastInv'
    BY <1>1, <1>2 DEF UseMutex, Environment, condOnly
  <1> USE DEF StagesOK, Stages
  <1>3. ASSUME NEW t \in Threads, CondUnlock(t) PROVE BroadcastInv'
    BY <1>1, <1>3 DEF CondUnlock
  <1>4. ASSUME NEW t \in Threads, CondWaitAbs(t) PROVE BroadcastInv'
    BY <1>1, <1>4 DEF CondWaitAbs, Return, waitLocals
  <1>5. ASSUME NEW t \in Threads, CondSleep(t) PROVE BroadcastInv'
    BY <1>1, <1>5 DEF CondSleep
  <1>6. ASSUME NEW t \in Threads, Relock(t) PROVE BroadcastInv'
    BY <1>1, <1>6 DEF Relock, Return, waitLocals
  <1>7. ASSUME NEW t \in Threads, CondWake(t) PROVE BroadcastInv'
    BY <1>1, <1>7 DEF CondWake
  <1>8. ASSUME NEW t \in Threads, NEW d \in Deadlines, CondWait(t, d)
        PROVE  BroadcastInv'
    BY <1>1, <1>8 DEF CondWait
  <1>9. ASSUME NEW t \in Threads, NEW n \in Notifications, Notify(t, n)
        PROVE  BroadcastInv'
    BY <1>1, <1>9 DEF Notify
  <1>10. ASSUME NEW t \in Threads, CondEndSleep(t) \/ CondExpire(t)
         PROVE  BroadcastInv'
    BY <1>1, <1>10 DEF CondEndSleep, CondExpire
  <1>11. CASE UNCHANGED condVars
    BY <1>1, <1>11 DEF condVars, condOnly
  <1>12. QED
    BY <1>2, <1>3, <1>4, <1>5, <1>6, <1>7, <1>8, <1>9, <1>10, <1>11
       DEF CondNext, CondRun

\* Where only broadcasts are used, a thread that sleeps although the word has
\* changed since it read it sleeps until a wake that is already on its way.
THEOREM BroadcastMissesNobody ==
  ASSUME Notifications \subseteq {"broadcast"}
  PROVE  CondSpec => []BroadcastReachesAll
  <1>1. CondInit => BroadcastInv
    BY DEF CondInit, BroadcastInv, StagesOK, Stages, BroadcastReachesAll, Dozers
  <1>2. BroadcastInv /\ [CondNext]_condVars => BroadcastInv'
    BY BroadcastStep
  <1>3. BroadcastInv => BroadcastReachesAll
    BY DEF BroadcastInv
  <1>4. QED
    BY <1>1, <1>2, <1>3, PTL DEF CondSpec

-----------------------------------------------------------------------------
(* The latch.                                                              *)

\* The client program calls the condition variable and the mutex as any client
\* does.
LEMMA LatchStepsCond ==
  ASSUME LatchAssumption, crew \subseteq Threads, [LatchNext]_latchVars
  PROVE  [CondNext]_condVars
  <1>1. "none" \in Deadlines
    BY DEF Deadlines
  <1>2. Present \subseteq Threads
    BY LatchAssumption DEF Present
  <1>3. ASSUME NEW t \in Threads, Begin(t) \/ End(t) PROVE CondNext
    BY <1>1, <1>3 DEF Begin, End, UseMutex, Call, Run, CondNext
  <1>4. ASSUME NEW t \in Threads, WaitReady(t) PROVE CondNext
    BY <1>1, <1>4 DEF WaitReady, CondNext
  <1>5. CASE SetReady
    BY <1>5 DEF SetReady
  <1>6. ASSUME NEW n \in Notifications, Tell(n) PROVE CondNext
    BY <1>6, LatchAssumption DEF Tell, CondNext
  <1>7. ASSUME NEW t \in Threads, CondRun(t) \/ Environment(t) \/ CondEndSleep(t)
        PROVE  CondNext
    BY <1>7 DEF CondNext
  <1>8. CASE UNCHANGED latchVars
    BY <1>8 DEF latchVars
  <1>9. QED
    BY <1>2, <1>3, <1>4, <1>5, <1>6, <1>7, <1>8 DEF LatchNext, LatchRun

\* LatchReachesSleepers is kept because every waiter has read the word before
\* the only change of it: it has read 0, so it cannot fall asleep behind the
\* notification, and the wake that the notification ends with reaches all of
\* them, a signal because one thread waits at most.
LatchInv ==
  /\ StagesOK
  /\ crew \subseteq Threads \ {Notifier}
  /\ ready \in BOOLEAN /\ told \in BOOLEAN /\ (told => ready)
  /\ cond = IF told THEN 1 ELSE 0
  /\ value = [t \in Threads |-> 0]
  /\ \A t \in Threads :
       /\ stage[t] \in {"unlock", "abs", "enter", "dozing", "relock"} => t \in crew
       /\ stage[t] \in {"signal", "broadcast"} => t = Notifier
       /\ stage[t] = "signal" => Cardinality(crew) <= 1
  /\ told /\ Dozers # {} => stage[Notifier] \in {"signal", "broadcast"}

\* No two different threads are in a crew of one.
LEMMA CrewOfOne ==
  ASSUME crew \subseteq Threads, Cardinality(crew) <= 1,
         NEW s \in crew, NEW u \in crew
  PROVE  s = u
  <1>1. IsFiniteSet(crew)
    BY LatchAssumption, FS_Subset
  <1>2. SUFFICES ASSUME s # u PROVE FALSE
    OBVIOUS
  <1>3. /\ IsFiniteSet({s, u}) /\ Cardinality({s, u}) = 2
    <2>1. IsFiniteSet({s}) /\ Cardinality({s}) = 1 /\ u \notin {s}
      BY <1>2, FS_Singleton
    <2>2. {s, u} = {s} \cup {u}
      OBVIOUS
    <2>3. QED
      BY <2>1, <2>2, FS_AddElement, SMTT(30)
  <1>4. Cardinality({s, u}) <= Cardinality(crew)
    BY <1>1, FS_Subset
  <1>5. Cardinality(crew) \in Nat
    BY <1>1, FS_CardinalityType
  <1>6. QED
    BY <1>3, <1>4, <1>5

\* What the steps of the wait and of the wake do to the invariant.
LEMMA LatchRunStep ==
  ASSUME LatchInv, NEW t \in Threads, CondRun(t), UNCHANGED <<crew, ready, told>>
  PROVE  LatchInv'
  <1>1. StagesOK'
    BY CondStagesOK DEF LatchInv, CondNext
  <1> USE LatchAssumption DEF LatchInv, StagesOK, Stages, Dozers, Enter
  <1>2. CASE CondUnlock(t)
    BY <1>1, <1>2 DEF CondUnlock
  <1>3. CASE CondWaitAbs(t)
    BY <1>1, <1>3 DEF CondWaitAbs, Return, waitLocals
  <1>4. CASE CondSleep(t)
    BY <1>1, <1>4 DEF CondSleep
  <1>5. CASE Relock(t)
    BY <1>1, <1>5 DEF Relock, Return, waitLocals
  <1>6. CASE CondWake(t)
    <2>1. CASE stage[t] = "broadcast"
      BY <1>1, <1>6, <2>1 DEF CondWake
    <2>2. CASE stage[t] = "signal" /\ Dozers = {}
      BY <1>1, <1>6, <2>2 DEF CondWake
    <2>3. CASE stage[t] = "signal" /\ Dozers # {}
      <3>1. PICK s \in Dozers :
                 stage' = [stage EXCEPT ![t] = "none", ![s] = "relock"]
        BY <1>6, <2>3 DEF CondWake
      <3>2. \A u \in Dozers : u = s
        BY <2>3, CrewOfOne
      <3>3. Dozers' = {}
        BY <2>3, <3>1, <3>2
      <3>4. QED
        BY <1>1, <1>6, <2>3, <3>1, <3>3 DEF CondWake
    <2>4. QED
      BY <1>6, <2>1, <2>2, <2>3 DEF CondWake
  <1>7. QED
    BY <1>2, <1>3, <1>4, <1>5, <1>6 DEF CondRun

LEMMA LatchStep ==
  ASSUME LatchInv, [LatchNext]_latchVars
  PROVE  LatchInv'
  <1>1. StagesOK'
    BY LatchAssumption, LatchStepsCond, CondStagesOK DEF LatchInv
  <1>2. Present \subseteq Threads
    BY LatchAssumption DEF Present, LatchInv
  <1>3. ASSUME NEW t \in Threads, CondRun(t), UNCHANGED <<crew, ready, told>>
        PROVE  LatchInv'
    BY <1>3, LatchRunStep
  <1> USE LatchAssumption, CondAssumption
      DEF LatchInv, StagesOK, Stages, Dozers, Enter
  <1>4. ASSUME NEW t \in Threads, Begin(t) \/ End(t), UNCHANGED crew
        PROVE  LatchInv'
    BY <1>1, <1>4 DEF Begin, End, condOnly
  <1>5. ASSUME NEW t \in Threads, WaitReady(t), UNCHANGED crew PROVE LatchInv'
    BY <1>1, <1>5 DEF WaitReady, CondWait
  <1>6. CASE SetReady /\ UNCHANGED crew
    BY <1>1, <1>6 DEF SetReady, condVars, condOnly
  <1>7. ASSUME NEW n \in Notifications, Tell(n), UNCHANGED crew PROVE LatchInv'
    <2>1. cond = 0 /\ cond' = 1 /\ stage' = [stage EXCEPT ![Notifier] = n]
      BY <1>7 DEF Tell, Notify, Signaled
    <2>2. QED
      BY <1>1, <1>7, <2>1 DEF Tell, Notify
  <1>8. ASSUME NEW t \in Threads, Environment(t) \/ CondEndSleep(t),
               UNCHANGED <<crew, ready, told>>
        PROVE  LatchInv'
    BY <1>1, <1>8 DEF Environment, CondEndSleep, condOnly
  <1>9. CASE UNCHANGED latchVars
    BY <1>1, <1>9 DEF latchVars, condVars, condOnly
  <1>10. QED
    BY <1>2, <1>3, <1>4, <1>5, <1>6, <1>7, <1>8, <1>9 DEF LatchNext, LatchRun

THEOREM LatchInvariant == LatchSpec => []LatchInv
  <1>1. LatchInit => LatchInv
    BY LatchAssumption
       DEF LatchInit, CondInit, LatchInv, StagesOK, Stages, Dozers
  <1>2. QED
    BY <1>1, LatchStep, PTL DEF LatchSpec

\* The latch uses its condition variable as module Cond describes it.
THEOREM LatchUsesCond == LatchSpec => CondSpec
  <1>1. LatchInit => CondInit
    BY DEF LatchInit
  <1>2. LatchInv /\ [LatchNext]_latchVars => [CondNext]_condVars
    BY LatchAssumption, LatchStepsCond DEF LatchInv
  <1>3. QED
    BY <1>1, <1>2, LatchInvariant, PTL DEF LatchSpec, CondSpec

\* No notification of a latch is missed, for any number of waiters: a thread
\* asleep although the flag is set is one the notifier has yet to wake.
THEOREM LatchWakesAll == LatchSpec => []LatchReachesSleepers
  <1>1. LatchInv => LatchReachesSleepers
    BY DEF LatchInv, LatchReachesSleepers
  <1>2. QED
    BY LatchInvariant, <1>1, PTL
=============================================================================
