--------------------------- MODULE AbstractLock ---------------------------
(***************************************************************************)
(* What a pthread mutex promises its callers, with no futex word, no       *)
(* kernel queue and no retries: a lock has at most one owner, a thread     *)
(* that asked for it either becomes the owner of a free lock or gives up,  *)
(* and only the owner releases it.  Module Mutex is shown to implement     *)
(* this specification.                                                     *)
(***************************************************************************)
CONSTANT Threads

VARIABLES
  owners,    \* the threads that own the lock
  waiting    \* the threads inside a lock call that has not yet returned

lockVars == <<owners, waiting>>

Init ==
  /\ owners = {}
  /\ waiting = {}

\* A thread enters a lock call and finds the lock taken.
Request(t) ==
  /\ t \notin owners \cup waiting
  /\ owners # {}
  /\ waiting' = waiting \cup {t}
  /\ UNCHANGED owners

\* A thread becomes the owner: only of a lock that nobody owns.
Acquire(t) ==
  /\ owners = {}
  /\ owners' = {t}
  /\ waiting' = waiting \ {t}

\* A timed lock call returns without the lock.
GiveUp(t) ==
  /\ t \in waiting
  /\ waiting' = waiting \ {t}
  /\ UNCHANGED owners

Release(t) ==
  /\ t \in owners
  /\ owners' = owners \ {t}
  /\ UNCHANGED waiting

Next == \E t \in Threads : Request(t) \/ Acquire(t) \/ GiveUp(t) \/ Release(t)

Spec == Init /\ [][Next]_lockVars
=============================================================================
