------------------------------ MODULE MCThreads -----------------------------
(* For TLC, what threads share: the mutex, the condition variable under a  *)
(* flag that is set once, with none, one or two waiters, and exit.  A      *)
(* behaviour is one of one of them, the subject; the others stay in an     *)
(* initial state.                                                          *)
EXTENDS Latch, Exit

VARIABLE subject

CONSTANTS t1, t2, t3

ThreeThreads == {t1, t2, t3}

\* Two constructors around an empty entry; two destructors and _fini.
Constructors == <<"preinit", Null, "init">>
Destructors  == <<"_fini", "fini1", Null, "fini2">>

\* User code calls both functions from everywhere.
Everywhere == {"constructor", "main", "handler", "destructor"}
                \X {"atexit", "exit"}

clientVars == <<condOnly, crew, ready, told, job>>
mcVars == <<subject, latchVars, exitVars>>

\* Where the flag program is not the subject, nobody waits and it has ended.
MCInit ==
  /\ subject \in {"mutex", "latch", "exit"}
  /\ IF subject = "latch"
       THEN LatchInit
       ELSE /\ CondInit
            /\ crew = {} /\ ready = FALSE /\ told = FALSE
            /\ job = [t \in Threads |-> "done"]
  /\ ExitInit

MCNext ==
  /\ UNCHANGED subject
  /\ \/ subject = "mutex" /\ Next /\ UNCHANGED <<clientVars, exitVars>>
     \/ subject = "latch" /\ LatchNext /\ UNCHANGED exitVars
     \/ subject = "exit" /\ ExitNext /\ UNCHANGED latchVars

\* What a scheduled thread does in its subject: it is in one place, so that
\* fairness to this is fairness to each of its steps.
Scheduled(t) ==
  /\ UNCHANGED subject
  /\ \/ subject = "mutex" /\ Run(t) /\ UNCHANGED <<clientVars, exitVars>>
     \/ /\ subject = "latch" /\ t \in Present
        /\ LatchRun(t) /\ UNCHANGED <<crew, exitVars>>
     \/ /\ subject = "exit" /\ ~ended
        /\ (ExitRun(t) /\ UNCHANGED ended) \/ _Exit(t)
        /\ UNCHANGED latchVars

\* The fairness is that of FairSpec, LatchSpec and FairExitSpec.
MCSpec ==
  /\ MCInit
  /\ [][MCNext]_mcVars
  /\ \A t \in Threads :
       /\ WF_mcVars(Scheduled(t))
       /\ SF_mcVars(Scheduled(t) /\ pc[t] = "retry" /\ pc'[t] = "held")
=============================================================================
