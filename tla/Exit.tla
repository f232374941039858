-------------------------------- MODULE Exit --------------------------------
(***************************************************************************)
(* The life of a process (libc/src/entrypoint.c): _start runs the          *)
(* constructors and main, exit runs the functions registered with atexit   *)
(* and the destructors, flushes stdout and ends the process.               *)
(*                                                                         *)
(* at_exit_mutex is used only through pthread_mutex_lock and _unlock, so   *)
(* it is the lock of module AbstractLock here: a thread takes it in one    *)
(* step when it is free.  ctx[t] says which user code thread t runs and    *)
(* place[t] where it stands:                                               *)
(*                                                                         *)
(*   "start"     in initializer (the main thread), or not yet started      *)
(*   "user"      in that user code                                         *)
(*   "register"  in atexit, the entry allocated, about to lock             *)
(*   "link"      in atexit, holding the lock                               *)
(*   "exit"      in exit, about to lock                                    *)
(*   "loop"      in exit, at the top of the loop over the handlers         *)
(*   "final"     in finalizer                                              *)
(*   "end"       about to call _Exit                                       *)
(***************************************************************************)
EXTENDS SequencesExt

CONSTANTS
  ExitThreads, Main,  \* the threads, and the one that runs _start
  Handlers,           \* what can be registered with atexit
  InitTable,          \* __preinit_array, _init and __init_array, in that order
  FiniTable,          \* _fini and then __fini_array
  UserCalls,          \* the calls user code makes: <<context, call>>
  MaxAtExit           \* bound on the calls of atexit

ASSUME ExitAssumption ==
  /\ Main \in ExitThreads
  /\ InitTable \in Seq(Range(InitTable)) /\ FiniTable \in Seq(Range(FiniTable))
  /\ UserCalls \subseteq {"constructor", "main", "handler", "destructor"}
                         \X {"atexit", "exit"}
  /\ MaxAtExit \in Nat

VARIABLES
  at_exit_list,   \* the functions registered, the latest first
  lock,           \* the owners of at_exit_mutex
  ctx, place,     \* what each thread runs and where it stands
  entry,          \* the function a thread is registering
  ctor, dtor,     \* how far the constructors and the destructors have got
  unflushed,      \* does stdout hold output of a handler or a destructor?
  ended,          \* has the process ended?
  registered,     \* history: what atexit has linked, in that order
  log             \* history: the functions called, in that order

exitVars == <<at_exit_list, lock, ctx, place, entry, ctor, dtor, unflushed,
              ended, registered, log>>

\* An entry of a table that is NULL or (fn)1 is not called: Called(table)[n] are
\* the functions called among the first n entries.
Null == "null"
Called(table) ==
  LET upTo[n \in 0 .. Len(table)] ==
        IF n = 0 THEN <<>>
        ELSE IF table[n] = Null THEN upTo[n - 1]
        ELSE Append(upTo[n - 1], table[n])
  IN  upTo

ExitInit ==
  /\ at_exit_list = <<>>
  /\ lock = {}
  /\ ctx = [t \in ExitThreads |-> IF t = Main THEN "constructor" ELSE "main"]
  /\ place = [t \in ExitThreads |-> "start"]
  /\ entry = [t \in ExitThreads |-> Null]
  /\ ctor = 1
  /\ dtor = Len(FiniTable)
  /\ unflushed = FALSE
  /\ ended = FALSE
  /\ registered = <<>>
  /\ log = <<>>

GoOn(t, l) == place' = [place EXCEPT ![t] = l]

-----------------------------------------------------------------------------
(* _start and initializer.                                                 *)

\* The next entry of the tables is called, or passed over.
Construct ==
  /\ place[Main] = "start"
  /\ ctor <= Len(InitTable)
  /\ ctor' = ctor + 1
  /\ IF InitTable[ctor] = Null
       THEN UNCHANGED <<place, log>>
       ELSE GoOn(Main, "user") /\ log' = Append(log, InitTable[ctor])
  /\ UNCHANGED <<at_exit_list, lock, ctx, entry, dtor, unflushed, registered>>

StartMain ==
  /\ place[Main] = "start"
  /\ ctor > Len(InitTable)
  /\ ctx' = [ctx EXCEPT ![Main] = "main"]
  /\ GoOn(Main, "user")
  /\ UNCHANGED <<at_exit_list, lock, entry, ctor, dtor, unflushed, registered,
                 log>>

\* main starts another thread.
Spawn(t) ==
  /\ t # Main /\ place[t] = "start"
  /\ ctx[Main] = "main" /\ place[Main] = "user"
  /\ GoOn(t, "user")
  /\ UNCHANGED <<at_exit_list, lock, ctx, entry, ctor, dtor, unflushed,
                 registered, log>>

\* A constructor, a handler or a destructor returns; one that exit called may
\* leave output in the buffer of stdout.  main returns into exit.
UserReturns(t) ==
  /\ place[t] = "user"
  /\ \/ ctx[t] = "constructor" /\ GoOn(t, "start") /\ UNCHANGED unflushed
     \/ ctx[t] = "main" /\ t = Main /\ GoOn(t, "exit") /\ UNCHANGED unflushed
     \/ ctx[t] = "handler" /\ GoOn(t, "loop") /\ unflushed' \in {unflushed, TRUE}
     \/ ctx[t] = "destructor" /\ GoOn(t, "final") /\ unflushed' \in {unflushed, TRUE}
  /\ at_exit_list' =
       IF ctx[t] = "handler" THEN Tail(at_exit_list) ELSE at_exit_list
  /\ UNCHANGED <<lock, ctx, entry, ctor, dtor, registered, log>>

-----------------------------------------------------------------------------
(* atexit.                                                                 *)

\* A failed malloc returns -1 and changes nothing.
AtExit(t, f) ==
  /\ place[t] = "user"
  /\ <<ctx[t], "atexit">> \in UserCalls
  /\ Len(registered) + Cardinality({u \in ExitThreads : entry[u] # Null}) < MaxAtExit
  /\ entry' = [entry EXCEPT ![t] = f]
  /\ GoOn(t, "register")
  /\ UNCHANGED <<at_exit_list, lock, ctx, ctor, dtor, unflushed, registered, log>>

\* Faulty: links without the lock.
LockForgotten(t) ==
  /\ place[t] = "register"
  /\ GoOn(t, "link")
  /\ UNCHANGED <<at_exit_list, lock, ctx, entry, ctor, dtor, unflushed,
                 registered, log>>

AtExitLock(t) ==
  /\ place[t] = "register"
  /\ lock = {}
  /\ lock' = {t}
  /\ GoOn(t, "link")
  /\ UNCHANGED <<at_exit_list, ctx, entry, ctor, dtor, unflushed, registered,
                 log>>

\* Faulty: returns without the unlock.
UnlockForgotten(t) ==
  /\ place[t] = "link"
  /\ at_exit_list' = <<entry[t]>> \o at_exit_list
  /\ registered' = Append(registered, entry[t])
  /\ entry' = [entry EXCEPT ![t] = Null]
  /\ GoOn(t, "user")
  /\ UNCHANGED <<lock, ctx, ctor, dtor, unflushed, log>>

\* entry->next and at_exit_list, then the unlock.
AtExitLink(t) ==
  /\ place[t] = "link"
  /\ at_exit_list' = <<entry[t]>> \o at_exit_list
  /\ registered' = Append(registered, entry[t])
  /\ entry' = [entry EXCEPT ![t] = Null]
  /\ lock' = lock \ {t}
  /\ GoOn(t, "user")
  /\ UNCHANGED <<ctx, ctor, dtor, unflushed, log>>

-----------------------------------------------------------------------------
(* exit (abort calls it too), finalizer and _Exit.                         *)

CallExit(t) ==
  /\ place[t] = "user"
  /\ <<ctx[t], "exit">> \in UserCalls
  /\ GoOn(t, "exit")
  /\ UNCHANGED <<at_exit_list, lock, ctx, entry, ctor, dtor, unflushed,
                 registered, log>>

ExitLock(t) ==
  /\ place[t] = "exit"
  /\ lock = {}
  /\ lock' = {t}
  /\ GoOn(t, "loop")
  /\ UNCHANGED <<at_exit_list, ctx, entry, ctor, dtor, unflushed, registered,
                 log>>

\* while (at_exit_list): call the latest function; it is unlinked and freed
\* when it returns.
ExitLoop(t) ==
  /\ place[t] = "loop"
  /\ \/ /\ at_exit_list # <<>>
        /\ log' = Append(log, Head(at_exit_list))
        /\ ctx' = [ctx EXCEPT ![t] = "handler"]
        /\ GoOn(t, "user")
     \/ /\ at_exit_list = <<>>
        /\ ctx' = [ctx EXCEPT ![t] = "destructor"]
        /\ GoOn(t, "final")
        /\ UNCHANGED log
  /\ UNCHANGED <<at_exit_list, lock, entry, ctor, dtor, unflushed, registered>>

\* Faulty: flushes before the destructors run.
FlushFirst(t) ==
  /\ place[t] = "final"
  /\ unflushed' = IF dtor = Len(FiniTable) THEN FALSE ELSE unflushed
  /\ \/ /\ dtor > 0
        /\ dtor' = dtor - 1
        /\ IF FiniTable[dtor] = Null
             THEN UNCHANGED <<place, log>>
             ELSE GoOn(t, "user") /\ log' = Append(log, FiniTable[dtor])
     \/ /\ dtor = 0
        /\ GoOn(t, "end")
        /\ UNCHANGED <<dtor, log>>
  /\ UNCHANGED <<at_exit_list, lock, ctx, entry, ctor, registered>>

\* finalizer: the table backwards, _fini last, then both flushes.
Finalize(t) ==
  /\ place[t] = "final"
  /\ \/ /\ dtor > 0
        /\ dtor' = dtor - 1
        /\ IF FiniTable[dtor] = Null
             THEN UNCHANGED <<place, log>>
             ELSE GoOn(t, "user") /\ log' = Append(log, FiniTable[dtor])
        /\ UNCHANGED unflushed
     \/ /\ dtor = 0
        /\ unflushed' = FALSE
        /\ GoOn(t, "end")
        /\ UNCHANGED <<dtor, log>>
  /\ UNCHANGED <<at_exit_list, lock, ctx, entry, ctor, registered>>

\* _Exit ends every thread.
_Exit(t) ==
  /\ place[t] = "end"
  /\ ended' = TRUE
  /\ UNCHANGED <<at_exit_list, lock, ctx, place, entry, ctor, dtor, unflushed,
                 registered, log>>

\* The steps of the library, and user code that returns.
ExitRun(t) ==
  \/ t = Main /\ (Construct \/ StartMain)
  \/ UserReturns(t) \/ AtExitLock(t) \/ AtExitLink(t)
  \/ ExitLock(t) \/ ExitLoop(t) \/ Finalize(t)

ExitNext == \E t \in ExitThreads :
  /\ ~ended
  /\ \/ /\ ExitRun(t) \/ Spawn(t) \/ CallExit(t) \/ \E f \in Handlers : AtExit(t, f)
        /\ UNCHANGED ended
     \/ _Exit(t)

ExitSpec == ExitInit /\ [][ExitNext]_exitVars

\* Every thread is scheduled, and what exit and _start call returns.
FairExitSpec ==
  ExitSpec /\ \A t \in ExitThreads :
                /\ WF_exitVars(~ended /\ ExitRun(t) /\ UNCHANGED ended)
                /\ WF_exitVars(~ended /\ _Exit(t))

-----------------------------------------------------------------------------
(* Properties.                                                             *)

\* The calls a process makes when exit starts after n entries of InitTable.
Schedule(n) == Called(InitTable)[n] \o Reverse(registered)
                 \o Reverse(Called(FiniTable)[Len(FiniTable)])

\* Constructors run in table order, then the registered functions in the
\* reverse order of their registration, then the destructors from the last to
\* the first, each once; when the process ends, all of them have run.  Other
\* threads register, and call exit, meanwhile.
CallsInOrder ==
  \E n \in 0 .. Len(InitTable) :
    IF ended THEN log = Schedule(n) ELSE IsPrefix(log, Schedule(n))

\* What the handlers and the destructors print is not lost: it has been
\* flushed by the time the process ends.
OutputFlushed == ended => ~unflushed

\* The thread that exit runs user code in has called back into atexit or exit
\* and waits for the mutex that it holds itself.
WaitsForItself == \E t \in lock : place[t] \in {"register", "exit"}

\* Once a thread calls exit the process ends, whatever other threads register
\* or exit meanwhile; nothing but a call back into the library from a handler
\* or a destructor can prevent it.
ExitEnds == (\E t \in ExitThreads : place[t] = "exit") ~> ended \/ WaitsForItself
=============================================================================
