--------------------------- MODULE ComponentProofs --------------------------
(***************************************************************************)
(* Proofs about the components that MCComponents checks together: Once,    *)
(* for any set of threads, InFile, for any set of readers, source and      *)
(* sizes, Clock, for any units of time, width of a word and delays,        *)
(* Calendar, for every number of seconds, Division, for words of any       *)
(* width, PageAlloc, for pages of any size, any first and last break and   *)
(* any sequence of requests, granted or refused, and RustPages, for any    *)
(* threads, any buffer and any mappings.                                   *)
(***************************************************************************)
EXTENDS Once, InFile, Clock, Calendar, Division, PageAlloc, RustPages,
        ArenaProofs, SequenceTheorems, WellFoundedInduction, TLAPS

-----------------------------------------------------------------------------
(* Once.                                                                   *)

\* What the control word says of the initializers: PENDING exactly while one
\* thread runs or is about to publish, UNINITIALIZED before any call.
WordTellsPhase ==
  /\ once = PENDING <=> Initializers # {}
  /\ once = UNINITIALIZED <=> begun = 0
  /\ \A t \in Threads : place[t] # "out" => once # UNINITIALIZED

\* Who may already rely on a completed run of the routine.
DoneWhenPublished ==
  /\ once = INITIALIZED => done
  /\ \A t \in Threads : place[t] \in {"publish", "wake"} => done

\* RunsOnce is not inductive alone: the compare-exchange lets one thread in
\* only because the word tells whether another one is or has been inside.
OnceInv ==
  /\ TypeOK
  /\ RunsOnce
  /\ WordTellsPhase
  /\ DoneWhenPublished
  /\ NoLostWakeup

\* Before any call the word is UNINITIALIZED and no routine has begun.
LEMMA OnceStarts == OnceInit => OnceInv
  <1> SUFFICES ASSUME OnceInit PROVE OnceInv
    OBVIOUS
  <1> USE DEF OnceInit, UNINITIALIZED, PENDING, INITIALIZED
  <1>1. TypeOK
    BY DEF TypeOK, Locations
  <1>2. Initializers = {} /\ Sleepers = {}
    BY DEF Initializers, Sleepers
  <1>3. RunsOnce /\ WordTellsPhase /\ DoneWhenPublished /\ NoLostWakeup
    BY <1>2 DEF RunsOnce, WordTellsPhase, DoneWhenPublished, NoLostWakeup
  <1>4. QED
    BY <1>1, <1>3 DEF OnceInv

\* Every step preserves the invariant.
LEMMA OnceKeeps ==
  ASSUME OnceInv, [OnceNext]_onceVars
  PROVE  OnceInv'
  <1> USE DEF OnceInv, TypeOK, RunsOnce, WordTellsPhase, DoneWhenPublished,
              NoLostWakeup, Initializers, Sleepers, Locations, Goto,
              UNINITIALIZED, PENDING, INITIALIZED
  <1>1. ASSUME NEW t \in Threads, Call(t) PROVE OnceInv'
    <2>1. CASE once = UNINITIALIZED
      <3>1. /\ once' = PENDING /\ begun' = 1 /\ done' = done
            /\ place' = [place EXCEPT ![t] = "routine"]
        BY <1>1, <2>1 DEF Call
      <3>2. Initializers = {} /\ Sleepers = {} BY <2>1
      <3>3. Initializers' = {t} /\ Sleepers' = {} BY <3>1, <3>2
      <3>4. QED BY <2>1, <3>1, <3>2, <3>3
    <2>2. CASE once # UNINITIALIZED
      <3>1. /\ UNCHANGED <<once, begun, done>>
            /\ place[t] = "out"
            /\ \/ place' = [place EXCEPT ![t] = "futex"]
               \/ once = INITIALIZED /\ place' = [place EXCEPT ![t] = "returned"]
        BY <1>1, <2>2 DEF Call
      <3>2. Initializers' = Initializers /\ Sleepers' = Sleepers
        BY <3>1
      <3>3. QED BY <2>2, <3>1, <3>2
    <2>3. QED BY <2>1, <2>2
  <1>2. ASSUME NEW t \in Threads, RoutineReturns(t) PROVE OnceInv'
    BY <1>2 DEF RoutineReturns
  <1>3. ASSUME NEW t \in Threads, Publish(t) PROVE OnceInv'
    <2>1. Initializers = {t} BY <1>3 DEF Publish
    <2>2. Initializers' = {} BY <1>3, <2>1 DEF Publish
    <2>3. QED BY <1>3, <2>1, <2>2 DEF Publish
  <1>4. ASSUME NEW t \in Threads, WakeAll(t) PROVE OnceInv'
    <2>1. Initializers' = Initializers /\ Sleepers' = {}
      BY <1>4 DEF WakeAll
    <2>2. QED BY <1>4, <2>1 DEF WakeAll
  <1>5. ASSUME NEW t \in Threads, FutexWait(t) PROVE OnceInv'
    <2>1. Initializers' = Initializers BY <1>5 DEF FutexWait
    <2>2. QED BY <1>5, <2>1 DEF FutexWait
  <1>6. ASSUME NEW t \in Threads, Interrupt(t) PROVE OnceInv'
    <2>1. Initializers' = Initializers BY <1>6 DEF Interrupt
    <2>2. QED BY <1>6, <2>1 DEF Interrupt
  <1>7. ASSUME NEW t \in Threads, Leave(t) PROVE OnceInv'
    <2>1. Initializers' = Initializers BY <1>7 DEF Leave
    <2>2. QED BY <1>7, <2>1 DEF Leave
  <1>8. CASE UNCHANGED onceVars
    BY <1>8 DEF onceVars
  <1>9. QED
    BY <1>1, <1>2, <1>3, <1>4, <1>5, <1>6, <1>7, <1>8 DEF OnceNext, Run

\* No step lets a caller return early whose sleep only a wake can end.
LEMMA OnceReturnsKeeps ==
  ASSUME OnceInv, ReturnsInitialized, [OnceNext]_onceVars
  PROVE  ReturnsInitialized'
  <1> USE DEF ReturnsInitialized, OnceInv, TypeOK, Locations, Goto,
              UNINITIALIZED, PENDING, INITIALIZED
  <1>1. ASSUME NEW t \in Threads, Call(t) PROVE ReturnsInitialized'
    BY <1>1 DEF Call, DoneWhenPublished
  <1>2. ASSUME NEW t \in Threads, RoutineReturns(t)
        PROVE  ReturnsInitialized'
    BY <1>2 DEF RoutineReturns
  <1>3. ASSUME NEW t \in Threads, Publish(t) PROVE ReturnsInitialized'
    BY <1>3 DEF Publish
  <1>4. ASSUME NEW t \in Threads, WakeAll(t) PROVE ReturnsInitialized'
    BY <1>4 DEF WakeAll, DoneWhenPublished
  <1>5. ASSUME NEW t \in Threads, FutexWait(t) PROVE ReturnsInitialized'
    BY <1>5 DEF FutexWait, DoneWhenPublished, WordTellsPhase
  <1>6. ASSUME NEW t \in Threads, Leave(t) PROVE ReturnsInitialized'
    BY <1>6 DEF Leave
  <1>7. ASSUME NEW t \in Threads, Interrupt(t) PROVE ReturnsInitialized'
    BY <1>7 DEF Interrupt
  <1>8. CASE UNCHANGED onceVars
    BY <1>8 DEF onceVars
  <1>9. QED
    BY <1>1, <1>2, <1>3, <1>4, <1>5, <1>6, <1>7, <1>8 DEF OnceNext, Run

\* The invariant holds in every reachable state, interrupted sleeps or not.
THEOREM OnceInvariant == OnceSpec => []OnceInv
  BY OnceStarts, OnceKeeps, PTL DEF OnceSpec

\* init_routine is entered at most once.
THEOREM RoutineRunsOnce == OnceSpec => []RunsOnce
  <1>1. OnceInv => RunsOnce
    BY DEF OnceInv
  <1>2. QED
    BY OnceInvariant, <1>1, PTL

\* No caller sleeps without somebody left to publish and to wake it.
THEOREM NoSleeperForgotten == OnceSpec => []NoLostWakeup
  <1>1. OnceInv => NoLostWakeup
    BY DEF OnceInv
  <1>2. QED
    BY OnceInvariant, <1>1, PTL

\* Where FUTEX_WAIT returns only by a wake, pthread_once returns only after the
\* routine has.
THEOREM ReturnsAfterRoutine == OnceSpec => []ReturnsInitialized
  <1>1. OnceInit => ReturnsInitialized
    BY DEF OnceInit, ReturnsInitialized
  <1>2. OnceInv /\ ReturnsInitialized /\ [OnceNext]_onceVars => ReturnsInitialized'
    BY OnceReturnsKeeps
  <1>3. QED
    BY <1>1, <1>2, OnceInvariant, PTL DEF OnceSpec

-----------------------------------------------------------------------------
(* InFile.                                                                 *)

ReaderPlaces == {"idle", "lock", "get", "loop", "unlock"}

InTypeOK ==
  /\ inBuf \in Seq(1 .. SourceLength)
  /\ inStart \in 0 .. Len(inBuf)
  /\ delivered \in 0 .. SourceLength
  /\ inLock \in SUBSET Readers
  /\ reading \in [Readers -> ReaderPlaces]
  /\ want \in [Readers -> Nat]
  /\ got \in [Readers -> Seq(1 .. SourceLength)]
  /\ inLine \in [Readers -> BOOLEAN]
  /\ line \in [Readers -> Seq(1 .. SourceLength)]
  /\ DOMAIN lineResult = Readers
  /\ reads \in Nat
  /\ taken \in Seq(1 .. SourceLength)

\* in.mutex has one owner, and only the owner is in fgetbuf_unlocked.
InLockInv ==
  /\ \A t, u \in inLock : t = u
  /\ \A t \in Readers : reading[t] \notin {"idle", "lock"} => t \in inLock

\* The source up to where it was taken, and the buffer where it was delivered;
\* the loop is entered, and gone on with, only with a byte to take.
StreamInv ==
  /\ Len(taken) = delivered - (Len(inBuf) - inStart)
  /\ \A k \in 1 .. Len(taken) : taken[k] = k
  /\ \A k \in 1 .. Len(inBuf) : inBuf[k] = delivered - Len(inBuf) + k
  /\ \A t \in Readers : reading[t] = "loop" => inStart < Len(inBuf)

\* What a call has taken: consecutive bytes, of which only the last may be a
\* newline, and that only when the call is over.
GotOK(t) ==
  /\ reading[t] \in {"lock", "get"} => got[t] = <<>>
  /\ \A k \in 1 .. Len(got[t]) : got[t][k] <= Len(taken)
  /\ \A k \in 1 .. Len(got[t]) - 1 :
       got[t][k] \notin Newlines /\ got[t][k + 1] = got[t][k] + 1
  /\ reading[t] = "loop" /\ got[t] # <<>> =>
       /\ got[t][Len(got[t])] = Len(taken)
       /\ got[t][Len(got[t])] \notin Newlines
  /\ reading[t] = "unlock" /\ got[t] = <<>> => want[t] = 0 \/ inStart = Len(inBuf)
GotInv == \A t \in Readers : GotOK(t)

\* What read_line has from earlier calls: bytes taken before, in order and
\* without a newline; and what it returned.
LineOK(t) ==
  /\ reading[t] # "idle" =>
       /\ \A k \in 1 .. Len(line[t]) :
            /\ line[t][k] \notin Newlines
            /\ line[t][k] <= Len(taken)
            /\ got[t] # <<>> => line[t][k] < got[t][1]
       /\ \A k \in 1 .. Len(line[t]) - 1 : line[t][k] < line[t][k + 1]
  /\ reading[t] = "idle" =>
       /\ line[t] # <<>> => Last(line[t]) \in Newlines \/ got[t] = <<>>
       /\ lineResult[t] = IF from_utf8(line[t]) THEN Len(line[t]) ELSE EIO
LineInv == \A t \in Readers : inLine[t] => LineOK(t)

InInv == InTypeOK /\ InLockInv /\ StreamInv /\ GotInv /\ LineInv

-----------------------------------------------------------------------------
(* Steps.                                                                  *)

Bytes == 1 .. SourceLength

\* Only t moves: what the others have stays, and so does the file, unless the
\* others are outside of fgetbuf_unlocked.
OnlyMoves(t) ==
  /\ \A u \in Readers \ {t} :
       /\ reading'[u] = reading[u] /\ want'[u] = want[u] /\ got'[u] = got[u]
       /\ inLine'[u] = inLine[u] /\ line'[u] = line[u]
       /\ lineResult'[u] = lineResult[u]
       /\ UNCHANGED inFile \/ reading[u] \in {"idle", "lock"}
  /\ Len(taken') \in Nat /\ Len(taken') >= Len(taken)

LEMMA OthersKeep ==
  ASSUME InTypeOK, GotInv, LineInv, NEW t \in Readers, OnlyMoves(t)
  PROVE  \A u \in Readers \ {t} :
           GotOK(u)' /\ (inLine'[u] => LineOK(u)')
  <1> SUFFICES ASSUME NEW u \in Readers \ {t}
               PROVE  GotOK(u)' /\ (inLine'[u] => LineOK(u)')
    OBVIOUS
  <1>1. /\ reading'[u] = reading[u] /\ want'[u] = want[u] /\ got'[u] = got[u]
        /\ inLine'[u] = inLine[u] /\ line'[u] = line[u]
        /\ lineResult'[u] = lineResult[u]
        /\ UNCHANGED inFile \/ reading[u] \in {"idle", "lock"}
        /\ Len(taken') \in Nat /\ Len(taken') >= Len(taken)
    BY DEF OnlyMoves
  <1>2. /\ got[u] \in Seq(Bytes) /\ line[u] \in Seq(Bytes)
        /\ taken \in Seq(Bytes)
    BY DEF InTypeOK, Bytes
  <1>3. /\ Len(got[u]) \in Nat /\ Len(line[u]) \in Nat /\ Len(taken) \in Nat
        /\ \A k \in 1 .. Len(got[u]) : got[u][k] \in Int
        /\ \A k \in 1 .. Len(line[u]) : line[u][k] \in Int
    <2>1. Len(got[u]) \in Nat /\ Len(line[u]) \in Nat /\ Len(taken) \in Nat
      BY <1>2, LenProperties
    <2>2. \A k \in 1 .. Len(got[u]) : got[u][k] \in Bytes
      BY <1>2, ElementOfSeq
    <2>3. \A k \in 1 .. Len(line[u]) : line[u][k] \in Bytes
      BY <1>2, ElementOfSeq
    <2>4. Bytes \subseteq Int
      BY InAssumption DEF Bytes
    <2>5. QED
      BY <2>1, <2>2, <2>3, <2>4
  <1>4. GotOK(u) /\ (inLine[u] => LineOK(u))
    BY DEF GotInv, LineInv
  <1>5. GotOK(u)'
    <2>1. CASE UNCHANGED inFile
      BY <2>1, <1>1, <1>4 DEF GotOK, inFile
    <2>2. CASE reading[u] \in {"idle", "lock"}
      <3>1. reading'[u] \in {"idle", "lock"} /\ got'[u] = got[u]
        BY <2>2, <1>1
      <3>2. reading[u] = "lock" => got[u] = <<>>
        BY <1>4 DEF GotOK
      <3>3. \A k \in 1 .. Len(got[u]) : got[u][k] <= Len(taken')
        BY <1>1, <1>3, <1>4 DEF GotOK
      <3>4. QED
        BY <3>1, <3>2, <3>3, <1>1, <1>4 DEF GotOK
    <2>3. QED
      BY <2>1, <2>2, <1>1
  <1>6. ASSUME inLine'[u] PROVE LineOK(u)'
    <2>1. LineOK(u)
      BY <1>1, <1>4, <1>6
    <2>2. \A k \in 1 .. Len(line[u]) : line[u][k] <= Len(taken) => line[u][k] <= Len(taken')
      BY <1>1, <1>3
    <2>3. QED
      BY <2>1, <2>2, <1>1 DEF LineOK
  <1>7. QED
    BY <1>5, <1>6

LEMMA ReadersApart ==
  ASSUME InLockInv, NEW t \in Readers, NEW u \in Readers \ {t},
         reading[t] \notin {"idle", "lock"}
  PROVE  reading[u] \in {"idle", "lock"}
  BY DEF InLockInv

LEMMA ReadersStart == InInit => InInv
  <1> SUFFICES ASSUME InInit PROVE InInv
    OBVIOUS
  <1>1. <<>> \in Seq(Bytes) /\ Len(<<>>) = 0
    BY EmptySeq
  <1>2. InTypeOK
    BY <1>1, InAssumption DEF InInit, InTypeOK, ReaderPlaces, Bytes
  <1>3. InLockInv
    BY DEF InInit, InLockInv
  <1>4. StreamInv
    <2>1. /\ inBuf = <<>> /\ taken = <<>> /\ inStart = 0 /\ delivered = 0
          /\ \A t \in Readers : reading[t] = "idle"
      BY DEF InInit
    <2>2. Len(taken) = 0 /\ Len(inBuf) = 0
      BY <2>1, <1>1
    <2>3. Len(taken) = delivered - (Len(inBuf) - inStart)
      <3>1. inStart = 0 /\ delivered = 0
        BY <2>1
      <3>2. QED
        BY <3>1, <2>2
    <2>4. /\ \A k \in 1 .. Len(taken) : taken[k] = k
          /\ \A k \in 1 .. Len(inBuf) : inBuf[k] = delivered - Len(inBuf) + k
      BY <2>2
    <2>5. QED
      BY <2>1, <2>3, <2>4 DEF StreamInv
  <1>5. GotInv
    BY <1>1 DEF InInit, GotInv, GotOK
  <1>6. LineInv
    BY DEF InInit, LineInv
  <1>7. QED
    BY <1>2, <1>3, <1>4, <1>5, <1>6 DEF InInv

\* The steps that move neither bytes nor lines.
LEMMA StartKeeps ==
  ASSUME InInv, NEW t \in Readers, ReadBytes(t) \/ ReadLine(t)
  PROVE  InInv'
  <1>1. PICK n \in Nat, l \in BOOLEAN : StartReading(t, n, l)
    BY InAssumption DEF ReadBytes, ReadLine
  <1>2. <<>> \in Seq(Bytes) /\ Len(<<>>) = 0
    BY EmptySeq
  <1>3. InTypeOK'
    BY <1>1, <1>2
    DEF InInv, InTypeOK, StartReading, ReaderTo, ReaderPlaces, inFile, Bytes
  <1>4. InLockInv'
    BY <1>1 DEF InInv, InTypeOK, InLockInv, StartReading, ReaderTo
  <1>5. StreamInv'
    BY <1>1 DEF InInv, InTypeOK, StreamInv, StartReading, ReaderTo, inFile
  <1>6. Len(taken) \in Nat
    BY LenProperties DEF InInv, InTypeOK
  <1>7. OnlyMoves(t)
    BY <1>1, <1>6 DEF InInv, InTypeOK, OnlyMoves, StartReading, ReaderTo, inFile
  <1>8. /\ reading'[t] = "lock" /\ got'[t] = <<>> /\ line'[t] = <<>>
    BY <1>1 DEF InInv, InTypeOK, StartReading, ReaderTo
  <1>9. GotOK(t)' /\ LineOK(t)'
    BY <1>2, <1>8 DEF GotOK, LineOK
  <1>10. GotInv' /\ LineInv'
    BY <1>7, <1>9, OthersKeep DEF InInv, GotInv, LineInv
  <1>11. QED
    BY <1>3, <1>4, <1>5, <1>10 DEF InInv

LEMMA LockKeeps ==
  ASSUME InInv, NEW t \in Readers, LockIn(t)
  PROVE  InInv'
  <1>1. InTypeOK'
    BY DEF InInv, InTypeOK, LockIn, ReaderTo, ReaderPlaces, inFile, lineVars
  <1>2. InLockInv'
    BY DEF InInv, InTypeOK, InLockInv, LockIn, ReaderTo
  <1>3. StreamInv'
    BY DEF InInv, InTypeOK, StreamInv, LockIn, ReaderTo, inFile
  <1>4. Len(taken) \in Nat
    BY LenProperties DEF InInv, InTypeOK
  <1>5. OnlyMoves(t)
    BY <1>4 DEF InInv, InTypeOK, OnlyMoves, LockIn, ReaderTo, inFile, lineVars
  <1>6. /\ reading[t] = "lock" /\ reading'[t] = "get"
        /\ UNCHANGED <<want, got, lineVars, inFile>>
    BY DEF InInv, InTypeOK, LockIn, ReaderTo
  <1>7. GotOK(t)'
    BY <1>6 DEF InInv, GotInv, GotOK, inFile
  <1>8. inLine'[t] => LineOK(t)'
    BY <1>6 DEF InInv, LineInv, LineOK, inFile, lineVars
  <1>9. GotInv' /\ LineInv'
    BY <1>5, <1>7, <1>8, OthersKeep DEF InInv, GotInv, LineInv
  <1>10. QED
    BY <1>1, <1>2, <1>3, <1>9 DEF InInv

LEMMA BufferedKeeps ==
  ASSUME InInv, NEW t \in Readers, Buffered(t)
  PROVE  InInv'
  <1>1. InTypeOK'
    BY DEF InInv, InTypeOK, Buffered, ReaderTo, ReaderPlaces, inFile, lineVars
  <1>2. InLockInv'
    BY DEF InInv, InTypeOK, InLockInv, Buffered, ReaderTo
  <1>3. Len(taken) \in Nat /\ Len(inBuf) \in Nat /\ inStart < Len(inBuf)
    BY LenProperties DEF InInv, InTypeOK, Buffered
  <1>4. StreamInv'
    BY <1>3 DEF InInv, InTypeOK, StreamInv, Buffered, ReaderTo, inFile
  <1>5. OnlyMoves(t)
    BY <1>3 DEF InInv, InTypeOK, OnlyMoves, Buffered, ReaderTo, inFile, lineVars
  <1>6. /\ reading[t] = "get" /\ reading'[t] = "loop"
        /\ UNCHANGED <<want, got, lineVars, inFile>>
    BY DEF InInv, InTypeOK, Buffered, ReaderTo
  <1>7. GotOK(t)'
    BY <1>6 DEF InInv, GotInv, GotOK, inFile
  <1>8. inLine'[t] => LineOK(t)'
    BY <1>6 DEF InInv, LineInv, LineOK, inFile, lineVars
  <1>9. GotInv' /\ LineInv'
    BY <1>5, <1>7, <1>8, OthersKeep DEF InInv, GotInv, LineInv
  <1>10. QED
    BY <1>1, <1>2, <1>4, <1>9 DEF InInv

\* read is called with all that it delivered before taken, and delivers what
\* follows.
LEMMA FillKeeps ==
  ASSUME InInv, NEW t \in Readers, Fill(t)
  PROVE  InInv'
  <1>1. PICK r \in Deliverable : /\ inBuf' = [k \in 1 .. r |-> delivered + k]
                                 /\ delivered' = delivered + r
    BY DEF Fill
  <1>2. r \in Nat \ {0} /\ delivered \in Nat /\ delivered + r <= SourceLength
    BY InAssumption DEF InInv, InTypeOK, Deliverable
  <1>3. inBuf' \in Seq(Bytes) /\ Len(inBuf') = r
    BY <1>1, <1>2, InAssumption DEF Bytes
  <1>4. /\ reading[t] = "get" /\ inStart = Len(inBuf)
        /\ inStart' = 0
        /\ reading' = [reading EXCEPT ![t] = "loop"]
        /\ UNCHANGED <<inLock, want, got, inLine, line, lineResult, reads, taken>>
    BY DEF Fill, ReaderTo, lineVars
  <1>5. InTypeOK'
    BY <1>1, <1>2, <1>3, <1>4, InAssumption DEF InInv, InTypeOK, ReaderPlaces, Bytes
  <1>6. InLockInv'
    BY <1>4 DEF InInv, InTypeOK, InLockInv
  <1>7. Len(taken) \in Nat /\ Len(inBuf) \in Nat
    BY LenProperties DEF InInv, InTypeOK
  <1>8. \A u \in Readers \ {t} : reading[u] \in {"idle", "lock"}
    BY <1>4, ReadersApart DEF InInv
  <1>9. StreamInv'
    <2>1. Len(taken) = delivered
      BY <1>2, <1>4, <1>7 DEF InInv, StreamInv
    <2>2. \A k \in 1 .. Len(inBuf') : inBuf'[k] = delivered' - Len(inBuf') + k
      BY <1>1, <1>2, <1>3
    <2>3. Len(taken') = delivered' - (Len(inBuf') - inStart')
      <3>1. Len(taken') = Len(taken) /\ inStart' = 0 /\ delivered' = delivered + r
        BY <1>1, <1>4
      <3>2. QED
        BY <3>1, <2>1, <1>2, <1>3
    <2>4. inStart' < Len(inBuf')
      BY <1>2, <1>3, <1>4
    <2>5. \A k \in 1 .. Len(taken') : taken'[k] = k
      BY <1>4 DEF InInv, StreamInv
    <2>6. QED
      BY <2>2, <2>3, <2>4, <2>5 DEF StreamInv
  <1>10. OnlyMoves(t)
    BY <1>4, <1>7, <1>8 DEF InInv, InTypeOK, OnlyMoves
  <1>11. reading'[t] = "loop"
    BY <1>4 DEF InInv, InTypeOK
  <1>12. GotOK(t)'
    BY <1>4, <1>11 DEF InInv, GotInv, GotOK
  <1>13. inLine'[t] => LineOK(t)'
    BY <1>4, <1>11 DEF InInv, LineInv, LineOK
  <1>14. GotInv' /\ LineInv'
    BY <1>10, <1>12, <1>13, OthersKeep DEF InInv, GotInv, LineInv
  <1>15. QED
    BY <1>5, <1>6, <1>9, <1>14 DEF InInv

LEMMA FillNothingKeeps ==
  ASSUME InInv, NEW t \in Readers, FillNothing(t)
  PROVE  InInv'
  <1>1. /\ reading[t] = "get" /\ inStart = Len(inBuf)
        /\ inBuf' = <<>> /\ inStart' = 0
        /\ reading' = [reading EXCEPT ![t] = "unlock"]
        /\ UNCHANGED <<delivered, inLock, want, got, inLine, line, lineResult,
                       reads, taken>>
    BY DEF FillNothing, ReaderTo, lineVars
  <1>2. inBuf' \in Seq(Bytes) /\ Len(inBuf') = 0
    BY <1>1, EmptySeq
  <1>3. InTypeOK'
    BY <1>1, <1>2 DEF InInv, InTypeOK, ReaderPlaces, Bytes
  <1>4. InLockInv'
    BY <1>1 DEF InInv, InTypeOK, InLockInv
  <1>5. Len(taken) \in Nat /\ Len(inBuf) \in Nat
    BY LenProperties DEF InInv, InTypeOK
  <1>6. \A u \in Readers \ {t} : reading[u] \in {"idle", "lock"}
    BY <1>1, ReadersApart DEF InInv
  <1>7. reading'[t] = "unlock"
    BY <1>1 DEF InInv, InTypeOK
  <1>8. StreamInv'
    <2>1. Len(taken') = delivered' - (Len(inBuf') - inStart')
      BY <1>1, <1>2, <1>5 DEF InInv, InTypeOK, StreamInv
    <2>2. \A u \in Readers : reading'[u] # "loop"
      BY <1>1, <1>6 DEF InInv, InTypeOK
    <2>3. QED
      BY <2>1, <2>2, <1>1, <1>2 DEF InInv, StreamInv
  <1>9. OnlyMoves(t)
    BY <1>1, <1>5, <1>6 DEF InInv, InTypeOK, OnlyMoves
  <1>10. GotOK(t)'
    BY <1>1, <1>2, <1>7 DEF InInv, GotInv, GotOK
  <1>11. inLine'[t] => LineOK(t)'
    BY <1>1, <1>7 DEF InInv, LineInv, LineOK
  <1>12. GotInv' /\ LineInv'
    BY <1>9, <1>10, <1>11, OthersKeep DEF InInv, GotInv, LineInv
  <1>13. QED
    BY <1>3, <1>4, <1>8, <1>12 DEF InInv

-----------------------------------------------------------------------------
(* The loop.                                                               *)

\* The next byte of the buffer is the next one of the source.
LEMMA NextIsNext ==
  ASSUME InTypeOK, StreamInv, inStart < Len(inBuf)
  PROVE  /\ inBuf[inStart + 1] = Len(taken) + 1
         /\ inBuf[inStart + 1] \in Bytes
  <1>1. /\ Len(inBuf) \in Nat /\ Len(taken) \in Nat
        /\ inStart \in Nat /\ delivered \in Nat
    BY LenProperties, InAssumption DEF InTypeOK
  <1>2. inStart + 1 \in 1 .. Len(inBuf)
    BY <1>1
  <1>3. inBuf[inStart + 1] \in Bytes
    BY <1>2, ElementOfSeq DEF InTypeOK, Bytes
  <1>4. inBuf[inStart + 1] = delivered - Len(inBuf) + (inStart + 1)
    BY <1>2 DEF StreamInv
  <1>5. Len(taken) = delivered - (Len(inBuf) - inStart)
    BY DEF StreamInv
  <1>6. QED
    BY <1>1, <1>3, <1>4, <1>5

\* A byte is taken.
LEMMA TakeByteKeeps ==
  ASSUME InInv, NEW t \in Readers, Take(t), Len(got[t]) < want[t]
  PROVE  InInv'
  <1> DEFINE c == inBuf[inStart + 1]
             n == Len(taken)
             g == got[t]
  <1>1. reading[t] = "loop" /\ inStart < Len(inBuf)
    BY DEF Take, InInv, StreamInv
  <1>2. c = n + 1 /\ c \in Bytes
    BY <1>1, NextIsNext DEF InInv
  <1>3. /\ got' = [got EXCEPT ![t] = Append(got[t], c)]
        /\ taken' = Append(taken, c)
        /\ inStart' = inStart + 1
        /\ reading' = [reading EXCEPT ![t] =
                         IF c \in Newlines \/ inStart + 1 = Len(inBuf)
                           THEN "unlock" ELSE "loop"]
        /\ UNCHANGED <<inBuf, delivered, inLock, want, inLine, line, lineResult, reads>>
    BY DEF Take, TakeByte, ReaderTo, lineVars
  <1>4. /\ g \in Seq(Bytes) /\ taken \in Seq(Bytes)
        /\ Len(g) \in Nat /\ n \in Nat /\ Len(inBuf) \in Nat
        /\ inStart \in Nat /\ delivered \in Nat
    BY LenProperties, InAssumption DEF InInv, InTypeOK, Bytes
  <1> HIDE DEF c
  <1>5. /\ taken' \in Seq(Bytes) /\ Len(taken') = n + 1
        /\ \A k \in 1 .. n : taken'[k] = taken[k]
        /\ taken'[n + 1] = c
    BY <1>2, <1>3, <1>4, AppendProperties
  <1>6. got'[t] = Append(g, c)
    BY <1>3 DEF InInv, InTypeOK
  <1> HIDE DEF g
  <1>7. /\ got'[t] \in Seq(Bytes) /\ Len(got'[t]) = Len(g) + 1
        /\ got'[t] # <<>>
        /\ \A k \in 1 .. Len(g) : got'[t][k] = g[k]
        /\ got'[t][Len(g) + 1] = c
    BY <1>2, <1>4, <1>6, AppendProperties
  <1>8. /\ reading'[t] \in {"unlock", "loop"}
        /\ reading'[t] = "loop" => c \notin Newlines /\ inStart + 1 # Len(inBuf)
    BY <1>3 DEF InInv, InTypeOK
  <1>9. InTypeOK'
    <2>1. reading' \in [Readers -> ReaderPlaces]
      BY <1>3 DEF InInv, InTypeOK, ReaderPlaces
    <2>2. got' \in [Readers -> Seq(Bytes)]
      BY <1>3, <1>6, <1>7 DEF InInv, InTypeOK, Bytes
    <2>3. inStart' \in 0 .. Len(inBuf')
      BY <1>1, <1>3, <1>4
    <2>4. QED
      BY <2>1, <2>2, <2>3, <1>3, <1>5 DEF InInv, InTypeOK, Bytes
  <1>10. InLockInv'
    BY <1>1, <1>3 DEF InInv, InTypeOK, InLockInv
  <1>11. \A u \in Readers \ {t} : reading[u] \in {"idle", "lock"}
    BY <1>1, ReadersApart DEF InInv
  <1>12. StreamInv'
    <2>1. Len(taken') = delivered' - (Len(inBuf') - inStart')
      BY <1>3, <1>4, <1>5 DEF InInv, StreamInv
    <2>2. \A k \in 1 .. Len(taken') : taken'[k] = k
      <3>1. \A k \in 1 .. n : taken[k] = k
        BY DEF InInv, StreamInv
      <3>2. QED
        BY <3>1, <1>2, <1>4, <1>5
    <2>3. \A u \in Readers : reading'[u] = "loop" => inStart' < Len(inBuf')
      <3>1. reading'[t] = "loop" => inStart' < Len(inBuf')
        BY <1>1, <1>3, <1>4, <1>8
      <3>2. \A u \in Readers \ {t} : reading'[u] # "loop"
        BY <1>3, <1>11 DEF InInv, InTypeOK
      <3>3. QED
        BY <3>1, <3>2
    <2>4. QED
      BY <2>1, <2>2, <2>3, <1>3 DEF InInv, StreamInv
  <1>13. OnlyMoves(t)
    BY <1>3, <1>4, <1>5, <1>11 DEF InInv, InTypeOK, OnlyMoves
  <1>14. /\ \A k \in 1 .. Len(g) : g[k] \in Nat /\ g[k] <= n
         /\ \A k \in 1 .. Len(g) - 1 : g[k] \notin Newlines /\ g[k + 1] = g[k] + 1
         /\ g # <<>> => g[Len(g)] = n /\ g[Len(g)] \notin Newlines
    <2>1. \A k \in 1 .. Len(g) : g[k] \in Nat
      BY <1>4, ElementOfSeq, InAssumption DEF Bytes
    <2>2. GotOK(t)
      BY DEF InInv, GotInv
    <2>3. QED
      BY <2>1, <2>2, <1>1 DEF GotOK, g
  <1>15. GotOK(t)'
    <2>1. \A k \in 1 .. Len(got'[t]) : got'[t][k] <= Len(taken')
      <3> SUFFICES ASSUME NEW k \in 1 .. Len(got'[t]) PROVE got'[t][k] <= Len(taken')
        OBVIOUS
      <3>1. k \in 1 .. Len(g) \/ k = Len(g) + 1
        BY <1>4, <1>7
      <3>2. ASSUME k \in 1 .. Len(g) PROVE got'[t][k] <= Len(taken')
        <4>1. got'[t][k] = g[k] /\ g[k] \in Nat /\ g[k] <= n
          BY <3>2, <1>7, <1>14
        <4>2. QED
          BY <4>1, <1>4, <1>5
      <3>3. ASSUME k = Len(g) + 1 PROVE got'[t][k] <= Len(taken')
        BY <3>3, <1>2, <1>4, <1>5, <1>7
      <3>4. QED
        BY <3>1, <3>2, <3>3
    <2>2. \A k \in 1 .. Len(got'[t]) - 1 :
            got'[t][k] \notin Newlines /\ got'[t][k + 1] = got'[t][k] + 1
      <3> SUFFICES ASSUME NEW k \in 1 .. Len(g)
                   PROVE  /\ got'[t][k] \notin Newlines
                          /\ got'[t][k + 1] = got'[t][k] + 1
        BY <1>4, <1>7
      <3>1. CASE k = Len(g)
        <4>1. g # <<>>
          BY <3>1, EmptySeq
        <4>2. QED
          BY <4>1, <3>1, <1>2, <1>4, <1>7, <1>14
      <3>2. CASE k # Len(g)
        <4>1. k \in 1 .. Len(g) - 1 /\ k + 1 \in 1 .. Len(g)
          BY <3>2, <1>4
        <4>2. QED
          BY <4>1, <1>7, <1>14
      <3>3. QED
        BY <3>1, <3>2
    <2>3. reading'[t] = "loop" => /\ got'[t][Len(got'[t])] = Len(taken')
                                  /\ got'[t][Len(got'[t])] \notin Newlines
      BY <1>2, <1>5, <1>7, <1>8
    <2>4. QED
      BY <2>1, <2>2, <2>3, <1>7, <1>8 DEF GotOK
  <1>16. ASSUME inLine'[t] PROVE LineOK(t)'
    <2>1. LineOK(t)
      BY <1>3, <1>16 DEF InInv, LineInv
    <2> DEFINE l == line[t]
    <2>2. l \in Seq(Bytes) /\ Len(l) \in Nat /\ \A k \in 1 .. Len(l) : l[k] \in Nat
      <3>1. l \in Seq(Bytes) /\ Len(l) \in Nat
        BY LenProperties DEF InInv, InTypeOK, Bytes
      <3> HIDE DEF l
      <3>2. \A k \in 1 .. Len(l) : l[k] \in Bytes
        BY <3>1, ElementOfSeq
      <3>3. QED
        BY <3>1, <3>2, InAssumption DEF Bytes
    <2>3. /\ \A k \in 1 .. Len(l) : /\ l[k] \notin Newlines /\ l[k] <= n
                                    /\ g # <<>> => l[k] < g[1]
          /\ \A k \in 1 .. Len(l) - 1 : l[k] < l[k + 1]
      BY <2>1, <1>1 DEF LineOK, g
    <2>4. line'[t] = l
      BY <1>3
    <2> HIDE DEF l
    <2>5. \A k \in 1 .. Len(l) : l[k] <= Len(taken') /\ l[k] < got'[t][1]
      <3>1. CASE g = <<>>
        <4>1. got'[t][1] = c
          BY <3>1, <1>7, EmptySeq
        <4>2. QED
          BY <4>1, <2>2, <2>3, <1>2, <1>4, <1>5
      <3>2. CASE g # <<>>
        <4>1. 1 \in 1 .. Len(g)
          BY <3>2, <1>4, EmptySeq
        <4>2. QED
          BY <4>1, <3>2, <2>2, <2>3, <1>4, <1>5, <1>7
      <3>3. QED
        BY <3>1, <3>2
    <2>6. QED
      BY <2>3, <2>4, <2>5, <1>8 DEF LineOK
  <1>17. GotInv' /\ LineInv'
    BY <1>13, <1>15, <1>16, OthersKeep DEF InInv, GotInv, LineInv
  <1>18. QED
    BY <1>9, <1>10, <1>12, <1>17 DEF InInv

\* The call has what it asked for.
LEMMA TakeNothingKeeps ==
  ASSUME InInv, NEW t \in Readers, Take(t), ~(Len(got[t]) < want[t])
  PROVE  InInv'
  <1>1. /\ reading[t] = "loop"
        /\ reading' = [reading EXCEPT ![t] = "unlock"]
        /\ UNCHANGED <<inBuf, inStart, delivered, taken, inLock, want, got, inLine,
                       line, lineResult, reads>>
    BY DEF Take, ReaderTo, lineVars
  <1>2. InTypeOK'
    BY <1>1 DEF InInv, InTypeOK, ReaderPlaces
  <1>3. InLockInv'
    BY <1>1 DEF InInv, InTypeOK, InLockInv
  <1>4. StreamInv'
    BY <1>1 DEF InInv, InTypeOK, StreamInv
  <1>5. Len(taken) \in Nat /\ want[t] \in Nat
    BY LenProperties DEF InInv, InTypeOK
  <1>6. OnlyMoves(t)
    BY <1>1, <1>5 DEF InInv, InTypeOK, OnlyMoves, inFile
  <1>7. reading'[t] = "unlock"
    BY <1>1 DEF InInv, InTypeOK
  <1>8. got[t] = <<>> => want[t] = 0
    BY <1>5, EmptySeq
  <1>9. GotOK(t)'
    BY <1>1, <1>7, <1>8 DEF InInv, GotInv, GotOK
  <1>10. inLine'[t] => LineOK(t)'
    BY <1>1, <1>7 DEF InInv, LineInv, LineOK
  <1>11. GotInv' /\ LineInv'
    BY <1>6, <1>9, <1>10, OthersKeep DEF InInv, GotInv, LineInv
  <1>12. QED
    BY <1>2, <1>3, <1>4, <1>11 DEF InInv

-----------------------------------------------------------------------------
(* The returns.                                                            *)

LEMMA UnlockKeeps ==
  ASSUME InInv, NEW t \in Readers, UnlockIn(t)
  PROVE  InInv'
  <1>1. /\ reading[t] = "unlock" /\ ~inLine[t]
        /\ inLock' = inLock \ {t}
        /\ reading' = [reading EXCEPT ![t] = "idle"]
        /\ UNCHANGED <<inBuf, inStart, delivered, taken, want, got, inLine,
                       line, lineResult, reads>>
    BY DEF UnlockIn, ReaderTo, lineVars, inFile
  <1>2. InTypeOK'
    BY <1>1 DEF InInv, InTypeOK, ReaderPlaces
  <1>3. InLockInv'
    BY <1>1 DEF InInv, InTypeOK, InLockInv
  <1>4. StreamInv'
    BY <1>1 DEF InInv, InTypeOK, StreamInv
  <1>5. Len(taken) \in Nat
    BY LenProperties DEF InInv, InTypeOK
  <1>6. OnlyMoves(t)
    BY <1>1, <1>5 DEF InInv, InTypeOK, OnlyMoves, inFile
  <1>7. reading'[t] = "idle"
    BY <1>1 DEF InInv, InTypeOK
  <1>8. GotOK(t)'
    BY <1>1, <1>7 DEF InInv, GotInv, GotOK
  <1>9. GotInv' /\ LineInv'
    BY <1>1, <1>6, <1>8, OthersKeep DEF InInv, GotInv, LineInv
  <1>10. QED
    BY <1>2, <1>3, <1>4, <1>9 DEF InInv

\* All that a call of read_line has: bytes in order, of one line.
LEMMA AllOfLine ==
  ASSUME InInv, NEW t \in Readers, inLine[t], reading[t] # "idle"
  PROVE  LET all == line[t] \o got[t] IN
         /\ all \in Seq(Bytes) /\ Len(all) \in Nat
         /\ \A k \in 1 .. Len(all) : all[k] <= Len(taken)
         /\ \A k \in 1 .. Len(all) - 1 : all[k] \notin Newlines /\ all[k] < all[k + 1]
         /\ got[t] # <<>> => Len(all) \in 1 .. Len(all) /\ all[Len(all)] = Last(got[t])
  <1> DEFINE l == line[t]
             g == got[t]
             all == l \o g
  <1>1. l \in Seq(Bytes) /\ g \in Seq(Bytes) /\ Len(l) \in Nat /\ Len(g) \in Nat
        /\ Len(taken) \in Nat
    BY LenProperties DEF InInv, InTypeOK, Bytes
  <1>2. /\ \A k \in 1 .. Len(l) : l[k] \in Nat
        /\ \A k \in 1 .. Len(g) : g[k] \in Nat
    <2> HIDE DEF l, g
    <2>1. /\ \A k \in 1 .. Len(l) : l[k] \in Bytes
          /\ \A k \in 1 .. Len(g) : g[k] \in Bytes
      BY <1>1, ElementOfSeq
    <2>2. QED
      BY <2>1, InAssumption DEF Bytes
  <1>3. /\ \A k \in 1 .. Len(l) : /\ l[k] \notin Newlines /\ l[k] <= Len(taken)
                                  /\ g # <<>> => l[k] < g[1]
        /\ \A k \in 1 .. Len(l) - 1 : l[k] < l[k + 1]
    BY DEF InInv, LineInv, LineOK
  <1>4. /\ \A k \in 1 .. Len(g) : g[k] <= Len(taken)
        /\ \A k \in 1 .. Len(g) - 1 : g[k] \notin Newlines /\ g[k + 1] = g[k] + 1
    BY DEF InInv, GotInv, GotOK
  <1>5. g # <<>> => Len(g) >= 1 /\ Last(g) = g[Len(g)]
    BY <1>1, EmptySeq DEF Last
  <1> HIDE DEF l, g
  <1>6. /\ all \in Seq(Bytes) /\ Len(all) = Len(l) + Len(g)
        /\ \A k \in 1 .. Len(l) : all[k] = l[k]
        /\ \A k \in Len(l) + 1 .. Len(l) + Len(g) : all[k] = g[k - Len(l)]
    BY <1>1, ConcatProperties
  <1> HIDE DEF all
  <1>7. \A k \in 1 .. Len(all) : all[k] <= Len(taken)
    <2> SUFFICES ASSUME NEW k \in 1 .. Len(all) PROVE all[k] <= Len(taken)
      OBVIOUS
    <2>1. CASE k <= Len(l)
      <3>1. k \in 1 .. Len(l) /\ all[k] = l[k]
        BY <2>1, <1>1, <1>6
      <3>2. QED
        BY <3>1, <1>1, <1>3
    <2>2. CASE k > Len(l)
      <3>1. k \in Len(l) + 1 .. Len(l) + Len(g) /\ k - Len(l) \in 1 .. Len(g)
        BY <2>2, <1>1, <1>6
      <3>2. QED
        BY <3>1, <1>4, <1>6
    <2>3. QED
      BY <2>1, <2>2, <1>1
  <1>8. \A k \in 1 .. Len(all) - 1 : all[k] \notin Newlines /\ all[k] < all[k + 1]
    <2> SUFFICES ASSUME NEW k \in 1 .. Len(all) - 1
                 PROVE  all[k] \notin Newlines /\ all[k] < all[k + 1]
      OBVIOUS
    <2>1. CASE k < Len(l)
      <3>1. k \in 1 .. Len(l) - 1 /\ k \in 1 .. Len(l) /\ k + 1 \in 1 .. Len(l)
        BY <2>1, <1>1
      <3>2. QED
        BY <3>1, <1>3, <1>6
    <2>2. CASE k = Len(l)
      <3>1. k \in 1 .. Len(l) /\ k + 1 \in Len(l) + 1 .. Len(l) + Len(g)
        BY <2>2, <1>1, <1>6
      <3>2. g # <<>> /\ k + 1 - Len(l) = 1
        BY <3>1, <2>2, <1>1, EmptySeq
      <3>3. all[k] = l[k] /\ all[k + 1] = g[1]
        BY <3>1, <3>2, <1>6
      <3>4. QED
        BY <3>1, <3>2, <3>3, <1>3
    <2>3. CASE k > Len(l)
      <3> DEFINE i == k - Len(l)
      <3>1. /\ k \in Len(l) + 1 .. Len(l) + Len(g)
            /\ k + 1 \in Len(l) + 1 .. Len(l) + Len(g)
            /\ i \in 1 .. Len(g) - 1 /\ i \in 1 .. Len(g) /\ k + 1 - Len(l) = i + 1
        BY <2>3, <1>1, <1>6
      <3>2. all[k] = g[i] /\ all[k + 1] = g[i + 1]
        BY <3>1, <1>6
      <3> HIDE DEF i
      <3>3. g[i] \in Nat /\ g[i] \notin Newlines /\ g[i + 1] = g[i] + 1
        BY <3>1, <1>2, <1>4
      <3>4. QED
        BY <3>2, <3>3
    <2>4. QED
      BY <2>1, <2>2, <2>3, <1>1
  <1>9. ASSUME g # <<>>
        PROVE  Len(all) \in 1 .. Len(all) /\ all[Len(all)] = Last(g)
    <2>1. Len(all) \in Len(l) + 1 .. Len(l) + Len(g) /\ Len(all) - Len(l) = Len(g)
      BY <1>1, <1>5, <1>6, <1>9
    <2>2. QED
      BY <2>1, <1>1, <1>5, <1>6, <1>9
  <1>10. Len(all) \in Nat
    BY <1>1, <1>6
  <1>11. QED
    BY <1>6, <1>7, <1>8, <1>9, <1>10 DEF all, l, g

LEMMA UnlockLineKeeps ==
  ASSUME InInv, NEW t \in Readers, UnlockLine(t)
  PROVE  InInv'
  <1> DEFINE all == line[t] \o got[t]
  <1>1. /\ reading[t] = "unlock" /\ inLine[t]
        /\ inLock' = inLock \ {t}
        /\ line' = [line EXCEPT ![t] = all]
        /\ UNCHANGED <<inBuf, inStart, delivered, taken, want, inLine, reads>>
    BY DEF UnlockLine, inFile
  <1>2. IF LineEnds(got[t])
          THEN /\ lineResult' = [lineResult EXCEPT ![t] =
                                   IF from_utf8(line'[t]) THEN Len(line'[t]) ELSE EIO]
               /\ reading' = [reading EXCEPT ![t] = "idle"]
               /\ UNCHANGED got
          ELSE /\ got' = [got EXCEPT ![t] = <<>>]
               /\ reading' = [reading EXCEPT ![t] = "lock"]
               /\ UNCHANGED lineResult
    BY DEF UnlockLine, ReaderTo
  <1>3. /\ all \in Seq(Bytes) /\ Len(all) \in Nat
        /\ \A k \in 1 .. Len(all) : all[k] <= Len(taken)
        /\ \A k \in 1 .. Len(all) - 1 : all[k] \notin Newlines /\ all[k] < all[k + 1]
        /\ got[t] # <<>> => Len(all) \in 1 .. Len(all) /\ all[Len(all)] = Last(got[t])
    BY <1>1, AllOfLine
  <1> HIDE DEF all
  <1>4. line'[t] = all
    BY <1>1 DEF InInv, InTypeOK
  <1>5. <<>> \in Seq(Bytes) /\ Len(<<>>) = 0
    BY EmptySeq
  <1>6. /\ reading' \in [Readers -> ReaderPlaces]
        /\ got' \in [Readers -> Seq(Bytes)]
        /\ DOMAIN lineResult' = Readers
    BY <1>2, <1>5 DEF InInv, InTypeOK, ReaderPlaces, Bytes
  <1>7. InTypeOK'
    BY <1>1, <1>3, <1>6 DEF InInv, InTypeOK, Bytes
  <1>8. /\ reading'[t] \in {"idle", "lock"}
        /\ \A u \in Readers \ {t} : /\ reading'[u] = reading[u] /\ got'[u] = got[u]
                                    /\ lineResult'[u] = lineResult[u]
    BY <1>2 DEF InInv, InTypeOK
  <1>9. InLockInv'
    BY <1>1, <1>8 DEF InInv, InTypeOK, InLockInv
  <1>10. StreamInv'
    BY <1>1, <1>8 DEF InInv, InTypeOK, StreamInv
  <1>11. Len(taken) \in Nat
    BY LenProperties DEF InInv, InTypeOK
  <1>12. OnlyMoves(t)
    BY <1>1, <1>8, <1>11 DEF InInv, InTypeOK, OnlyMoves, inFile
  <1>13. CASE LineEnds(got[t])
    <2>1. /\ reading'[t] = "idle" /\ got'[t] = got[t]
          /\ lineResult'[t] = IF from_utf8(line'[t]) THEN Len(line'[t]) ELSE EIO
      BY <1>2, <1>13 DEF InInv, InTypeOK
    <2>2. GotOK(t)'
      BY <2>1, <1>1 DEF InInv, GotInv, GotOK
    <2>3. line'[t] # <<>> => Last(line'[t]) \in Newlines \/ got'[t] = <<>>
      BY <2>1, <1>3, <1>4, <1>13 DEF LineEnds, Last
    <2>4. LineOK(t)'
      BY <2>1, <2>3 DEF LineOK
    <2>5. QED
      BY <2>2, <2>4, <1>7, <1>9, <1>10, <1>12, OthersKeep DEF InInv, GotInv, LineInv
  <1>14. CASE ~LineEnds(got[t])
    <2>1. /\ reading'[t] = "lock" /\ got'[t] = <<>>
      BY <1>2, <1>14 DEF InInv, InTypeOK
    <2>2. GotOK(t)'
      BY <2>1, <1>5 DEF GotOK
    <2>3. Len(all) \in 1 .. Len(all) /\ all[Len(all)] \notin Newlines
      BY <1>3, <1>14 DEF LineEnds
    <2>4. \A k \in 1 .. Len(all) : all[k] \notin Newlines
      BY <2>3, <1>3
    <2>5. LineOK(t)'
      BY <2>1, <2>4, <1>1, <1>3, <1>4 DEF LineOK
    <2>6. QED
      BY <2>2, <2>5, <1>7, <1>9, <1>10, <1>12, OthersKeep DEF InInv, GotInv, LineInv
  <1>15. QED
    BY <1>13, <1>14

-----------------------------------------------------------------------------
(* Theorems.                                                               *)

\* InInv holds of every state of the input half of a FILE, with any number of
\* readers and any request, whatever read delivers.
THEOREM InFileInvariant == InSpec => []InInv
  <1>1. InInv /\ [InNext]_inVars => InInv'
    <2> SUFFICES ASSUME InInv, [InNext]_inVars PROVE InInv'
      OBVIOUS
    <2>1. CASE UNCHANGED inVars
      <3>1. UNCHANGED <<inBuf, inStart, delivered, inLock, reading, want, got, reads,
                        taken, inLine, line, lineResult>>
        BY <2>1 DEF inVars, inFile, lineVars
      <3>2. InTypeOK' /\ InLockInv' /\ StreamInv'
        BY <3>1 DEF InInv, InTypeOK, InLockInv, StreamInv
      <3>3. GotInv'
        BY <3>1 DEF InInv, GotInv, GotOK
      <3>4. LineInv'
        BY <3>1 DEF InInv, LineInv, LineOK
      <3>5. QED
        BY <3>2, <3>3, <3>4 DEF InInv
    <2>2. ASSUME NEW t \in Readers, ReaderRun(t) \/ ReadBytes(t) \/ ReadLine(t)
          PROVE  InInv'
      <3>1. CASE ReadBytes(t) \/ ReadLine(t)   BY <3>1, StartKeeps
      <3>2. CASE LockIn(t)                     BY <3>2, LockKeeps
      <3>3. CASE Buffered(t)                   BY <3>3, BufferedKeeps
      <3>4. CASE Fill(t)                       BY <3>4, FillKeeps
      <3>5. CASE FillNothing(t)                BY <3>5, FillNothingKeeps
      <3>6. CASE Take(t)                       BY <3>6, TakeByteKeeps, TakeNothingKeeps
      <3>7. CASE UnlockIn(t)                   BY <3>7, UnlockKeeps
      <3>8. CASE UnlockLine(t)                 BY <3>8, UnlockLineKeeps
      <3>9. QED
        BY <2>2, <3>1, <3>2, <3>3, <3>4, <3>5, <3>6, <3>7, <3>8 DEF ReaderRun
    <2>3. QED
      BY <2>1, <2>2 DEF InNext
  <1>2. QED
    BY <1>1, ReadersStart, PTL DEF InSpec

\* No byte that read delivered is lost, taken twice or out of order, whichever
\* threads take them and however read is short or fails.
THEOREM InNothingIsLost == InSpec => []NothingLost
  <1>1. ASSUME InInv PROVE NothingLost
    <2> DEFINE m == Len(inBuf) - inStart
               n == Len(taken)
               src == [k \in 1 .. delivered |-> k]
    <2>1. /\ inBuf \in Seq(Bytes) /\ taken \in Seq(Bytes)
          /\ Len(inBuf) \in Nat /\ n \in Nat /\ inStart \in Nat
          /\ inStart <= Len(inBuf) /\ delivered \in Nat
      BY <1>1, LenProperties, InAssumption DEF InInv, InTypeOK, Bytes
    <2>2. /\ n = delivered - m
          /\ \A k \in 1 .. n : taken[k] = k
          /\ \A k \in 1 .. Len(inBuf) : inBuf[k] = delivered - Len(inBuf) + k
      BY <1>1 DEF InInv, StreamInv
    <2>3. \A k \in inStart + 1 .. Len(inBuf) : k \in 1 .. Len(inBuf)
      BY <2>1
    <2>4. \A k \in inStart + 1 .. Len(inBuf) : inBuf[k] \in Bytes
      BY <2>1, <2>3, ElementOfSeq
    <2>5. /\ Unread \in Seq(Bytes)
          /\ Len(Unread) = IF inStart + 1 <= Len(inBuf)
                             THEN Len(inBuf) - (inStart + 1) + 1 ELSE 0
          /\ \A i \in 1 .. Len(inBuf) - (inStart + 1) + 1 :
               Unread[i] = inBuf[inStart + 1 + i - 1]
      <3> HIDE DEF m
      <3>1. inStart + 1 \in Int /\ Len(inBuf) \in Int
        BY <2>1
      <3>2. QED
        BY <3>1, <2>4, SubSeqProperties DEF Unread
    <2>6. Len(Unread) = m /\ m \in Nat
      BY <2>1, <2>5
    <2>7. \A i \in 1 .. m : Unread[i] = n + i
      <3> SUFFICES ASSUME NEW i \in 1 .. m PROVE Unread[i] = n + i
        OBVIOUS
      <3>1. Unread[i] = inBuf[inStart + 1 + i - 1]
        BY <2>1, <2>5
      <3>2. inStart + 1 + i - 1 = inStart + i /\ inStart + i \in 1 .. Len(inBuf)
        BY <2>1
      <3>3. inBuf[inStart + i] = delivered - Len(inBuf) + (inStart + i)
        BY <3>2, <2>2
      <3>4. QED
        BY <3>1, <3>2, <3>3, <2>1, <2>2
    <2> HIDE DEF m, n
    <2>8. /\ taken \o Unread \in Seq(Bytes)
          /\ Len(taken \o Unread) = delivered
          /\ \A k \in 1 .. n + m :
               (taken \o Unread)[k] = IF k <= n THEN taken[k] ELSE Unread[k - n]
      <3>1. /\ taken \o Unread \in Seq(Bytes)
            /\ Len(taken \o Unread) = n + m
            /\ \A k \in 1 .. n + m :
                 (taken \o Unread)[k] = IF k <= n THEN taken[k] ELSE Unread[k - n]
        BY <2>1, <2>5, <2>6, ConcatProperties DEF n
      <3>2. QED
        BY <3>1, <2>1, <2>2, <2>6
    <2>9. \A k \in 1 .. delivered : (taken \o Unread)[k] = k
      <3> SUFFICES ASSUME NEW k \in 1 .. delivered PROVE (taken \o Unread)[k] = k
        OBVIOUS
      <3>1. k \in 1 .. n + m
        BY <2>1, <2>2, <2>6
      <3>2. CASE k <= n
        BY <3>1, <3>2, <2>1, <2>2, <2>8
      <3>3. CASE k > n
        <4>1. k - n \in 1 .. m
          BY <3>1, <3>3, <2>1, <2>6
        <4>2. Unread[k - n] = n + (k - n)
          BY <4>1, <2>7
        <4>3. QED
          BY <4>2, <3>1, <3>3, <2>1, <2>8
      <3>4. k <= n \/ k > n
        BY <2>1 DEF n
      <3>5. QED
        BY <3>2, <3>3, <3>4
    <2>10. src \in Seq(Nat) /\ Len(src) = delivered /\ \A k \in 1 .. delivered : src[k] = k
      BY <2>1
    <2>11. taken \o Unread \in Seq(Nat)
      <3>1. Bytes \subseteq Nat
        BY InAssumption DEF Bytes
      <3>2. QED
        BY <3>1, <2>8, SeqMonotonic
    <2> HIDE DEF src
    <2>12. taken \o Unread = src
      BY <2>8, <2>9, <2>10, <2>11, SeqEqual
    <2>13. QED
      BY <2>12 DEF NothingLost, src
  <1>2. QED
    BY <1>1, InFileInvariant, PTL

\* fgetc and fread take consecutive bytes up to a newline; read_line returns
\* bytes of one line in order, as a string or EIO, as CallsTakeLines says.
THEOREM InCallsTakeLines == InSpec => []CallsTakeLines
  <1>1. ASSUME InInv, NEW t \in Readers
        PROVE  \A k \in 1 .. Len(got[t]) - 1 :
                 got[t][k] \notin Newlines /\ got[t][k + 1] = got[t][k] + 1
    BY <1>1 DEF InInv, GotInv, GotOK
  <1>2. ASSUME InInv, NEW t \in Readers, inLine[t], reading[t] # "idle"
        PROVE  LET all == line[t] \o got[t] IN
               \A k \in 1 .. Len(all) - 1 : all[k] \notin Newlines /\ all[k] < all[k + 1]
    BY <1>2, AllOfLine
  <1>3. ASSUME InInv, NEW t \in Readers, inLine[t], reading[t] = "idle",
               NEW l, l = line[t]
        PROVE  /\ l # <<>> => \/ Last(l) \in Newlines
                              \/ got[t] = <<>>
               /\ lineResult[t] = EIO =>
                    \/ l[1] \in Trailing \/ Last(l) + 1 \in Trailing
                    \/ \E k \in 1 .. Len(l) - 1 : l[k + 1] # l[k] + 1
               /\ lineResult[t] # EIO => lineResult[t] = Len(l)
    <2>1. l \in Seq(Bytes) /\ Len(l) \in Nat
      BY <1>3, LenProperties DEF InInv, InTypeOK, Bytes
    <2>2. \A k \in 1 .. Len(l) : l[k] \in Nat
      BY <2>1, ElementOfSeq, InAssumption DEF Bytes
    <2>3. /\ l # <<>> => Last(l) \in Newlines \/ got[t] = <<>>
          /\ lineResult[t] = IF from_utf8(l) THEN Len(l) ELSE EIO
      BY <1>3 DEF InInv, LineInv, LineOK
    <2>4. ASSUME lineResult[t] = EIO
          PROVE  \/ l[1] \in Trailing \/ Last(l) + 1 \in Trailing
                 \/ \E k \in 1 .. Len(l) - 1 : l[k + 1] # l[k] + 1
      <3>1. ~from_utf8(l)
        BY <2>1, <2>3, <2>4 DEF EIO
      <3>2. PICK k \in 1 .. Len(l) :
              \/ l[k] \in Trailing /\ ~(k > 1 /\ l[k - 1] = l[k] - 1)
              \/ l[k] + 1 \in Trailing /\ ~(k < Len(l) /\ l[k + 1] = l[k] + 1)
        BY <3>1 DEF from_utf8
      <3>3. CASE l[k] \in Trailing /\ ~(k > 1 /\ l[k - 1] = l[k] - 1)
        <4>1. CASE k = 1
          BY <4>1, <3>3
        <4>2. CASE k > 1
          <5> DEFINE i == k - 1
          <5>1. i \in 1 .. Len(l) - 1 /\ i \in 1 .. Len(l) /\ i + 1 = k
            BY <4>2, <2>1
          <5>2. l[i] # l[k] - 1
            BY <4>2, <3>3
          <5> HIDE DEF i
          <5>3. l[i + 1] # l[i] + 1
            BY <5>1, <5>2, <2>2
          <5>4. QED
            BY <5>1, <5>3
        <4>3. QED
          BY <4>1, <4>2, <2>1
      <3>4. CASE l[k] + 1 \in Trailing /\ ~(k < Len(l) /\ l[k + 1] = l[k] + 1)
        <4>1. CASE k = Len(l)
          BY <4>1, <3>4 DEF Last
        <4>2. CASE k < Len(l)
          <5>1. k \in 1 .. Len(l) - 1
            BY <4>2, <2>1
          <5>2. QED
            BY <5>1, <4>2, <3>4
        <4>3. QED
          BY <4>1, <4>2, <2>1
      <3>5. QED
        BY <3>2, <3>3, <3>4
    <2>5. QED
      BY <2>3, <2>4
  <1>4. InInv => CallsTakeLines
    BY <1>1, <1>2, <1>3 DEF CallsTakeLines
  <1>5. QED
    BY <1>4, InFileInvariant, PTL

\* A call returns no bytes only when there are none.
THEOREM InEmptyMeansEmpty == InSpec => []EmptyMeansEmpty
  <1>1. ASSUME InInv, NEW t \in Readers, reading[t] = "unlock", got[t] = <<>>
        PROVE  want[t] = 0 \/ Unread = <<>>
    <2>1. want[t] = 0 \/ inStart = Len(inBuf)
      BY <1>1 DEF InInv, GotInv, GotOK
    <2>2. Len(inBuf) \in Nat
      BY <1>1, LenProperties DEF InInv, InTypeOK
    <2>3. ASSUME inStart = Len(inBuf) PROVE Unread = <<>>
      <3>1. inStart + 1 \in Int /\ Len(inBuf) \in Int /\ Len(inBuf) < inStart + 1
        BY <2>2, <2>3
      <3>2. QED
        BY <3>1, SubSeqEmpty DEF Unread
    <2>4. QED
      BY <2>1, <2>3
  <1>2. InInv => EmptyMeansEmpty
    BY <1>1 DEF EmptyMeansEmpty
  <1>3. QED
    BY <1>2, InFileInvariant, PTL

-----------------------------------------------------------------------------
(* Clock, with the system calls of libc/arch/x86_64-linux.c.               *)

Stages == {"idle", "compute", "sleep", "asleep", "returned"}

\* The deadline is what the caller meant, and what was computed from it.
ClockInv ==
  /\ backend = "x86_64"
  /\ now \in Nat /\ aim \in Nat /\ computed \in Nat /\ timeout_nsec \in Nat
  /\ stage \in Stages
  /\ abstime \in [tv_sec : Nat, tv_nsec : 0 .. NSEC - 1]
  /\ stage # "idle" => abstime.tv_sec * NSEC + abstime.tv_nsec = aim
  /\ aim < HalfWord =>
       /\ stage = "returned" => aim <= computed
       /\ stage \in {"sleep", "asleep"} => timeout_nsec = aim - computed

\* Division leaves a rest.
LEMMA DivMod ==
  ASSUME NEW g \in Nat, NEW j \in Nat \ {0}
  PROVE  /\ g \div j \in Nat /\ g % j \in 0 .. j - 1
         /\ g = (g \div j) * j + (g % j)
  BY SMTT(60)

\* A number of the first half of a word is its own value.
LEMMA WrappedFits ==
  ASSUME NEW x \in Nat, x < HalfWord
  PROVE  Wrapped(x) = x
  <1>1. HalfWord \in Nat
    BY ClockAssumption
  <1> DEFINE g == x + HalfWord
             j == 2 * HalfWord
  <1>2. g \in Nat /\ j \in Nat \ {0} /\ g < j
    BY <1>1
  <1>3. g % j = g
    <2> HIDE DEF g, j
    <2>1. QED
      BY <1>2
  <1>4. QED
    BY <1>1, <1>3 DEF Wrapped

\* The clock tells the time of the kernel.
LEMMA ClockTells ==
  ASSUME ClockInv
  PROVE  /\ __unixtime_nsec = now
         /\ clock_gettime.tv_sec \in Nat
         /\ clock_gettime.tv_nsec \in 0 .. NSEC - 1
         /\ now = clock_gettime.tv_sec * NSEC + clock_gettime.tv_nsec
  <1>1. now \in Nat /\ NSEC \in Nat \ {0} /\ __unixtime_nsec = now
    BY ClockAssumption DEF ClockInv, __unixtime_nsec
  <1>2. clock_gettime.tv_sec = now \div NSEC /\ clock_gettime.tv_nsec = now % NSEC
    BY <1>1 DEF clock_gettime
  <1>3. QED
    BY <1>1, <1>2, DivMod

\* The caller's addition.
LEMMA BeginKeeps ==
  ASSUME ClockInv, NEW delay \in Delays, Begin(delay)
  PROVE  ClockInv'
  <1> DEFINE s == clock_gettime.tv_sec
             n == clock_gettime.tv_nsec + delay
             q == n \div NSEC
             m == n % NSEC
  <1>1. /\ s \in Nat /\ delay \in Nat /\ NSEC \in Nat \ {0} /\ n \in Nat
        /\ now \in Nat /\ now + delay = s * NSEC + n
    <2> DEFINE f == clock_gettime.tv_nsec
    <2>1. /\ s \in Nat /\ f \in 0 .. NSEC - 1 /\ now = s * NSEC + f
          /\ delay \in Nat /\ NSEC \in Nat \ {0} /\ now \in Nat
      BY ClockTells, ClockAssumption DEF ClockInv
    <2> HIDE DEF s, f
    <2>2. s * NSEC \in Nat
      BY <2>1
    <2>3. QED
      BY <2>1, <2>2 DEF f
  <1>2. /\ abstime' = [tv_sec |-> s + q, tv_nsec |-> m]
        /\ aim' = now + delay /\ stage' = "compute"
        /\ UNCHANGED <<backend, now, timeout_nsec, computed>>
    BY DEF Begin
  <1> HIDE DEF s, n
  <1>3. q \in Nat /\ m \in 0 .. NSEC - 1 /\ n = q * NSEC + m
    BY <1>1, DivMod
  <1> HIDE DEF q, m
  <1>4. (s + q) * NSEC = s * NSEC + q * NSEC
    BY <1>1, <1>3
  <1>5. s * NSEC \in Nat /\ q * NSEC \in Nat
    BY <1>1, <1>3
  <1>6. (s + q) * NSEC + m = now + delay
    BY <1>1, <1>3, <1>4, <1>5
  <1>7. /\ abstime' \in [tv_sec : Nat, tv_nsec : 0 .. NSEC - 1]
        /\ abstime'.tv_sec * NSEC + abstime'.tv_nsec = aim'
    BY <1>1, <1>2, <1>3, <1>6
  <1>8. QED
    BY <1>1, <1>2, <1>7 DEF ClockInv, Stages

\* __wait_abs computes what is left of the deadline.
LEMMA ComputeKeeps ==
  ASSUME ClockInv, Compute
  PROVE  ClockInv'
  <1> DEFINE s == abstime.tv_sec
             n == abstime.tv_nsec
             p == s * NSEC
             rel == AbsNsec(abstime) - now
  <1>1. /\ s \in Nat /\ n \in Nat /\ NSEC \in Nat \ {0} /\ p \in Nat
        /\ p + n = aim /\ aim \in Nat /\ now \in Nat /\ timeout_nsec \in Nat
        /\ HalfWord \in Nat \ {0}
    BY ClockAssumption DEF ClockInv, Compute
  <1>2. AbsNsec(abstime) = Wrapped(Wrapped(p) + n)
    BY DEF AbsNsec
  <1>3. AbsNsec(abstime) \in Int
    BY <1>1, <1>2 DEF Wrapped
  <1>4. /\ IF rel <= 0 THEN stage' = "returned" /\ UNCHANGED timeout_nsec
                       ELSE stage' = "sleep" /\ timeout_nsec' = rel
        /\ computed' = now
        /\ UNCHANGED <<backend, now, abstime, aim>>
    BY ClockTells DEF Compute
  <1> HIDE DEF s, n, p
  <1>5. aim < HalfWord => AbsNsec(abstime) = aim
    <2> SUFFICES ASSUME aim < HalfWord PROVE AbsNsec(abstime) = aim
      OBVIOUS
    <2>1. Wrapped(p) = p
      BY <1>1, WrappedFits
    <2>2. Wrapped(p + n) = p + n
      BY <1>1, WrappedFits
    <2>3. QED
      BY <2>1, <2>2, <1>1, <1>2
  <1>6. rel \in Int /\ (aim < HalfWord => rel = aim - now)
    BY <1>1, <1>3, <1>5
  <1> HIDE DEF rel
  <1>7. /\ stage' \in {"returned", "sleep"} /\ timeout_nsec' \in Nat
        /\ aim < HalfWord =>
             /\ stage' = "returned" => aim <= now
             /\ stage' = "sleep" => timeout_nsec' = aim - now
    BY <1>1, <1>4, <1>6
  <1>8. abstime'.tv_sec * NSEC + abstime'.tv_nsec = aim'
    BY <1>1, <1>4 DEF s, n, p
  <1>9. QED
    BY <1>1, <1>4, <1>7, <1>8 DEF ClockInv, Stages

\* ClockInv holds in every state of a timed wait on the C system calls, whatever
\* the units of time, the delays and the time that passes between the steps.
THEOREM ClockInvariant ==
  ASSUME Backends = {"x86_64"}
  PROVE  ClockSpec => []ClockInv
  <1>1. ClockInit => ClockInv
    <2> SUFFICES ASSUME ClockInit PROVE ClockInv
      OBVIOUS
    <2>1. /\ backend = "x86_64" /\ now \in Nat /\ stage = "idle"
          /\ abstime = [tv_sec |-> 0, tv_nsec |-> 0]
          /\ timeout_nsec = 0 /\ aim = 0 /\ computed = 0
      BY ClockAssumption DEF ClockInit
    <2>2. abstime \in [tv_sec : Nat, tv_nsec : 0 .. NSEC - 1]
      BY <2>1, ClockAssumption
    <2>3. QED
      BY <2>1, <2>2 DEF ClockInv, Stages
  <1>2. ClockInv /\ [ClockNext]_clockVars => ClockInv'
    <2> SUFFICES ASSUME ClockInv, [ClockNext]_clockVars PROVE ClockInv'
      OBVIOUS
    <2>1. CASE UNCHANGED clockVars
      BY <2>1 DEF clockVars, ClockInv
    <2>2. CASE Tick
      BY <2>2 DEF Tick, ClockInv
    <2>3. CASE \E delay \in Delays : Begin(delay)
      BY <2>3, BeginKeeps
    <2>4. CASE Compute
      BY <2>4, ComputeKeeps
    <2>5. CASE Sleep
      BY <2>5 DEF Sleep, ClockInv, Stages
    <2>6. CASE Awake
      BY <2>6 DEF Awake, ClockInv, Stages
    <2>7. QED
      BY <2>1, <2>2, <2>3, <2>4, <2>5, <2>6 DEF ClockNext
  <1>3. QED
    BY <1>1, <1>2, PTL DEF ClockSpec

\* With the C system calls, every timed wait keeps the caller's deadline and both
\* clocks tell the kernel's time, for all deadlines that fit a word.
THEOREM DeadlinesAreKept ==
  ASSUME Backends = {"x86_64"}
  PROVE  ClockSpec => []TimedWaitsKeepTime
  <1>1. ASSUME ClockInv PROVE TimedWaitsKeepTime
    <2> DEFINE n == clock_gettime.tv_nsec
               s == clock_gettime.tv_sec
               u == n \div USEC
               k == NSEC \div USEC
    <2>1. /\ s \in Nat /\ n \in 0 .. NSEC - 1 /\ now = s * NSEC + n
          /\ USEC \in Nat \ {0} /\ NSEC \in Nat \ {0} /\ now \in Nat
          /\ n \in Nat /\ s * NSEC \in Nat
      BY <1>1, ClockTells, ClockAssumption DEF ClockInv
    <2>2. gettimeofday.tv_sec = s /\ gettimeofday.tv_usec = u
      BY DEF gettimeofday
    <2> HIDE DEF n, s
    <2>3. /\ u \in Nat /\ n % USEC \in 0 .. USEC - 1
          /\ n = u * USEC + (n % USEC)
      BY <2>1, DivMod
    <2>4. k \in Nat /\ NSEC = k * USEC
      <3>1. NSEC = k * USEC + (NSEC % USEC) /\ k \in Nat
        BY <2>1, DivMod
      <3>2. NSEC % USEC = 0
        BY ClockAssumption
      <3> HIDE DEF k
      <3>3. QED
        BY <3>1, <3>2, <2>1
    <2> HIDE DEF u, k
    <2>5. u * USEC \in Nat
      BY <2>1, <2>3
    <2>6. now - (s * NSEC + u * USEC) \in 0 .. USEC - 1
      BY <2>1, <2>3, <2>5
    <2>7. u < k
      <3> SUFFICES ASSUME u >= k PROVE FALSE
        BY <2>3, <2>4
      <3>1. u * USEC >= k * USEC
        BY <2>1, <2>3, <2>4
      <3>2. QED
        BY <3>1, <2>1, <2>3, <2>4, <2>5
    <2>8. u \in 0 .. (NSEC \div USEC) - 1
      BY <2>3, <2>4, <2>7 DEF k
    <2>9. stage \in {"sleep", "asleep"} => Asked(timeout_nsec) = timeout_nsec
      BY <1>1 DEF ClockInv, Asked
    <2>10. /\ now = clock_gettime.tv_sec * NSEC + clock_gettime.tv_nsec
           /\ now - (gettimeofday.tv_sec * NSEC + gettimeofday.tv_usec * USEC)
                \in 0 .. USEC - 1
           /\ gettimeofday.tv_usec \in 0 .. (NSEC \div USEC) - 1
      BY <2>1, <2>2, <2>6, <2>8 DEF n, s
    <2>11. QED
      BY <1>1, <2>9, <2>10 DEF TimedWaitsKeepTime, ClockInv
  <1>2. QED
    BY <1>1, ClockInvariant, PTL

-----------------------------------------------------------------------------
(* Calendar.                                                               *)

\* A quotient and a rest determine each other.
LEMMA DivUnique ==
  ASSUME NEW g \in Int, NEW j \in Nat \ {0}, NEW q \in Int, NEW r \in 0 .. j - 1,
         g = j * q + r
  PROVE  g \div j = q /\ g % j = r
  BY Z3T(60)

LEMMA DivInt ==
  ASSUME NEW g \in Int, NEW j \in Nat \ {0}
  PROVE  /\ g \div j \in Int /\ g % j \in 0 .. j - 1
         /\ g = j * (g \div j) + (g % j)
  BY Z3T(60)

\* C's division, corrected for a negative rest, rounds down.
LEMMA RoundsDown ==
  ASSUME NEW x \in Int, NEW y \in Nat \ {0}
  PROVE  /\ Quo(x, y) - (IF Rem(x, y) < 0 THEN 1 ELSE 0) = x \div y
         /\ Rem(x, y) + (IF Rem(x, y) < 0 THEN y ELSE 0) = x % y
  <1>1. CASE x >= 0
    <2> DEFINE q == x \div y
               r == x % y
    <2>1. q \in Int /\ r \in 0 .. y - 1 /\ x = y * q + r
      BY DivInt
    <2>2. Quo(x, y) = q /\ Rem(x, y) = r
      <3>1. Quo(x, y) = q
        BY <1>1 DEF Quo
      <3> HIDE DEF q, r
      <3>2. y * q \in Int
        BY <2>1
      <3>3. QED
        BY <2>1, <3>1, <3>2 DEF Rem
    <2> HIDE DEF q, r
    <2>3. QED
      BY <2>1, <2>2 DEF q, r
  <1>2. CASE x < 0
    <2> DEFINE q == (-x) \div y
               r == (-x) % y
    <2>1. q \in Int /\ r \in 0 .. y - 1 /\ -x = y * q + r
      <3>1. -x \in Int
        OBVIOUS
      <3>2. QED
        BY <3>1, DivInt
    <2>2. Quo(x, y) = -q
      BY <1>2 DEF Quo
    <2> HIDE DEF q, r
    <2>3. y * q \in Int /\ y * (-q) = -(y * q)
      BY <2>1
    <2>4. Rem(x, y) = -r
      BY <2>1, <2>2, <2>3 DEF Rem
    <2>5. CASE r = 0
      <3>1. x = y * (-q) + 0 /\ -q \in Int /\ 0 \in 0 .. y - 1
        BY <2>1, <2>3, <2>5
      <3>2. x \div y = -q /\ x % y = 0
        BY <3>1, DivUnique
      <3>3. QED
        BY <2>1, <2>2, <2>4, <2>5, <3>2
    <2>6. CASE r # 0
      <3>1. y * (-q - 1) = -(y * q) - y
        BY <2>1
      <3>2. x = y * (-q - 1) + (y - r) /\ -q - 1 \in Int /\ y - r \in 0 .. y - 1
        BY <2>1, <2>3, <2>6, <3>1
      <3>3. x \div y = -q - 1 /\ x % y = y - r
        BY <3>2, DivUnique
      <3>4. QED
        BY <2>1, <2>2, <2>4, <2>6, <3>3
    <2>7. QED
      BY <2>5, <2>6
  <1>3. QED
    BY <1>1, <1>2

\* The three corrections of negative rests.
LEMMA DaysRoundDown ==
  ASSUME NEW s \in Int, NEW d \in Int
  PROVE  /\ Days(s) \in Int /\ Rest(s) \in 0 .. DAY - 1 /\ s = DAY * Days(s) + Rest(s)
         /\ Cycle(d) \in Int /\ InCycle(d) \in Int
         /\ 0 <= InCycle(d) /\ InCycle(d) < DAYS_PER_400Y
         /\ d = DAYS_PER_400Y * Cycle(d) + InCycle(d)
         /\ Weekday(d) = (3 + d) % 7
  <1>1. DAY \in Nat \ {0} /\ DAYS_PER_400Y \in Nat \ {0}
    BY CalendarAssumption, SMT DEF DAYS_PER_400Y
  <1>2. Days(s) = s \div DAY /\ Rest(s) = s % DAY
    BY <1>1, RoundsDown DEF Days, Rest
  <1>3. Cycle(d) = d \div DAYS_PER_400Y /\ InCycle(d) = d % DAYS_PER_400Y
    BY <1>1, RoundsDown DEF Cycle, InCycle
  <1>4. Weekday(d) = (3 + d) % 7
    <2>1. 3 + d \in Int /\ 7 \in Nat \ {0}
      OBVIOUS
    <2>2. /\ Rem(3 + d, 7) + (IF Rem(3 + d, 7) < 0 THEN 7 ELSE 0) = (3 + d) % 7
          /\ Rem(3 + d, 7) \in Int
      <3>1. Rem(3 + d, 7) \in Int
        BY DEF Rem, Quo
      <3>2. QED
        BY <3>1, <2>1, RoundsDown
    <2>3. QED
      BY <2>2 DEF Weekday
  <1>5. QED
    <2>1. Days(s) \in Int /\ Rest(s) \in 0 .. DAY - 1 /\ s = DAY * Days(s) + Rest(s)
      BY <1>1, <1>2, DivInt
    <2>2. /\ Cycle(d) \in Int /\ InCycle(d) \in Int
          /\ 0 <= InCycle(d) /\ InCycle(d) < DAYS_PER_400Y
          /\ d = DAYS_PER_400Y * Cycle(d) + InCycle(d)
      BY <1>1, <1>3, DivInt
    <2>3. QED
      BY <2>1, <2>2, <1>4

\* Only the last of the periods is followed by a leap day of its own.
LEMMA PeriodsBound ==
  ASSUME NEW length \in Nat \ {0}, NEW last \in Nat,
         NEW n \in Int, 0 <= n, n <= length * (last + 1)
  PROVE  LET p == Periods(n, length, last)
             r == n - p * length
         IN /\ p \in Int /\ 0 <= p /\ p <= last
            /\ r \in Int /\ 0 <= r /\ r <= length
            /\ r = length => p = last
  <1> DEFINE q == n \div length
             s == n % length
  <1>1. q \in Int /\ s \in 0 .. length - 1 /\ n = length * q + s
    BY DivInt
  <1>2. Periods(n, length, last) = IF q = last + 1 THEN last ELSE q
    BY DEF Periods
  <1> HIDE DEF q, s
  <1>3. q >= 0
    <2> SUFFICES ASSUME q <= -1 PROVE FALSE
      BY <1>1
    <2>1. length * q <= -length
      BY <1>1
    <2>2. QED
      BY <1>1, <2>1
  <1>4. q <= last + 1
    <2> SUFFICES ASSUME q >= last + 2 PROVE FALSE
      BY <1>1
    <2>1. length * q >= length * (last + 1) + length
      BY <1>1
    <2>2. length * q \in Int /\ length * (last + 1) \in Int
      BY <1>1
    <2>3. QED
      BY <1>1, <2>1, <2>2
  <1>5. CASE q = last + 1
    <2>1. s = 0 /\ n = length * (last + 1)
      <3>1. length * (last + 1) \in Int
        OBVIOUS
      <3>2. QED
        BY <1>1, <1>5, <3>1
    <2>2. n - last * length = length
      BY <2>1
    <2>3. QED
      BY <1>2, <1>5, <2>2
  <1>6. CASE q # last + 1
    <2>1. n - q * length = s
      BY <1>1
    <2>2. QED
      BY <1>1, <1>2, <1>3, <1>4, <1>6, <2>1
  <1>7. QED
    BY <1>5, <1>6

\* A day of a cycle: which of the 100 years, of the 4 years, of the years, and which
\* day of the year; a day with the number 365 is the leap day at the end.
LEMMA CycleBounds ==
  ASSUME NEW n \in Int, 0 <= n, n < 146097,
         NEW c, c = Periods(n, 36524, 3),
         NEW n1, n1 = n - c * 36524,
         NEW q, q = Periods(n1, 1461, 24),
         NEW n4, n4 = n1 - q * 1461,
         NEW y, y = Periods(n4, 365, 3),
         NEW d, d = n4 - y * 365
  PROVE  /\ c \in Int /\ q \in Int /\ y \in Int /\ d \in Int
         /\ 0 <= c /\ c <= 3 /\ 0 <= q /\ q <= 24 /\ 0 <= y /\ y <= 3
         /\ 0 <= d /\ d <= 365
         /\ d = 365 => y = 3 /\ (q # 24 \/ c = 3)
         /\ n = 36524 * c + 1461 * q + 365 * y + d
  <1>1. /\ c \in Int /\ 0 <= c /\ c <= 3 /\ n1 \in Int /\ 0 <= n1 /\ n1 <= 36524
        /\ n1 = 36524 => c = 3
    BY PeriodsBound, SMTT(30)
  <1>2. /\ q \in Int /\ 0 <= q /\ q <= 24 /\ n4 \in Int /\ 0 <= n4 /\ n4 <= 1461
        /\ (n4 = 1461 => q = 24)
    <2>1. /\ 1461 \in Nat \ {0} /\ 24 \in Nat
          /\ n1 \in Int /\ 0 <= n1 /\ n1 <= 1461 * (24 + 1)
      BY <1>1, SMT
    <2>2. QED
      BY <2>1, PeriodsBound, SMTT(30)
  <1>3. n4 <= 1460 /\ (q = 24 /\ n4 = 1460 => c = 3)
    BY <1>1, <1>2, SMT
  <1>4. y \in Int /\ 0 <= y /\ y <= 3 /\ d \in Int /\ 0 <= d /\ d <= 365 /\ (d = 365 => y = 3)
    <2>1. /\ 365 \in Nat \ {0} /\ 3 \in Nat
          /\ n4 \in Int /\ 0 <= n4 /\ n4 <= 365 * (3 + 1)
      BY <1>2, <1>3, SMT
    <2>2. QED
      BY <2>1, PeriodsBound, SMTT(30)
  <1>5. QED
    BY <1>1, <1>2, <1>3, <1>4, SMT

\* The days before a month: of the year that begins in March.
LEMMA DaysBeforeIs ==
  DaysBefore = [m \in 0 .. 12 |->
                  <<0, 31, 61, 92, 122, 153, 184, 214, 245, 275, 306, 337, 366>>[m + 1]]
  <1> DEFINE sums == <<0, 31, 61, 92, 122, 153, 184, 214, 245, 275, 306, 337, 366>>
             Step(f) == [m \in 0 .. 12 |-> IF m = 0 THEN 0 ELSE f[m - 1] + days_in_month[m]]
             f0 == [m \in 0 .. 12 |-> sums[m + 1]]
  <1>1. \A m \in 1 .. 12 : sums[m + 1] = sums[m] + days_in_month[m]
    BY DEF days_in_month
  <1>2. f0 = Step(f0)
    <2>1. sums[1] = 0
      OBVIOUS
    <2> HIDE DEF sums
    <2>2. \A m \in 1 .. 12 : m - 1 \in 0 .. 12 /\ f0[m - 1] = sums[m]
      OBVIOUS
    <2>3. \A m \in 0 .. 12 : f0[m] = Step(f0)[m]
      BY <1>1, <2>1, <2>2
    <2>4. QED
      BY <2>3
  <1>3. DaysBefore = Step(DaysBefore)
    <2> HIDE DEF Step, f0
    <2>1. QED
      BY <1>2 DEF DaysBefore, Step
  <1> DEFINE g == DaysBefore
  <1> HIDE DEF g
  <1>4. g = Step(g)
    BY <1>3 DEF g
  <1>5. /\ g[0] = sums[1] /\ \A m \in 1 .. 12 : g[m] = g[m - 1] + days_in_month[m]
    BY <1>4
  <1>6. /\ g[0] = sums[1] /\ g[1] = sums[2] /\ g[2] = sums[3] /\ g[3] = sums[4]
        /\ g[4] = sums[5] /\ g[5] = sums[6] /\ g[6] = sums[7] /\ g[7] = sums[8]
        /\ g[8] = sums[9] /\ g[9] = sums[10] /\ g[10] = sums[11]
        /\ g[11] = sums[12] /\ g[12] = sums[13]
    BY <1>5 DEF days_in_month
  <1>7. \A m \in 0 .. 12 : g[m] = sums[m + 1]
    BY <1>6
  <1>8. g = [m \in 0 .. 12 |-> sums[m + 1]]
    BY <1>4, <1>7
  <1>9. QED
    BY <1>8 DEF g

\* The days before a month: of a year of the calendar.
LEMMA DayOfYearIs ==
  ASSUME NEW y \in Int, NEW l, l = IF IsLeap(y) THEN 1 ELSE 0
  PROVE  /\ DayOfYear(y, 1) = 0 /\ DayOfYear(y, 2) = 31 /\ DayOfYear(y, 3) = 59 + l
         /\ DayOfYear(y, 4) = 90 + l /\ DayOfYear(y, 5) = 120 + l
         /\ DayOfYear(y, 6) = 151 + l /\ DayOfYear(y, 7) = 181 + l
         /\ DayOfYear(y, 8) = 212 + l /\ DayOfYear(y, 9) = 243 + l
         /\ DayOfYear(y, 10) = 273 + l /\ DayOfYear(y, 11) = 304 + l
         /\ DayOfYear(y, 12) = 334 + l
  <1> DEFINE sums == <<0, 31, 59 + l, 90 + l, 120 + l, 151 + l, 181 + l, 212 + l,
                       243 + l, 273 + l, 304 + l, 334 + l>>
             month == DaysOfMonth(y)
             Step(f) == [k \in 1 .. 12 |-> IF k = 1 THEN 0 ELSE f[k - 1] + month[k - 1]]
             before[k \in 1 .. 12] == IF k = 1 THEN 0 ELSE before[k - 1] + month[k - 1]
  <1>1. /\ l \in Int
        /\ month[1] = 31 /\ month[2] = 28 + l /\ month[3] = 31 /\ month[4] = 30
        /\ month[5] = 31 /\ month[6] = 30 /\ month[7] = 31 /\ month[8] = 31
        /\ month[9] = 30 /\ month[10] = 31 /\ month[11] = 30
    BY DEF DaysOfMonth
  <1>2. \A m \in 1 .. 12 : DayOfYear(y, m) = before[m]
    BY DEF DayOfYear
  <1> HIDE DEF month
  <1> DEFINE f0 == [k \in 1 .. 12 |-> sums[k]]
  <1>3. f0 = Step(f0)
    <2>1. \A k \in 1 .. 12 : f0[k] = Step(f0)[k]
      BY <1>1
    <2>2. QED
      BY <2>1
  <1>4. before = Step(before)
    <2> HIDE DEF f0, sums
    <2>1. \E f : f = [k \in 1 .. 12 |-> IF k = 1 THEN 0 ELSE f[k - 1] + month[k - 1]]
      BY <1>3
    <2>2. QED
      BY <2>1
  <1> DEFINE g == before
  <1> HIDE DEF before
  <1>5. /\ g[1] = 0
        /\ g[2] = g[1] + month[1] /\ g[3] = g[2] + month[2] /\ g[4] = g[3] + month[3]
        /\ g[5] = g[4] + month[4] /\ g[6] = g[5] + month[5] /\ g[7] = g[6] + month[6]
        /\ g[8] = g[7] + month[7] /\ g[9] = g[8] + month[8] /\ g[10] = g[9] + month[9]
        /\ g[11] = g[10] + month[10] /\ g[12] = g[11] + month[11]
    BY <1>4
  <1>6. QED
    BY <1>1, <1>2, <1>5

\* The leap years up to a year.
Leaps(n) == (n \div 4) - (n \div 100) + (n \div 400)

\* A year in its cycle, its century and its four years.
Parts(y, C, c, q, r) ==
  /\ C \in Int /\ c \in 0 .. 3 /\ q \in 0 .. 24 /\ r \in 0 .. 3
  /\ y = 400 * C + 100 * c + 4 * q + r

LEMMA YearParts ==
  ASSUME NEW y, NEW C, NEW c, NEW q, NEW r, Parts(y, C, c, q, r)
  PROVE  /\ Leaps(y) = 97 * C + 24 * c + q
         /\ IsLeap(y) <=> r = 0 /\ (q # 0 \/ c = 0)
  <1> USE DEF Parts
  <1>1. y \in Int
    OBVIOUS
  <1>2. y \div 4 = 100 * C + 25 * c + q /\ y % 4 = r
    BY SMT
  <1>3. y \div 100 = 4 * C + c /\ y % 100 = 4 * q + r
    BY SMT
  <1>4. y \div 400 = C /\ y % 400 = 100 * c + 4 * q + r
    BY SMT
  <1>5. Leaps(y) = 97 * C + 24 * c + q
    BY <1>2, <1>3, <1>4, SMT DEF Leaps
  <1>6. QED
    BY <1>2, <1>3, <1>4, <1>5, SMT DEF IsLeap

\* Every year has such parts.
LEMMA PartsOf ==
  ASSUME NEW y \in Int
  PROVE  \E C, c, q, r : Parts(y, C, c, q, r)
  <1>1. PICK C \in Int, n \in Int : 0 <= n /\ n < 400 /\ y = 400 * C + n
    <2>1. /\ y \div 400 \in Int /\ y % 400 \in Int /\ 0 <= y % 400 /\ y % 400 < 400
          /\ y = 400 * (y \div 400) + (y % 400)
      BY SMT
    <2>2. QED
      BY <2>1
  <1>2. PICK c \in Int, m \in Int : 0 <= m /\ m < 100 /\ n = 100 * c + m
    <2>1. /\ n \div 100 \in Int /\ n % 100 \in Int /\ 0 <= n % 100 /\ n % 100 < 100
          /\ n = 100 * (n \div 100) + (n % 100)
      BY SMT
    <2>2. QED
      BY <2>1
  <1>3. PICK q \in Int, r \in Int : 0 <= r /\ r < 4 /\ m = 4 * q + r
    <2>1. /\ m \div 4 \in Int /\ m % 4 \in Int /\ 0 <= m % 4 /\ m % 4 < 4
          /\ m = 4 * (m \div 4) + (m % 4)
      BY SMT
    <2>2. QED
      BY <2>1
  <1>4. c \in 0 .. 3 /\ q \in 0 .. 24 /\ r \in 0 .. 3
    BY <1>1, <1>2, <1>3, SMT
  <1>5. y = 400 * C + 100 * c + 4 * q + r
    BY <1>1, <1>2, <1>3, SMT
  <1>6. Parts(y, C, c, q, r)
    BY <1>1, <1>4, <1>5 DEF Parts
  <1>7. QED
    BY <1>6

\* Each leap year counts once.
LEMMA LeapsCount ==
  ASSUME NEW y \in Int
  PROVE  Leaps(y) = Leaps(y - 1) + IF IsLeap(y) THEN 1 ELSE 0
  <1>1. PICK C, c, q, r : Parts(y, C, c, q, r)
    BY PartsOf
  <1>2. /\ Leaps(y) = 97 * C + 24 * c + q
        /\ IsLeap(y) <=> r = 0 /\ (q # 0 \/ c = 0)
    BY <1>1, YearParts
  <1>3. C \in Int /\ c \in Int /\ q \in Int
    BY <1>1, SMT DEF Parts
  <1>4. CASE r # 0
    <2>1. Parts(y - 1, C, c, q, r - 1)
      BY <1>1, <1>4, SMT DEF Parts
    <2>2. Leaps(y - 1) = 97 * C + 24 * c + q
      BY <2>1, YearParts
    <2>3. QED
      BY <1>2, <1>3, <1>4, <2>2, SMT
  <1>5. CASE r = 0 /\ q # 0
    <2>1. Parts(y - 1, C, c, q - 1, 3)
      BY <1>1, <1>5, SMT DEF Parts
    <2>2. Leaps(y - 1) = 97 * C + 24 * c + (q - 1)
      BY <2>1, YearParts
    <2>3. QED
      BY <1>2, <1>3, <1>5, <2>2, SMT
  <1>6. CASE r = 0 /\ q = 0 /\ c # 0
    <2>1. Parts(y - 1, C, c - 1, 24, 3)
      BY <1>1, <1>6, SMT DEF Parts
    <2>2. Leaps(y - 1) = 97 * C + 24 * (c - 1) + 24
      BY <2>1, YearParts
    <2>3. QED
      BY <1>2, <1>3, <1>6, <2>2, SMT
  <1>7. CASE r = 0 /\ q = 0 /\ c = 0
    <2>1. Parts(y - 1, C - 1, 3, 24, 3)
      BY <1>1, <1>7, SMT DEF Parts
    <2>2. Leaps(y - 1) = 97 * (C - 1) + 24 * 3 + 24
      BY <2>1, YearParts
    <2>3. QED
      BY <1>2, <1>3, <1>7, <2>2, SMT
  <1>8. QED
    BY <1>4, <1>5, <1>6, <1>7

\* The day number in terms of Leaps.
LEMMA DayNumberIs ==
  ASSUME NEW y \in Int, NEW m, NEW d
  PROVE  DayNumber(y, m, d) = 365 * (y - 1970) + Leaps(y - 1) - 477 + DayOfYear(y, m) + d - 1
  <1>1. (1969 \div 4) - (1969 \div 100) + (1969 \div 400) = 477
    BY SMT
  <1>2. QED
    BY <1>1 DEF DayNumber, Leaps

\* The month of a day, and where it lies.
LEMMA MonthIs ==
  ASSUME NEW d \in Int, 0 <= d, d <= 365
  PROVE  /\ MonthOf(d) \in 0 .. 11
         /\ DaysBefore[MonthOf(d)] <= d /\ d < DaysBefore[MonthOf(d) + 1]
  <1>1. /\ DaysBefore[0] = 0 /\ DaysBefore[1] = 31 /\ DaysBefore[2] = 61
        /\ DaysBefore[3] = 92 /\ DaysBefore[4] = 122 /\ DaysBefore[5] = 153
        /\ DaysBefore[6] = 184 /\ DaysBefore[7] = 214 /\ DaysBefore[8] = 245
        /\ DaysBefore[9] = 275 /\ DaysBefore[10] = 306 /\ DaysBefore[11] = 337
        /\ DaysBefore[12] = 366
    BY DaysBeforeIs
  <1>2. \E m \in 0 .. 11 : DaysBefore[m] <= d /\ d < DaysBefore[m + 1]
    BY <1>1, SMT
  <1>3. QED
    BY <1>2 DEF MonthOf

\* D days since LEAPOCH: d days of the year Y0 that begins in March, and the month,
\* the year and the day of the month that __secs_to_tm takes them for.
DayIs(D, C, c, q, r, d, Y0, m, Y, M, e, l) ==
  /\ C \in Int /\ Parts(Y0, C + 5, c, q, r)
  /\ d \in Int /\ 0 <= d /\ d <= 365 /\ (d = 365 => r = 3 /\ (q # 24 \/ c = 3))
  /\ D = 146097 * C + 36524 * c + 1461 * q + 365 * r + d
  /\ m = MonthOf(d)
  /\ Y = Y0 + IF m >= 10 THEN 1 ELSE 0
  /\ M = (IF m >= 10 THEN m - 12 ELSE m) + 3
  /\ e = d - DaysBefore[m] + 1
  /\ l = IF r = 0 /\ (q # 0 \/ c = 0) THEN 1 ELSE 0

LEMMA DateOfDay ==
  ASSUME NEW D, NEW C, NEW c, NEW q, NEW r, NEW d, NEW Y0, NEW m, NEW Y, NEW M, NEW e,
         NEW l, DayIs(D, C, c, q, r, d, Y0, m, Y, M, e, l)
  PROVE  /\ Y \in Int /\ M \in 1 .. 12 /\ e \in 1 .. DaysOfMonth(Y)[M]
         /\ DayNumber(Y, M, e) = D + 11017
         /\ DayNumber(Y, M, e) - DayNumber(Y, 1, 1)
              = IF d + 59 >= 365 THEN d - 306 ELSE d + 59 + l
         /\ 0 <= DayNumber(Y, M, e) - DayNumber(Y, 1, 1)
         /\ DayNumber(Y, M, e) - DayNumber(Y, 1, 1) < 365 + IF IsLeap(Y) THEN 1 ELSE 0
  <1> USE DEF DayIs
  <1>1. /\ C \in Int /\ c \in Int /\ q \in Int /\ r \in Int /\ Y0 \in Int
        /\ Y0 = 2000 + 400 * C + 100 * c + 4 * q + r
    BY SMT DEF Parts
  <1>2. Leaps(Y0) = 97 * (C + 5) + 24 * c + q /\ (IsLeap(Y0) <=> l = 1)
    BY YearParts
  <1>3. l \in Int /\ Leaps(Y0 - 1) = Leaps(Y0) - l /\ Leaps(Y0) \in Int
    <2>1. Leaps(Y0) = Leaps(Y0 - 1) + IF IsLeap(Y0) THEN 1 ELSE 0
      BY <1>1, LeapsCount
    <2>2. Leaps(Y0 - 1) \in Int
      BY <1>1, SMT DEF Leaps
    <2>3. QED
      BY <1>1, <1>2, <2>1, <2>2, SMT
  <1>4. m \in 0 .. 11 /\ DaysBefore[m] <= d /\ d < DaysBefore[m + 1]
    BY MonthIs
  <1>5. /\ DaysBefore[0] = 0 /\ DaysBefore[1] = 31 /\ DaysBefore[2] = 61
        /\ DaysBefore[3] = 92 /\ DaysBefore[4] = 122 /\ DaysBefore[5] = 153
        /\ DaysBefore[6] = 184 /\ DaysBefore[7] = 214 /\ DaysBefore[8] = 245
        /\ DaysBefore[9] = 275 /\ DaysBefore[10] = 306 /\ DaysBefore[11] = 337
        /\ DaysBefore[12] = 366
    BY DaysBeforeIs
  <1>6. CASE m \in 0 .. 9
    <2>1. Y = Y0 /\ M = m + 3 /\ M \in 3 .. 12
      BY <1>1, <1>6, SMT
    <2>0. l = IF IsLeap(Y) THEN 1 ELSE 0
      BY <1>2, <1>3, <2>1
    <2>2. DayOfYear(Y, M) = 59 + l + DaysBefore[m]
      <3>1. l = IF IsLeap(Y) THEN 1 ELSE 0
        BY <2>0
      <3>2. /\ DayOfYear(Y, 3) = 59 + l
            /\ DayOfYear(Y, 4) = 90 + l /\ DayOfYear(Y, 5) = 120 + l
            /\ DayOfYear(Y, 6) = 151 + l /\ DayOfYear(Y, 7) = 181 + l
            /\ DayOfYear(Y, 8) = 212 + l /\ DayOfYear(Y, 9) = 243 + l
            /\ DayOfYear(Y, 10) = 273 + l /\ DayOfYear(Y, 11) = 304 + l
            /\ DayOfYear(Y, 12) = 334 + l
        BY <1>1, <2>1, <3>1, DayOfYearIs
      <3>3. QED
        BY <1>3, <1>5, <1>6, <2>1, <3>2, SMT
    <2>3. DayOfYear(Y, 1) = 0
      BY <1>1, <2>1, DayOfYearIs
    <2>4. e \in Int /\ d = DaysBefore[m] + e - 1 /\ DaysBefore[m] \in Int
      BY <1>4, <1>5, <1>6, SMT
    <2>5. DayNumber(Y, M, e) = 365 * (Y0 - 1970) + Leaps(Y0) - l - 477 + 59 + l + d
      BY <1>1, <1>3, <2>1, <2>2, <2>4, DayNumberIs, SMT
    <2>6. DayNumber(Y, 1, 1) = 365 * (Y0 - 1970) + Leaps(Y0) - l - 477
      BY <1>1, <1>3, <2>1, <2>3, DayNumberIs, SMT
    <2>7. DayNumber(Y, M, e) = D + 11017
      BY <1>1, <1>2, <1>3, <2>5, SMT
    <2>8. d + 59 < 365
      BY <1>4, <1>5, <1>6, SMT
    <2>9. e \in 1 .. DaysOfMonth(Y)[M]
      <3>1. DaysOfMonth(Y)[M] = DaysBefore[m + 1] - DaysBefore[m]
        BY <1>5, <1>6, <2>1, SMT DEF DaysOfMonth
      <3>2. QED
        BY <1>4, <1>5, <1>6, <2>4, <3>1, SMT
    <2>10. QED
      BY <1>1, <1>3, <2>0, <2>1, <2>5, <2>6, <2>7, <2>8, <2>9, SMT
  <1>7. CASE m \in {10, 11}
    <2>1. Y = Y0 + 1 /\ M = m - 9 /\ M \in {1, 2} /\ Y \in Int
      BY <1>1, <1>7, SMT
    <2>2. DayOfYear(Y, 1) = 0 /\ DayOfYear(Y, 2) = 31
      BY <1>1, <2>1, DayOfYearIs
    <2>3. DayOfYear(Y, M) = DaysBefore[m] - 306
      BY <1>5, <1>7, <2>1, <2>2, SMT
    <2>4. e \in Int /\ d = DaysBefore[m] + e - 1 /\ DaysBefore[m] \in Int /\ 306 <= d
      BY <1>4, <1>5, <1>7, SMT
    <2>5. DayNumber(Y, M, e) = 365 * (Y0 - 1969) + Leaps(Y0) - 477 + d - 306
      <3>1. Y - 1 = Y0
        BY <1>1, <2>1
      <3>2. QED
        BY <1>1, <1>3, <2>1, <2>3, <2>4, <3>1, DayNumberIs, SMT
    <2>6. DayNumber(Y, 1, 1) = 365 * (Y0 - 1969) + Leaps(Y0) - 477
      <3>1. Y - 1 = Y0
        BY <1>1, <2>1
      <3>2. QED
        BY <1>1, <1>3, <2>1, <2>2, <3>1, DayNumberIs, SMT
    <2>7. DayNumber(Y, M, e) = D + 11017
      BY <1>1, <1>2, <1>3, <2>5, SMT
    <2>8. d = 365 => IsLeap(Y)
      <3> SUFFICES ASSUME d = 365 PROVE IsLeap(Y)
        OBVIOUS
      <3>1. Parts(Y, C + 5, c, q + 1, 0) \/ Parts(Y, C + 6, 0, 0, 0)
        BY <1>1, <2>1, SMT DEF Parts
      <3>2. q + 1 # 0
        BY SMT DEF Parts
      <3>3. QED
        BY <3>1, <3>2, YearParts, SMT
    <2>9. e \in 1 .. DaysOfMonth(Y)[M]
      <3>1. DaysOfMonth(Y)[1] = 31 /\ DaysOfMonth(Y)[2] = IF IsLeap(Y) THEN 29 ELSE 28
        BY SMT DEF DaysOfMonth
      <3>2. QED
        BY <1>4, <1>5, <1>7, <2>1, <2>4, <2>8, <3>1, SMT
    <2>10. QED
      BY <1>1, <1>3, <2>1, <2>4, <2>5, <2>6, <2>7, <2>9, SMT
  <1>8. QED
    <2>1. m \in 0 .. 9 \/ m \in {10, 11}
      BY <1>4, SMT
    <2>2. QED
      BY <1>6, <1>7, <2>1

\* The time of the day.
LEMMA TimeOfDay ==
  ASSUME NEW s \in Int, 0 <= s, s < DAY
  PROVE  /\ s \div HOUR \in 0 .. DAY \div HOUR - 1
         /\ (s \div MINUTE) % (HOUR \div MINUTE) \in 0 .. HOUR \div MINUTE - 1
         /\ s % MINUTE \in 0 .. MINUTE - 1
         /\ s = HOUR * (s \div HOUR) + MINUTE * ((s \div MINUTE) % (HOUR \div MINUTE))
                  + (s % MINUTE)
  <1> DEFINE k == HOUR \div MINUTE
             h == DAY \div HOUR
             g == s \div MINUTE
             z == s % MINUTE
             j == g \div k
             w == g % k
  <1>1. MINUTE \in Nat \ {0} /\ HOUR \in Nat \ {0} /\ DAY \in Nat \ {0}
    BY CalendarAssumption
  <1>2. k \in Nat \ {0} /\ HOUR = MINUTE * k
    <2>1. k \in Int /\ HOUR = MINUTE * k + (HOUR % MINUTE) /\ HOUR % MINUTE = 0
      BY <1>1, DivInt, CalendarAssumption
    <2> HIDE DEF k
    <2>2. HOUR = MINUTE * k
      BY <1>1, <2>1
    <2>3. k <= 0 => MINUTE * k <= 0
      BY <1>1, <2>1
    <2>4. QED
      BY <1>1, <2>1, <2>2, <2>3
  <1>3. h \in Int /\ DAY = HOUR * h
    <2>1. h \in Int /\ DAY = HOUR * h + (DAY % HOUR) /\ DAY % HOUR = 0
      BY <1>1, DivInt, CalendarAssumption
    <2> HIDE DEF h
    <2>2. HOUR * h \in Int
      BY <1>1, <2>1
    <2>3. QED
      BY <2>1, <2>2
  <1>4. g \in Int /\ z \in 0 .. MINUTE - 1 /\ s = MINUTE * g + z
    BY <1>1, DivInt
  <1> HIDE DEF k, h, g, z
  <1>5. j \in Int /\ w \in 0 .. k - 1 /\ g = k * j + w
    BY <1>2, <1>4, DivInt
  <1> HIDE DEF j, w
  <1>6. s = HOUR * j + (MINUTE * w + z)
    <2>1. MINUTE * g = (MINUTE * k) * j + MINUTE * w
      BY <1>1, <1>2, <1>4, <1>5
    <2>2. HOUR * j \in Int /\ MINUTE * w \in Int
      BY <1>1, <1>5
    <2>3. QED
      BY <1>2, <1>4, <2>1, <2>2
  <1>7. MINUTE * w + z \in 0 .. HOUR - 1
    <2>1. MINUTE * w <= MINUTE * (k - 1) /\ 0 <= MINUTE * w
      BY <1>1, <1>2, <1>5
    <2>2. MINUTE * (k - 1) = HOUR - MINUTE /\ MINUTE * w \in Int
      BY <1>1, <1>2, <1>5
    <2>3. QED
      BY <1>1, <1>4, <2>1, <2>2
  <1>8. s \div HOUR = j
    BY <1>1, <1>5, <1>6, <1>7, DivUnique
  <1>9. j \in 0 .. h - 1
    <2>1. HOUR * j \in Int /\ HOUR * h \in Int
      BY <1>1, <1>3, <1>5
    <2>2. j <= -1 => HOUR * j <= -HOUR
      BY <1>1, <1>5
    <2>3. j >= h => HOUR * j >= HOUR * h
      BY <1>1, <1>3, <1>5
    <2>4. QED
      BY <1>1, <1>3, <1>5, <1>6, <1>7, <2>1, <2>2, <2>3
  <1>10. s = HOUR * j + MINUTE * w + z
    <2>1. HOUR * j \in Int /\ MINUTE * w \in Int
      BY <1>1, <1>5
    <2>2. QED
      BY <1>4, <1>6, <2>1
  <1>11. /\ (s \div MINUTE) % (HOUR \div MINUTE) = w /\ s % MINUTE = z
         /\ HOUR \div MINUTE = k /\ DAY \div HOUR = h
    BY DEF k, h, g, z, w
  <1>12. s \div HOUR \in 0 .. DAY \div HOUR - 1
    BY <1>8, <1>9, <1>11
  <1>13. (s \div MINUTE) % (HOUR \div MINUTE) \in 0 .. HOUR \div MINUTE - 1
    BY <1>5, <1>11
  <1>14. s % MINUTE \in 0 .. MINUTE - 1
    BY <1>4, <1>11
  <1> DEFINE u == s \div HOUR
             v == (s \div MINUTE) % (HOUR \div MINUTE)
             x == s % MINUTE
  <1>15. s = HOUR * u + MINUTE * v + x
    <2>1. u = j /\ v = w /\ x = z
      BY <1>8, <1>11
    <2> HIDE DEF u, v, x
    <2>2. QED
      BY <1>10, <2>1
  <1>16. QED
    BY <1>12, <1>13, <1>14, <1>15

\* A later year has no fewer leap years behind it, and about one in four.
LEMMA LeapsGrow ==
  ASSUME NEW g \in Int, NEW j \in Int, g <= j
  PROVE  Leaps(g) <= Leaps(j)
  <1>1. PICK C, c, q, r : Parts(g, C, c, q, r)
    BY PartsOf
  <1>2. PICK C2, c2, q2, r2 : Parts(j, C2, c2, q2, r2)
    BY PartsOf
  <1>3. Leaps(g) = 97 * C + 24 * c + q /\ Leaps(j) = 97 * C2 + 24 * c2 + q2
    BY <1>1, <1>2, YearParts
  <1>4. /\ C \in Int /\ c \in Int /\ q \in Int /\ r \in Int
        /\ 0 <= c /\ c <= 3 /\ 0 <= q /\ q <= 24 /\ 0 <= r /\ r <= 3
        /\ g = 400 * C + 100 * c + 4 * q + r
    BY <1>1, SMT DEF Parts
  <1>5. /\ C2 \in Int /\ c2 \in Int /\ q2 \in Int /\ r2 \in Int
        /\ 0 <= c2 /\ c2 <= 3 /\ 0 <= q2 /\ q2 <= 24 /\ 0 <= r2 /\ r2 <= 3
        /\ j = 400 * C2 + 100 * c2 + 4 * q2 + r2
    BY <1>2, SMT DEF Parts
  <1>6. QED
    BY <1>3, <1>4, <1>5, SMT

LEMMA LeapsBound ==
  ASSUME NEW y \in Int
  PROVE  Leaps(y) \in Int /\ 97 * y - 591 <= 400 * Leaps(y) /\ 400 * Leaps(y) <= 97 * y + 288
  <1>1. PICK C, c, q, r : Parts(y, C, c, q, r)
    BY PartsOf
  <1>2. Leaps(y) = 97 * C + 24 * c + q
    BY <1>1, YearParts
  <1>3. /\ C \in Int /\ c \in Int /\ q \in Int /\ r \in Int
        /\ 0 <= c /\ c <= 3 /\ 0 <= q /\ q <= 24 /\ 0 <= r /\ r <= 3
        /\ y = 400 * C + 100 * c + 4 * q + r
    BY <1>1, SMT DEF Parts
  <1>4. QED
    BY <1>2, <1>3, SMT

\* The first days of the years.
LEMMA FirstDay ==
  ASSUME NEW y \in Int
  PROVE  /\ DayNumber(y, 1, 1) = 365 * (y - 1970) + Leaps(y - 1) - 477
         /\ DayNumber(y, 1, 1) \in Int
         /\ DayNumber(y + 1, 1, 1)
              = DayNumber(y, 1, 1) + 365 + IF IsLeap(y) THEN 1 ELSE 0
  <1>1. DayOfYear(y, 1) = 0 /\ DayOfYear(y + 1, 1) = 0
    BY DayOfYearIs
  <1>2. Leaps(y - 1) \in Int
    BY LeapsBound
  <1>3. DayNumber(y, 1, 1) = 365 * (y - 1970) + Leaps(y - 1) - 477
    BY <1>1, <1>2, DayNumberIs, SMT
  <1>4. DayNumber(y + 1, 1, 1) = 365 * (y - 1969) + Leaps(y) - 477
    <2>1. y + 1 \in Int /\ (y + 1) - 1 = y /\ Leaps(y) \in Int
      BY LeapsBound
    <2>2. QED
      BY <1>1, <2>1, DayNumberIs, SMT
  <1>5. Leaps(y) = Leaps(y - 1) + IF IsLeap(y) THEN 1 ELSE 0
    BY LeapsCount
  <1>6. QED
    BY <1>2, <1>3, <1>4, <1>5, SMT

\* A time is before a day exactly when its day is.
LEMMA BeforeDay ==
  ASSUME NEW n \in Int, NEW m \in Int, NEW s \in Int, 0 <= s, s < DAY
  PROVE  n * DAY + s < m * DAY <=> n < m
  <1>1. DAY \in Nat \ {0}
    BY CalendarAssumption
  <1>2. n * DAY \in Int /\ m * DAY \in Int
    BY <1>1
  <1>3. ASSUME n < m PROVE n * DAY + s < m * DAY
    <2>1. (n + 1) * DAY <= m * DAY /\ (n + 1) * DAY = n * DAY + DAY
      BY <1>1, <1>3
    <2>2. QED
      BY <1>1, <1>2, <2>1
  <1>4. ASSUME m <= n PROVE m * DAY <= n * DAY + s
    <2>1. m * DAY <= n * DAY
      BY <1>1, <1>4
    <2>2. QED
      BY <1>1, <1>2, <2>1
  <1>5. QED
    BY <1>1, <1>2, <1>3, <1>4

\* No year of an int lies beyond the limits of the first test of __secs_to_tm.
LEMMA YearsFit ==
  /\ DayNumber(INT_MAX + 1901, 1, 1) <= INT_MAX * 366
  /\ INT_MIN * 366 <= DayNumber(INT_MIN + 1900, 1, 1)
  <1>1. INT_MAX \in Int /\ INT_MAX >= 40000
    BY CalendarAssumption, SMT
  <1>2. /\ DayNumber(INT_MAX + 1901, 1, 1) = 365 * (INT_MAX - 69) + Leaps(INT_MAX + 1900) - 477
        /\ 400 * Leaps(INT_MAX + 1900) <= 97 * (INT_MAX + 1900) + 288
        /\ Leaps(INT_MAX + 1900) \in Int
    <2>1. INT_MAX + 1901 \in Int /\ (INT_MAX + 1901) - 1 = INT_MAX + 1900
          /\ INT_MAX + 1900 \in Int
      BY <1>1, SMT
    <2>2. /\ Leaps(INT_MAX + 1900) \in Int
          /\ 400 * Leaps(INT_MAX + 1900) <= 97 * (INT_MAX + 1900) + 288
      BY <2>1, LeapsBound
    <2>3. DayNumber(INT_MAX + 1901, 1, 1)
            = 365 * ((INT_MAX + 1901) - 1970) + Leaps(INT_MAX + 1900) - 477
      BY <2>1, FirstDay
    <2>4. QED
      BY <1>1, <2>2, <2>3, SMT
  <1>3. /\ DayNumber(INT_MIN + 1900, 1, 1) = 365 * (-71 - INT_MAX) + Leaps(1898 - INT_MAX) - 477
        /\ 97 * (1898 - INT_MAX) - 591 <= 400 * Leaps(1898 - INT_MAX)
        /\ Leaps(1898 - INT_MAX) \in Int
    <2>1. INT_MIN + 1900 \in Int /\ (INT_MIN + 1900) - 1 = 1898 - INT_MAX
          /\ 1898 - INT_MAX \in Int /\ INT_MIN + 1900 = 1899 - INT_MAX
      BY <1>1, SMT DEF INT_MIN
    <2>2. /\ Leaps(1898 - INT_MAX) \in Int
          /\ 97 * (1898 - INT_MAX) - 591 <= 400 * Leaps(1898 - INT_MAX)
      BY <2>1, LeapsBound
    <2>3. DayNumber(INT_MIN + 1900, 1, 1)
            = 365 * ((INT_MIN + 1900) - 1970) + Leaps(1898 - INT_MAX) - 477
      BY <2>1, FirstDay
    <2>4. QED
      BY <1>1, <2>1, <2>2, <2>3, SMT
  <1>4. DayNumber(INT_MAX + 1901, 1, 1) <= INT_MAX * 366
    BY <1>1, <1>2, SMT
  <1>5. INT_MIN * 366 <= DayNumber(INT_MIN + 1900, 1, 1)
    BY <1>1, <1>3, SMT DEF INT_MIN
  <1>6. QED
    BY <1>4, <1>5

\* The years begin in order.
LEMMA FirstDaysGrow ==
  ASSUME NEW g \in Int, NEW j \in Int, g <= j
  PROVE  DayNumber(g, 1, 1) <= DayNumber(j, 1, 1)
  <1>1. g - 1 \in Int /\ j - 1 \in Int /\ g - 1 <= j - 1
    BY SMT
  <1>2. Leaps(g - 1) <= Leaps(j - 1) /\ Leaps(g - 1) \in Int /\ Leaps(j - 1) \in Int
    BY <1>1, LeapsGrow, LeapsBound
  <1>3. DayNumber(g, 1, 1) = 365 * (g - 1970) + Leaps(g - 1) - 477
    BY FirstDay, SMT
  <1>4. DayNumber(j, 1, 1) = 365 * (j - 1970) + Leaps(j - 1) - 477
    BY FirstDay, SMT
  <1>5. QED
    BY <1>2, <1>3, <1>4, SMT

\* What __secs_to_tm fills in is the date and time of t, whether it fails or not.
LEMMA FieldsAreTrue ==
  ASSUME NEW t \in Int
  PROVE  LET f == SecsToTm(t).tm
             y == f.tm_year + 1900
             m == f.tm_mon + 1
             n == DayNumber(y, m, f.tm_mday)
             s == HOUR * f.tm_hour + MINUTE * f.tm_min + f.tm_sec
         IN /\ f.tm_year \in Int /\ y \in Int /\ m \in 1 .. 12 /\ f.tm_mday \in 1 .. DaysOfMonth(y)[m]
            /\ f.tm_hour \in 0 .. DAY \div HOUR - 1
            /\ f.tm_min \in 0 .. HOUR \div MINUTE - 1
            /\ f.tm_sec \in 0 .. MINUTE - 1
            /\ t = n * DAY + s /\ s \in Int /\ 0 <= s /\ s < DAY
            /\ f.tm_wday = (4 + n) % 7
            /\ f.tm_yday = n - DayNumber(y, 1, 1)
            /\ n \in Int
            /\ DayNumber(y, 1, 1) <= n /\ n < DayNumber(y + 1, 1, 1)
  <1> DEFINE D  == Days(t - LEAPOCH)
             s  == Rest(t - LEAPOCH)
             i  == InCycle(D)
             C  == Cycle(D)
             c  == Periods(i, DAYS_PER_100Y, 3)
             n1 == i - c * DAYS_PER_100Y
             q  == Periods(n1, DAYS_PER_4Y, 24)
             n4 == n1 - q * DAYS_PER_4Y
             r  == Periods(n4, 365, 3)
             d  == n4 - r * 365
             l  == IF r = 0 /\ (q # 0 \/ c = 0) THEN 1 ELSE 0
             g  == d + 31 + 28 + l
             mo == MonthOf(d)
             ys == r + 4 * q + 100 * c + 400 * C + (IF mo >= 10 THEN 1 ELSE 0)
             f  == SecsToTm(t).tm
             Y0 == 2000 + 400 * C + 100 * c + 4 * q + r
             Y  == Y0 + IF mo >= 10 THEN 1 ELSE 0
             M  == (IF mo >= 10 THEN mo - 12 ELSE mo) + 3
             e  == d - DaysBefore[mo] + 1
             n  == DayNumber(Y, M, e)
  <1>1. /\ f.tm_year = ys + 100
        /\ f.tm_mon = (IF mo >= 10 THEN mo - 12 ELSE mo) + 2
        /\ f.tm_mday = e
        /\ f.tm_wday = Weekday(D)
        /\ f.tm_yday = (IF g >= 365 + l THEN g - (365 + l) ELSE g)
        /\ f.tm_hour = s \div HOUR
        /\ f.tm_min = (s \div MINUTE) % (HOUR \div MINUTE)
        /\ f.tm_sec = s % MINUTE
    BY DEF SecsToTm
  <1> HIDE DEF f
  <1>2. DAY \in Nat \ {0} /\ LEAPOCH = DAY * 11017 /\ LEAPOCH \in Int
    <2>1. DAY \in Nat \ {0}
      BY CalendarAssumption
    <2>2. 10957 + 31 + 29 = 11017
      BY SMT
    <2>3. LEAPOCH = DAY * 11017
      BY <2>2 DEF LEAPOCH
    <2>4. QED
      BY <2>1, <2>3, SMT
  <1>3. t - LEAPOCH \in Int
    BY <1>2
  <1>4. /\ D \in Int /\ s \in Int /\ 0 <= s /\ s < DAY /\ t - LEAPOCH = DAY * D + s
    BY <1>2, <1>3, DaysRoundDown
  <1>5. t = (D + 11017) * DAY + s
    <2> HIDE DEF D, s
    <2>1. (D + 11017) * DAY = DAY * D + DAY * 11017
      BY <1>2, <1>4, SMT
    <2>2. DAY * D \in Int
      BY <1>2, <1>4
    <2>3. QED
      BY <1>2, <1>4, <2>1, <2>2, SMT
  <1> HIDE DEF D, s
  <1>6. Weekday(D) = (3 + D) % 7
    BY <1>4, DaysRoundDown
  <1>7. C \in Int /\ i \in Int /\ 0 <= i /\ i < 146097 /\ D = 146097 * C + i
    <2>1. DAYS_PER_400Y = 146097
      BY SMT DEF DAYS_PER_400Y
    <2>2. /\ C \in Int /\ i \in Int /\ 0 <= i /\ i < DAYS_PER_400Y
          /\ D = DAYS_PER_400Y * C + i
      BY <1>4, DaysRoundDown
    <2> HIDE DEF C, i
    <2>3. QED
      BY <2>1, <2>2, SMT
  <1> HIDE DEF C, i
  <1>8. /\ c \in Int /\ q \in Int /\ r \in Int /\ d \in Int
        /\ 0 <= c /\ c <= 3 /\ 0 <= q /\ q <= 24 /\ 0 <= r /\ r <= 3
        /\ 0 <= d /\ d <= 365
        /\ d = 365 => r = 3 /\ (q # 24 \/ c = 3)
        /\ i = 36524 * c + 1461 * q + 365 * r + d
    <2>1. DAYS_PER_100Y = 36524 /\ DAYS_PER_4Y = 1461
      BY SMT DEF DAYS_PER_100Y, DAYS_PER_4Y
    <2>2. /\ c = Periods(i, 36524, 3) /\ n1 = i - c * 36524
          /\ q = Periods(n1, 1461, 24) /\ n4 = n1 - q * 1461
          /\ r = Periods(n4, 365, 3) /\ d = n4 - r * 365
      BY <2>1, SMT
    <2> HIDE DEF c, n1, q, n4, r, d
    <2>3. QED
      BY <1>7, <2>2, CycleBounds, SMT
  <1> HIDE DEF c, n1, q, n4, r, d
  <1>9. Parts(Y0, C + 5, c, q, r)
    BY <1>7, <1>8, SMT DEF Parts
  <1>10. D = 146097 * C + 36524 * c + 1461 * q + 365 * r + d
    BY <1>7, <1>8, SMT
  <1>11. /\ Y \in Int /\ M \in 1 .. 12 /\ e \in 1 .. DaysOfMonth(Y)[M]
         /\ n = D + 11017
         /\ n - DayNumber(Y, 1, 1) = IF d + 59 >= 365 THEN d - 306 ELSE d + 59 + l
         /\ 0 <= n - DayNumber(Y, 1, 1)
         /\ n - DayNumber(Y, 1, 1) < 365 + IF IsLeap(Y) THEN 1 ELSE 0
    <2>1. DayIs(D, C, c, q, r, d, Y0, mo, Y, M, e, l)
      BY <1>7, <1>8, <1>9, <1>10, SMT DEF DayIs
    <2> HIDE DEF Y0, Y, M, e, l, mo
    <2>2. QED
      BY <1>7, <1>8, <1>10, <2>1, DateOfDay
  <1>12. mo \in 0 .. 11
    BY <1>8, MonthIs, SMT
  <1>13. l \in Int /\ Y0 \in Int
    BY <1>7, <1>8, SMT
  <1> HIDE DEF mo, l
  <1>14. f.tm_year \in Int /\ f.tm_year + 1900 = Y /\ f.tm_mon + 1 = M /\ f.tm_mday = e
    <2>1. ys + 2000 = Y
      BY <1>7, <1>8, <1>12, SMT
    <2>2. ys \in Int
      BY <1>7, <1>8, <1>12, SMT
    <2>3. f.tm_mon + 1 = M
      BY <1>1, <1>12, SMT
    <2> HIDE DEF ys, Y, M
    <2>4. QED
      BY <1>1, <2>1, <2>2, <2>3, SMT
  <1> HIDE DEF Y0, Y, M, e, n
  <1>15. n \in Int /\ f.tm_wday = (4 + n) % 7
    BY <1>1, <1>4, <1>6, <1>11, SMT
  <1>16. f.tm_yday = n - DayNumber(Y, 1, 1)
    BY <1>1, <1>8, <1>11, <1>13, SMT
  <1> DEFINE time == HOUR * f.tm_hour + MINUTE * f.tm_min + f.tm_sec
  <1>17. t = n * DAY + time /\ time \in Int /\ 0 <= time /\ time < DAY
    <2> DEFINE u == s \div HOUR
               v == (s \div MINUTE) % (HOUR \div MINUTE)
               w == s % MINUTE
    <2>1. f.tm_hour = u /\ f.tm_min = v /\ f.tm_sec = w
      BY <1>1
    <2>2. s = HOUR * u + MINUTE * v + w
      BY <1>4, TimeOfDay
    <2> HIDE DEF u, v, w
    <2>3. s = time
      BY <2>1, <2>2
    <2>4. t = n * DAY + s
      BY <1>5, <1>11, SMT
    <2> HIDE DEF time
    <2>5. QED
      BY <1>4, <2>3, <2>4
  <1>18. /\ f.tm_hour \in 0 .. DAY \div HOUR - 1
         /\ f.tm_min \in 0 .. HOUR \div MINUTE - 1
         /\ f.tm_sec \in 0 .. MINUTE - 1
    BY <1>1, <1>4, TimeOfDay
  <1>19. DayNumber(Y, 1, 1) <= n /\ n < DayNumber(Y + 1, 1, 1)
    <2>1. /\ DayNumber(Y, 1, 1) \in Int
          /\ DayNumber(Y + 1, 1, 1)
               = DayNumber(Y, 1, 1) + 365 + IF IsLeap(Y) THEN 1 ELSE 0
      BY <1>11, FirstDay
    <2>2. QED
      BY <1>11, <1>15, <2>1, SMT
  <1>20. QED
    BY <1>11, <1>14, <1>15, <1>16, <1>17, <1>18, <1>19 DEF f, n, time

\* The call fails exactly when the year has no int.
LEMMA FailsTruly ==
  ASSUME NEW t \in Int
  PROVE  SecsToTm(t).fails
           <=> t \notin YearBegins(INT_MIN + 1900) .. YearBegins(INT_MAX + 1901) - 1
  <1> DEFINE f == SecsToTm(t).tm
             y == f.tm_year + 1900
             n == DayNumber(y, f.tm_mon + 1, f.tm_mday)
             s == HOUR * f.tm_hour + MINUTE * f.tm_min + f.tm_sec
             low == INT_MIN + 1900
             high == INT_MAX + 1901
             first(k) == DayNumber(k, 1, 1)
  <1>1. SecsToTm(t).fails <=> \/ t < (INT_MIN * 366) * DAY \/ t > (INT_MAX * 366) * DAY
                              \/ f.tm_year > INT_MAX \/ f.tm_year < INT_MIN
    <2> DEFINE D  == Days(t - LEAPOCH)
               i  == InCycle(D)
               c  == Periods(i, DAYS_PER_100Y, 3)
               n1 == i - c * DAYS_PER_100Y
               q  == Periods(n1, DAYS_PER_4Y, 24)
               n4 == n1 - q * DAYS_PER_4Y
               r  == Periods(n4, 365, 3)
               d  == n4 - r * 365
               ys == r + 4 * q + 100 * c + 400 * Cycle(D)
                       + (IF MonthOf(d) >= 10 THEN 1 ELSE 0)
    <2>1. SecsToTm(t).fails <=> \/ t < (INT_MIN * 366) * DAY \/ t > (INT_MAX * 366) * DAY
                                \/ ys + 100 > INT_MAX \/ ys + 100 < INT_MIN
      BY DEF SecsToTm
    <2>2. f.tm_year = ys + 100
      BY DEF SecsToTm
    <2> HIDE DEF ys, f
    <2>3. QED
      BY <2>1, <2>2
  <1>2. /\ y \in Int /\ n \in Int /\ t = n * DAY + s
        /\ s \in Int /\ 0 <= s /\ s < DAY
        /\ first(y) <= n /\ n < first(y + 1)
    BY FieldsAreTrue
  <1>3. f.tm_year \in Int
    BY FieldsAreTrue
  <1> HIDE DEF f, n, s
  <1>4. /\ low \in Int /\ high \in Int /\ INT_MIN \in Int /\ INT_MAX \in Int
        /\ DAY \in Nat \ {0}
    BY CalendarAssumption, SMT DEF INT_MIN
  <1>5. f.tm_year < INT_MIN <=> y < low
    BY <1>3, <1>4, SMT
  <1>6. f.tm_year > INT_MAX <=> y >= high
    BY <1>3, <1>4, SMT
  <1>7. first(low) \in Int /\ first(high) \in Int /\ first(y) \in Int /\ first(y + 1) \in Int
    <2>1. y + 1 \in Int
      BY <1>2
    <2> HIDE DEF y, low, high
    <2>2. first(low) \in Int
      BY <1>4, FirstDay
    <2>3. first(high) \in Int
      BY <1>4, FirstDay
    <2>4. first(y) \in Int
      BY <1>2, FirstDay
    <2>5. first(y + 1) \in Int
      BY <2>1, FirstDay
    <2>6. QED
      BY <2>2, <2>3, <2>4, <2>5
  <1> HIDE DEF y, low, high
  <1>8. y < low <=> n < first(low)
    <2>1. ASSUME y < low PROVE n < first(low)
      <3>1. y + 1 \in Int /\ y + 1 <= low
        BY <1>2, <1>4, <2>1
      <3>2. first(y + 1) <= first(low)
        BY <1>4, <3>1, FirstDaysGrow
      <3> HIDE DEF first
      <3>3. QED
        BY <1>2, <1>7, <3>2
    <2>2. ASSUME low <= y PROVE ~(n < first(low))
      <3>1. first(low) <= first(y)
        BY <1>2, <1>4, <2>2, FirstDaysGrow
      <3> HIDE DEF first
      <3>2. QED
        BY <1>2, <1>7, <3>1
    <2> HIDE DEF first
    <2>3. QED
      BY <1>2, <1>4, <2>1, <2>2
  <1>9. y >= high <=> ~(n < first(high))
    <2>1. ASSUME y < high PROVE n < first(high)
      <3>1. y + 1 \in Int /\ y + 1 <= high
        BY <1>2, <1>4, <2>1
      <3>2. first(y + 1) <= first(high)
        BY <1>4, <3>1, FirstDaysGrow
      <3> HIDE DEF first
      <3>3. QED
        BY <1>2, <1>7, <3>2
    <2>2. ASSUME high <= y PROVE ~(n < first(high))
      <3>1. first(high) <= first(y)
        BY <1>2, <1>4, <2>2, FirstDaysGrow
      <3> HIDE DEF first
      <3>2. QED
        BY <1>2, <1>7, <3>1
    <2> HIDE DEF first
    <2>3. QED
      BY <1>2, <1>4, <2>1, <2>2
  <1>10. INT_MIN * 366 \in Int /\ INT_MAX * 366 \in Int
    BY <1>4, SMT
  <1>11. INT_MIN * 366 <= first(low) /\ first(high) <= INT_MAX * 366
    BY YearsFit DEF low, high
  <1>12. t < (INT_MIN * 366) * DAY => n < first(low)
    <2>1. t < (INT_MIN * 366) * DAY <=> n < INT_MIN * 366
      BY <1>2, <1>10, BeforeDay
    <2> HIDE DEF first
    <2>2. QED
      BY <1>2, <1>7, <1>10, <1>11, <2>1, SMT
  <1>13. t > (INT_MAX * 366) * DAY => ~(n < first(high))
    <2>1. t < (INT_MAX * 366) * DAY <=> n < INT_MAX * 366
      BY <1>2, <1>10, BeforeDay
    <2>2. t \in Int /\ (INT_MAX * 366) * DAY \in Int
      BY <1>4, <1>10
    <2> DEFINE limit == (INT_MAX * 366) * DAY
    <2> HIDE DEF first, limit
    <2>3. t > limit => ~(t < limit)
      BY <2>2 DEF limit
    <2>4. QED
      BY <1>2, <1>7, <1>10, <1>11, <2>1, <2>3, SMT DEF limit
  <1>14. /\ YearBegins(low) = first(low) * DAY /\ YearBegins(high) = first(high) * DAY
         /\ YearBegins(low) \in Int /\ YearBegins(high) \in Int
    <2>1. YearBegins(low) = first(low) * DAY /\ YearBegins(high) = first(high) * DAY
      BY DEF YearBegins
    <2> HIDE DEF first
    <2>2. QED
      BY <1>4, <1>7, <2>1
  <1>15. /\ t < YearBegins(low) <=> n < first(low)
         /\ t < YearBegins(high) <=> n < first(high)
    <2> HIDE DEF first
    <2>1. QED
      BY <1>2, <1>7, <1>14, BeforeDay
  <1> HIDE DEF first
  <1>16. SecsToTm(t).fails <=> t < YearBegins(low) \/ ~(t < YearBegins(high))
    BY <1>1, <1>5, <1>6, <1>8, <1>9, <1>12, <1>13, <1>15
  <1>17. t \in YearBegins(low) .. YearBegins(high) - 1
           <=> ~(t < YearBegins(low)) /\ t < YearBegins(high)
    BY <1>14
  <1>18. QED
    BY <1>16, <1>17 DEF low, high

\* localtime_r fills in the date and time of every number of seconds whose year has
\* an int, and fails with EOVERFLOW for all others and only for them.
THEOREM DatesAreTrue == CalendarSpec => []DateIsTrue
  <1>1. CalendarInit => DateIsTrue
    BY DEF CalendarInit, DateIsTrue
  <1>2. DateIsTrue /\ [CalendarNext]_calendarVars => DateIsTrue'
    <2>1. DateIsTrue /\ UNCHANGED calendarVars => DateIsTrue'
      BY DEF calendarVars, DateIsTrue
    <2>2. ASSUME NEW t \in Times, Localtime(t) PROVE DateIsTrue'
      <3> DEFINE f == SecsToTm(t)
      <3>1. /\ timer' = t /\ t \in Int
            /\ f.fails => ret' = "EOVERFLOW"
            /\ ~f.fails => ret' = "tm" /\ tm' = f.tm
        BY <2>2, CalendarAssumption DEF Localtime
      <3>2. f.fails <=> t \notin YearBegins(INT_MIN + 1900) .. YearBegins(INT_MAX + 1901) - 1
        BY <3>1, FailsTruly
      <3> HIDE DEF f
      <3>3. ret' = "EOVERFLOW" <=>
              /\ ret' # "none"
              /\ timer' \notin YearBegins(INT_MIN + 1900) .. YearBegins(INT_MAX + 1901) - 1
        BY <3>1, <3>2
      <3>4. ASSUME ret' = "tm"
            PROVE  LET y == tm'.tm_year + 1900
                       m == tm'.tm_mon + 1
                       n == DayNumber(y, m, tm'.tm_mday)
                       time == HOUR * tm'.tm_hour + MINUTE * tm'.tm_min + tm'.tm_sec
                   IN /\ m \in 1 .. 12 /\ tm'.tm_mday \in 1 .. DaysOfMonth(y)[m]
                      /\ tm'.tm_hour \in 0 .. DAY \div HOUR - 1
                      /\ tm'.tm_min \in 0 .. HOUR \div MINUTE - 1
                      /\ tm'.tm_sec \in 0 .. MINUTE - 1
                      /\ timer' = n * DAY + time
                      /\ tm'.tm_wday = (4 + n) % 7
                      /\ tm'.tm_yday = n - DayNumber(y, 1, 1)
        <4>1. tm' = SecsToTm(t).tm /\ timer' = t
          BY <3>1, <3>4 DEF f
        <4>2. QED
          BY <3>1, <4>1, FieldsAreTrue
      <3>5. QED
        BY <3>3, <3>4 DEF DateIsTrue
    <2>3. QED
      BY <2>1, <2>2 DEF CalendarNext
  <1>3. QED
    BY <1>1, <1>2, PTL DEF CalendarSpec

-----------------------------------------------------------------------------
(* Division.                                                               *)

Phases == {"idle", "start", "loop", "done", "trap"}

TypeInv ==
  /\ a \in Word /\ b \in Word /\ signed \in BOOLEAN
  /\ num \in Nat /\ den \in Nat /\ quot \in Nat
  /\ qbit \in Powers \cup {0}
  /\ pc \in Phases

\* The loop's invariant, what holds on the way to the loop, and the results.
DivInv ==
  /\ TypeInv
  /\ pc = "start" => num = Magnitude(a) /\ den = Magnitude(b) /\ quot = 0
  /\ pc = "loop" => Magnitude(b) # 0
  /\ LoopInvariant
  /\ DividesTruncating

-----------------------------------------------------------------------------
\* The facts about the constants that every step uses.
LEMMA Words ==
  /\ TopBit \in Nat /\ TopBit > 0
  /\ \A x \in Word : x \in Nat /\ x < 2 * TopBit
  /\ \A x \in Nat : x < 2 * TopBit => x \in Word
  <1>1. TopBit \in Nat \ {0}
    BY WordAssumption
  <1>2. QED
    BY <1>1 DEF Word

\* The magnitude of a word is a word, and a signed one is at most TopBit.
LEMMA MagnitudeIsWord ==
  ASSUME NEW x \in Word, signed \in BOOLEAN
  PROVE  /\ Magnitude(x) \in Word
         /\ signed => Magnitude(x) <= TopBit
         /\ Value(x) = IF Negative(x) THEN -Magnitude(x) ELSE Magnitude(x)
         /\ Magnitude(x) = 0 <=> x = 0
  <1>1. TopBit \in Nat /\ TopBit > 0
    BY Words
  <1>2. x \in Nat /\ x < 2 * TopBit
    BY <1>1 DEF Word
  <1>3. QED
    BY <1>1, <1>2 DEF Magnitude, Minus, Value, Negative, Word

\* The arithmetic of one turn of the loop.
LEMMA OneTurn ==
  ASSUME NEW q \in Nat, NEW p \in Nat, NEW d \in Nat
  PROVE  (q + p) * d = q * d + d * p
  OBVIOUS

\* Halving the bit halves the shifted divisor exactly.
LEMMA HalfShift ==
  ASSUME NEW d \in Nat, NEW p \in Nat, p % 2 = 0
  PROVE  (d * p) \div 2 = d * (p \div 2) /\ d * p = 2 * (d * (p \div 2))
  <1> DEFINE h == p \div 2
  <1>1. h \in Nat /\ p = 2 * h
    OBVIOUS
  <1> HIDE DEF h
  <1>2. d * p = 2 * (d * h) /\ d * h \in Nat
    BY <1>1
  <1>3. (d * p) \div 2 = d * h
    BY <1>2
  <1>4. QED
    BY <1>2, <1>3 DEF h

\* A quotient is not above its dividend.
LEMMA QuotientBound ==
  ASSUME NEW q \in Nat, NEW d \in Nat \ {0}, NEW r \in Nat, NEW n \in Nat,
         q * d + r = n
  PROVE  q <= n /\ (d # 1 => 2 * q <= n)
  <1>1. q * d >= q
    OBVIOUS
  <1>2. d # 1 => q * d >= 2 * q
    <2>1. SUFFICES ASSUME d # 1 PROVE q * d >= 2 * q
      OBVIOUS
    <2>2. d >= 2
      BY <2>1
    <2>3. QED
      BY <2>2
  <1>3. q * d \in Nat
    OBVIOUS
  <1>4. QED
    BY <1>1, <1>2, <1>3

-----------------------------------------------------------------------------
\* A call begins with the magnitudes of its operands.
LEMMA CallKeepsInv ==
  ASSUME DivInv, NEW x \in Word, NEW y \in Word, NEW s \in BOOLEAN, DivCall(x, y, s)
  PROVE  DivInv'
  <1>1. a' = x /\ b' = y /\ signed' = s /\ pc' = "start" /\ qbit' = 1
        /\ quot' = 0 /\ num' = Magnitude(a)' /\ den' = Magnitude(b)'
    BY DEF DivCall, Magnitude, Negative, Minus
  <1>2. num' \in Nat /\ den' \in Nat
    BY <1>1, Words DEF Magnitude, Negative, Minus
  <1>3. qbit' \in Powers \cup {0}
    BY <1>1, WordAssumption
  <1>4. TypeInv'
    BY <1>1, <1>2, <1>3 DEF TypeInv, Word, Phases
  <1>5. QED
    BY <1>1, <1>4 DEF DivInv, LoopInvariant, DividesTruncating

\* A division by zero traps before the loop.
LEMMA TrapKeepsInv ==
  ASSUME DivInv, Trap
  PROVE  DivInv'
  BY DEF DivInv, TypeInv, Trap, LoopInvariant, DividesTruncating, Phases, Word

\* The shift establishes the loop's invariant: nothing is divided yet, and
\* the divisor's highest bit stands at the top.
LEMMA NormalizeKeepsInv ==
  ASSUME DivInv, Normalize
  PROVE  DivInv'
  <1> DEFINE n == Magnitude(a)
             d == Magnitude(b)
  <1>1. PICK p \in Powers : /\ den * p \in TopBit .. 2 * TopBit - 1
                            /\ den' = den * p
                            /\ qbit' = p
    BY DEF Normalize
  <1>2. /\ pc = "start" /\ pc' = "loop" /\ den # 0
        /\ a' = a /\ b' = b /\ signed' = signed /\ num' = num /\ quot' = quot
    BY DEF Normalize
  <1>3. num = n /\ den = d /\ quot = 0
    BY <1>2 DEF DivInv
  <1>4. n \in Word /\ d \in Word /\ n' = n /\ d' = d
    BY <1>2, MagnitudeIsWord DEF DivInv, TypeInv, Magnitude, Negative, Minus
  <1> HIDE DEF n, d
  <1>5. den' \in Nat /\ den' < 2 * TopBit /\ den' >= TopBit
    BY <1>1, Words
  <1>6. num' < 2 * den' /\ quot' * d + num' = n
    BY <1>2, <1>3, <1>4, <1>5, Words
  <1>7. TypeInv'
    BY <1>1, <1>2, <1>5 DEF DivInv, TypeInv, Phases, Word
  <1>8. LoopInvariant'
    <2>1. {num', den', quot'} \subseteq Word
      BY <1>2, <1>3, <1>4, <1>5, Words
    <2>2. qbit' # 0 /\ den' = d * qbit'
      BY <1>1, <1>3, WordAssumption
    <2>3. QED
      BY <1>4, <1>6, <2>1, <2>2 DEF LoopInvariant, n, d
  <1>9. Magnitude(b)' # 0
    BY <1>2, <1>3, <1>4 DEF d
  <1>10. QED
    BY <1>2, <1>7, <1>8, <1>9 DEF DivInv, DividesTruncating

\* One turn of the loop keeps its invariant.
LEMMA SubtractKeepsInv ==
  ASSUME DivInv, Subtract
  PROVE  DivInv'
  <1> DEFINE n == Magnitude(a)
             d == Magnitude(b)
             h == qbit \div 2
  <1>1. /\ pc = "loop" /\ pc' = "loop" /\ qbit # 0
        /\ a' = a /\ b' = b /\ signed' = signed
        /\ den' = den \div 2 /\ qbit' = h
        /\ den <= num => num' = num - den /\ quot' = quot + qbit
        /\ ~(den <= num) => num' = num /\ quot' = quot
    BY DEF Subtract
  <1>2. n \in Word /\ d \in Word /\ n' = n /\ d' = d
    BY <1>1, MagnitudeIsWord DEF DivInv, TypeInv, Magnitude, Negative, Minus
  <1>3. /\ quot * d + num = n /\ d # 0
        /\ {num, den, quot} \subseteq Word
        /\ den = d * qbit /\ num < 2 * den
        /\ qbit \in Powers
    BY <1>1 DEF DivInv, TypeInv, LoopInvariant
  <1> HIDE DEF n, d
  <1>4. n \in Nat /\ d \in Nat \ {0} /\ num \in Nat /\ den \in Nat
        /\ quot \in Nat /\ qbit \in Nat \ {0} /\ n < 2 * TopBit
        /\ den < 2 * TopBit
    BY <1>2, <1>3, Words, WordAssumption
  <1>5. num' \in Nat /\ quot' \in Nat /\ num' < den /\ num' <= num
    BY <1>1, <1>3, <1>4
  <1>6. quot' * d + num' = n
    <2>1. CASE den <= num
      <3>1. quot' * d = quot * d + den
        BY <1>1, <1>3, <1>4, <2>1, OneTurn
      <3>2. quot * d \in Nat
        BY <1>4
      <3>3. QED
        BY <1>1, <1>3, <1>4, <2>1, <3>1, <3>2
    <2>2. CASE ~(den <= num)
      BY <1>1, <1>3, <2>2
    <2>3. QED
      BY <2>1, <2>2
  <1>7. quot' <= n
    BY <1>4, <1>5, <1>6, QuotientBound
  <1>8. den' \in Nat /\ den' <= den
    BY <1>1, <1>4
  <1>9. {num', den', quot'} \subseteq Word
    BY <1>3, <1>4, <1>5, <1>7, <1>8, Words
  <1>10. /\ qbit' \in Powers \cup {0}
         /\ qbit' # 0 => den' = d * qbit' /\ num' < 2 * den'
         /\ qbit' = 0 => num' < d
    <2>1. CASE qbit = 1
      <3>1. h = 0 /\ den = d
        BY <1>3, <1>4, <2>1
      <3>2. QED
        BY <1>1, <1>5, <3>1
    <2>2. CASE qbit # 1
      <3>1. qbit % 2 = 0 /\ h \in Powers
        BY <1>3, <2>2, WordAssumption
      <3>2. den' = d * h /\ den = 2 * (d * h)
        BY <1>1, <1>3, <1>4, <3>1, HalfShift
      <3>3. h # 0
        BY <3>1, WordAssumption
      <3> HIDE DEF h
      <3>4. num' < 2 * den'
        BY <1>5, <3>2
      <3>5. QED
        BY <1>1, <3>1, <3>2, <3>3, <3>4
    <2>3. QED
      BY <2>1, <2>2
  <1>11. TypeInv'
    BY <1>1, <1>5, <1>8, <1>10 DEF DivInv, TypeInv, Phases, Word
  <1>12. LoopInvariant'
    BY <1>2, <1>6, <1>9, <1>10 DEF LoopInvariant, n, d
  <1>13. Magnitude(b)' # 0
    BY <1>2, <1>3 DEF d
  <1>14. QED
    BY <1>1, <1>11, <1>12, <1>13 DEF DivInv, DividesTruncating

\* Putting the signs back gives the truncated quotient and its remainder.
LEMMA FinishKeepsInv ==
  ASSUME DivInv, Finish
  PROVE  DivInv'
  <1> DEFINE n == Magnitude(a)
             d == Magnitude(b)
  <1>1. /\ pc = "loop" /\ pc' = "done" /\ qbit = 0
        /\ a' = a /\ b' = b /\ signed' = signed /\ den' = den /\ qbit' = qbit
        /\ quot' = IF Negative(a) # Negative(b) THEN Minus(quot) ELSE quot
        /\ num' = IF Negative(a) THEN Minus(num) ELSE num
    BY DEF Finish
  <1>2. /\ a \in Word /\ b \in Word /\ signed \in BOOLEAN
        /\ den \in Nat /\ quot \in Word /\ num \in Word
        /\ quot * d + num = n /\ num < d /\ d # 0
    BY <1>1 DEF DivInv, TypeInv, LoopInvariant
  <1>3. /\ n \in Word /\ d \in Word
        /\ signed => n <= TopBit /\ d <= TopBit
        /\ Value(a) = IF Negative(a) THEN -n ELSE n
        /\ Value(b) = IF Negative(b) THEN -d ELSE d
        /\ b # 0
    BY <1>2, MagnitudeIsWord
  <1> HIDE DEF n, d
  <1>4. n \in Nat /\ d \in Nat \ {0} /\ quot \in Nat /\ num \in Nat
        /\ TopBit \in Nat /\ TopBit > 0
    BY <1>2, <1>3, Words
  <1>5. quot <= n /\ (d # 1 => 2 * quot <= n)
    BY <1>2, <1>4, QuotientBound
  <1>6. /\ Value(a)' = Value(a) /\ Value(b)' = Value(b)
        /\ Negative(a)' = Negative(a) /\ Negative(b)' = Negative(b)
        /\ Overflows' = Overflows
    BY <1>1 DEF Value, Negative, Overflows
  <1>7. quot' \in Word /\ num' \in Word
    BY <1>1, <1>2, <1>4, Words DEF Minus
  <1>8. TypeInv'
    BY <1>1, <1>2, <1>7, Words DEF DivInv, TypeInv, Phases, Word
  <1>9. CASE Overflows
    <2>1. Negative(a) /\ Negative(b) /\ n = TopBit /\ d = 1
      BY <1>4, <1>9 DEF Overflows, Negative, n, d, Magnitude, Minus
    <2>2. num = 0 /\ quot = TopBit
      BY <1>2, <1>4, <2>1
    <2>3. quot' = TopBit /\ num' = 0
      BY <1>1, <2>1, <2>2 DEF Minus
    <2>4. DividesTruncating'
      BY <1>1, <1>3, <1>6, <1>9, <2>3 DEF DividesTruncating
    <2>5. QED
      BY <1>1, <1>8, <2>4 DEF DivInv, LoopInvariant
  <1>10. CASE ~Overflows
    <2>1. Value(num)' = IF Negative(a) THEN -num ELSE num
      BY <1>1, <1>2, <1>3, <1>4 DEF Value, Negative, Minus
    <2>2. num' # 0 => Negative(num)' = Negative(a)
      BY <1>1, <1>2, <1>3, <1>4 DEF Negative, Minus
    <2>3. Value(quot)' = IF Negative(a) # Negative(b) THEN -quot ELSE quot
      <3>1. CASE ~signed
        BY <1>1, <3>1 DEF Value, Negative
      <3>2. CASE signed /\ Negative(a) # Negative(b)
        <4>1. quot' = Minus(quot) /\ quot <= TopBit /\ signed'
          BY <1>1, <1>3, <1>4, <1>5, <3>2
        <4>2. QED
          BY <1>4, <3>2, <4>1 DEF Value, Negative, Minus
      <3>3. CASE signed /\ Negative(a) = Negative(b)
        <4>1. quot < TopBit
          <5>1. CASE n < TopBit
            BY <1>4, <1>5, <5>1
          <5>2. CASE d # 1
            BY <1>3, <1>4, <1>5, <3>3, <5>2
          <5>3. CASE n = TopBit /\ d = 1
            <6>1. Negative(a) /\ a = TopBit
              BY <1>2, <1>4, <3>3, <5>3, Words DEF n, Magnitude, Minus, Negative
            <6>2. b = 2 * TopBit - 1
              BY <1>2, <1>4, <3>3, <5>3, <6>1, Words DEF d, Magnitude, Minus, Negative
            <6>3. QED
              BY <1>10, <3>3, <6>1, <6>2 DEF Overflows
          <5>4. QED
            BY <1>3, <1>4, <3>3, <5>1, <5>2, <5>3
        <4>2. QED
          BY <1>1, <1>4, <3>3, <4>1 DEF Value, Negative
      <3>4. QED
        BY <1>2, <3>1, <3>2, <3>3
    <2>4. Value(a) = Value(quot)' * Value(b) + Value(num)'
      <3>1. quot * d \in Nat /\ (-quot) * d = -(quot * d)
            /\ quot * (-d) = -(quot * d) /\ (-quot) * (-d) = quot * d
        BY <1>4
      <3>2. n = quot * d + num
        BY <1>2
      <3> DEFINE m == quot * d
      <3>3. m \in Nat /\ n = m + num
        BY <3>1, <3>2
      <3>4. CASE Negative(a) /\ Negative(b)
        <4>1. Value(quot)' * Value(b) = -m
          BY <1>3, <2>3, <3>1, <3>4
        <4> HIDE DEF m
        <4>2. QED
          BY <1>3, <1>4, <2>1, <3>3, <3>4, <4>1
      <3>5. CASE Negative(a) /\ ~Negative(b)
        <4>1. Value(quot)' * Value(b) = -m
          BY <1>3, <2>3, <3>1, <3>5
        <4> HIDE DEF m
        <4>2. QED
          BY <1>3, <1>4, <2>1, <3>3, <3>5, <4>1
      <3>6. CASE ~Negative(a) /\ Negative(b)
        <4>1. Value(quot)' * Value(b) = m
          BY <1>3, <2>3, <3>1, <3>6
        <4> HIDE DEF m
        <4>2. QED
          BY <1>3, <1>4, <2>1, <3>3, <3>6, <4>1
      <3>7. CASE ~Negative(a) /\ ~Negative(b)
        <4>1. Value(quot)' = quot /\ Value(b) = d
          BY <1>3, <2>3, <3>7 DEF Negative
        <4>2. Value(quot)' * Value(b) = m
          BY <4>1
        <4> HIDE DEF m
        <4>3. QED
          BY <1>3, <1>4, <2>1, <3>3, <3>7, <4>2
      <3>8. QED
        BY <3>4, <3>5, <3>6, <3>7
    <2>5. Absolute(Value(num)') < Absolute(Value(b))
      BY <1>2, <1>3, <1>4, <2>1 DEF Absolute
    <2>6. DividesTruncating'
      BY <1>1, <1>3, <1>6, <1>10, <2>2, <2>4, <2>5 DEF DividesTruncating, Absolute
    <2>7. QED
      BY <1>1, <1>8, <2>6 DEF DivInv, LoopInvariant
  <1>11. QED
    BY <1>9, <1>10

-----------------------------------------------------------------------------
\* DivInv holds of every state of a division.
THEOREM DivisionInvariant == DivSpec => []DivInv
  <1>1. DivInit => DivInv
    <2> SUFFICES ASSUME DivInit PROVE DivInv
      OBVIOUS
    <2>1. pc = "idle" /\ 0 \in Word
      BY Words DEF DivInit
    <2>2. TypeInv
      BY <2>1 DEF DivInit, TypeInv, Phases
    <2>3. QED
      BY <2>1, <2>2 DEF DivInv, LoopInvariant, DividesTruncating
  <1>2. DivInv /\ [DivNext]_divVars => DivInv'
    <2> SUFFICES ASSUME DivInv, [DivNext]_divVars PROVE DivInv'
      OBVIOUS
    <2>1. ASSUME NEW x \in Word, NEW y \in Word, NEW s \in BOOLEAN, DivCall(x, y, s)
          PROVE  DivInv'
      BY <2>1, CallKeepsInv
    <2>2. CASE Trap
      BY <2>2, TrapKeepsInv
    <2>3. CASE Normalize
      BY <2>3, NormalizeKeepsInv
    <2>4. CASE Subtract
      BY <2>4, SubtractKeepsInv
    <2>5. CASE Finish
      BY <2>5, FinishKeepsInv
    <2>6. CASE UNCHANGED divVars
      BY <2>6 DEF divVars, DivInv, TypeInv, LoopInvariant, DividesTruncating,
                  Magnitude, Negative, Minus, Value, Overflows, Absolute
    <2>7. QED
      BY <2>1, <2>2, <2>3, <2>4, <2>5, <2>6 DEF DivNext
  <1>3. QED
    BY <1>1, <1>2, PTL DEF DivSpec

\* The loop of __udivmodti4 keeps its invariant, for words of any width.
THEOREM LoopIsSound == DivSpec => []LoopInvariant
  <1>1. DivInv => LoopInvariant
    BY DEF DivInv
  <1>2. QED
    BY <1>1, DivisionInvariant, PTL

\* Every division that ends gives the truncated quotient and the remainder with
\* the dividend's sign, signed or not, for words of any width.
THEOREM DivisionIsTruncating == DivSpec => []DividesTruncating
  <1>1. DivInv => DividesTruncating
    BY DEF DivInv
  <1>2. QED
    BY <1>1, DivisionInvariant, PTL

-----------------------------------------------------------------------------
(* PageAlloc.                                                              *)

\* Everything granted lies below heap_end, also where a refused request has
\* left heap_end beyond the break: that is why such a request costs memory
\* but makes none be given away twice.
GrantsInv(ar) ==
  \A g \in granted : /\ ar.heap_base <= g[1]
                     /\ g[1] + PageUnits * g[2] <= ar.heap_end
                     /\ g[1] + PageUnits * g[2] <= ar.break
                     /\ g[1] % PageUnits = 0

PagesInv ==
  /\ granted \subseteq Nat \X Nat
  /\ \/ Unstarted(arena) /\ granted = {}
     \/ ArenaInv(arena) /\ GrantsInv(arena)
  /\ GrantsDisjoint

-----------------------------------------------------------------------------
\* After the first call's question to the kernel nothing granted has moved.
LEMMA GrantsStay ==
  ASSUME PagesInv
  PROVE  ArenaInv(Started(arena)) /\ GrantsInv(Started(arena))
  <1>1. ArenaInv(Started(arena))
    BY StartedIsSound DEF PagesInv
  <1>2. GrantsInv(Started(arena))
    BY DEF PagesInv, Unstarted, ArenaInv, GrantsInv, Started
  <1>3. QED
    BY <1>1, <1>2

\* A request keeps the invariant.
LEMMA RequestKeepsInv ==
  ASSUME PagesInv, NEW n \in 1 .. MaxPages, NEW willing \in BOOLEAN,
         Request(n, willing)
  PROVE  PagesInv'
  <1> DEFINE s == Started(arena)
             r == GetPages(arena, n, willing)
             new == <<r.ptr, n>>
  <1>1. n \in Nat /\ PageUnits \in Nat \ {0}
    BY RequestAssumption, PageAssumption
  <1>2. arena \in Arenas
    BY DEF PagesInv, ArenaInv, Unstarted
  <1>3. ArenaInv(s) /\ GrantsInv(s)
    BY GrantsStay
  <1>4. /\ ArenaInv(r.arena)
        /\ r.arena.heap_base = s.heap_base
        /\ r.arena.heap_end >= s.heap_end
        /\ r.arena.break >= s.break
        /\ r.ptr \in Nat
        /\ r.ptr # 0 => /\ r.ptr >= s.heap_end
                        /\ r.ptr % PageUnits = 0
                        /\ r.ptr + PageUnits * n <= r.arena.heap_end
                        /\ r.ptr + PageUnits * n <= r.arena.break
    BY <1>1, <1>2, <1>3, GetPagesIsSound
  <1>5. /\ arena' = r.arena
        /\ granted' = IF r.ptr = 0 THEN granted ELSE granted \cup {new}
    BY DEF Request
  <1> HIDE DEF s, r
  <1>6. /\ s.heap_base \in Nat /\ s.heap_end \in Nat /\ s.break \in Nat
        /\ r.arena.heap_end \in Nat /\ r.arena.break \in Nat
        /\ s.heap_base <= s.heap_end
    BY <1>3, <1>4 DEF ArenaInv, Arenas
  <1>7. granted' \subseteq Nat \X Nat
    BY <1>1, <1>4, <1>5 DEF PagesInv
  <1>8. \A g \in granted : /\ g[1] \in Nat /\ g[2] \in Nat
                           /\ PageUnits * g[2] \in Nat
    BY <1>1 DEF PagesInv
  <1>9. \A g \in granted' : /\ r.arena.heap_base <= g[1]
                            /\ g[1] + PageUnits * g[2] <= r.arena.heap_end
                            /\ g[1] + PageUnits * g[2] <= r.arena.break
                            /\ g[1] % PageUnits = 0
    <2>1. ASSUME NEW g \in granted
          PROVE  /\ r.arena.heap_base <= g[1]
                 /\ g[1] + PageUnits * g[2] <= r.arena.heap_end
                 /\ g[1] + PageUnits * g[2] <= r.arena.break
                 /\ g[1] % PageUnits = 0
      <3> DEFINE e == g[1] + PageUnits * g[2]
      <3>1. e \in Nat /\ e <= s.heap_end /\ e <= s.break
            /\ s.heap_base <= g[1] /\ g[1] % PageUnits = 0
        BY <1>3, <1>8 DEF GrantsInv
      <3> HIDE DEF e
      <3>2. e <= r.arena.heap_end /\ e <= r.arena.break
        BY <3>1, <1>4, <1>6
      <3>3. QED
        BY <3>1, <3>2, <1>4 DEF e
    <2>2. CASE r.ptr # 0
      <3>1. /\ r.arena.heap_base <= new[1]
            /\ new[1] + PageUnits * new[2] <= r.arena.heap_end
            /\ new[1] + PageUnits * new[2] <= r.arena.break
            /\ new[1] % PageUnits = 0
        BY <2>2, <1>4, <1>6
      <3>2. QED
        BY <3>1, <2>1, <2>2, <1>5
    <2>3. CASE r.ptr = 0
      BY <2>1, <2>3, <1>5
    <2>4. QED
      BY <2>2, <2>3
  <1>10. GrantsDisjoint'
    <2>1. CASE r.ptr = 0
      BY <2>1, <1>5 DEF PagesInv, GrantsDisjoint, Units
    <2>2. CASE r.ptr # 0
      <3>1. ASSUME NEW g \in granted
            PROVE  Units(g) \cap Units(new) = {}
        <4> DEFINE e == g[1] + PageUnits * g[2]
        <4>1. e \in Nat /\ e <= s.heap_end /\ g[1] \in Nat
          BY <1>3, <1>8 DEF GrantsInv
        <4>2. Units(g) = g[1] .. e - 1
          BY <1>1, <1>8 DEF Units
        <4> DEFINE f == r.ptr + PageUnits * n
        <4>3. f \in Nat
          BY <1>1, <1>4
        <4>4. Units(new) = r.ptr .. f - 1
          BY <1>1, <1>4 DEF Units
        <4> HIDE DEF e, f, new
        <4>5. r.ptr >= e
          BY <4>1, <1>4, <1>6, <2>2
        <4>6. QED
          BY <4>1, <4>2, <4>3, <4>4, <4>5, <1>4
      <3>2. granted' = granted \cup {new}
        BY <2>2, <1>5
      <3> HIDE DEF new
      <3>3. \A g, h \in granted : g # h => Units(g) \cap Units(h) = {}
        BY DEF PagesInv, GrantsDisjoint
      <3>4. \A g, h \in granted' : g # h => Units(g) \cap Units(h) = {}
        BY <3>1, <3>2, <3>3
      <3>5. QED
        BY <3>4 DEF GrantsDisjoint, Units
    <2>3. QED
      BY <2>1, <2>2
  <1>11. ArenaInv(arena)' /\ GrantsInv(arena)'
    BY <1>4, <1>5, <1>9 DEF ArenaInv, GrantsInv, Arenas
  <1>12. QED
    BY <1>7, <1>10, <1>11 DEF PagesInv

-----------------------------------------------------------------------------
\* PagesInv holds of every state that requests can lead to.
THEOREM ArenaInvariant == PagesSpec => []PagesInv
  <1>1. PagesInit => PagesInv
    BY PageAssumption
    DEF PagesInit, FreshArenas, PagesInv, Arenas, GrantsDisjoint, Unstarted
  <1>2. PagesInv /\ [PagesNext]_pageVars => PagesInv'
    <2> SUFFICES ASSUME PagesInv, [PagesNext]_pageVars PROVE PagesInv'
      OBVIOUS
    <2>1. CASE PagesNext
      BY <2>1, RequestKeepsInv DEF PagesNext
    <2>2. CASE UNCHANGED pageVars
      BY <2>2 DEF pageVars, PagesInv, ArenaInv, GrantsInv, GrantsDisjoint, Units, Arenas, Unstarted
    <2>3. QED
      BY <2>1, <2>2
  <1>3. QED
    BY <1>1, <1>2, PTL DEF PagesSpec

\* __page_alloc never gives one address to two of its callers' requests, for
\* any page size, first break and sequence of granted and refused requests.
THEOREM GrantsAreDisjoint == PagesSpec => []GrantsDisjoint
  <1>1. PagesInv => GrantsDisjoint
    BY DEF PagesInv
  <1>2. QED
    BY <1>1, ArenaInvariant, PTL

\* What __page_alloc returns starts on a page and is mapped throughout.
THEOREM GrantsAreUsable == PagesSpec => []GrantsUsable
  <1>1. ASSUME PagesInv, NEW g \in granted
        PROVE  /\ g[1] % PageUnits = 0
               /\ Units(g) \subseteq arena.heap_base .. arena.break - 1
    <2>1. ArenaInv(arena) /\ GrantsInv(arena)
      BY <1>1 DEF PagesInv
    <2>2. g[1] \in Nat /\ g[2] \in Nat
      BY <1>1 DEF PagesInv
    <2> DEFINE e == g[1] + PageUnits * g[2]
    <2>3. e \in Nat /\ e <= arena.break /\ arena.heap_base <= g[1]
          /\ g[1] % PageUnits = 0
      BY <2>1, <2>2, PageAssumption DEF GrantsInv
    <2>4. Units(g) = g[1] .. e - 1
      BY <2>2, PageAssumption DEF Units
    <2>5. arena.heap_base \in Nat /\ arena.break \in Nat
      BY <2>1 DEF ArenaInv, Arenas
    <2> HIDE DEF e
    <2>6. QED
      BY <2>2, <2>3, <2>4, <2>5
  <1>2. PagesInv => GrantsUsable
    BY <1>1 DEF GrantsUsable
  <1>3. QED
    BY <1>2, ArenaInvariant, PTL

-----------------------------------------------------------------------------
(* RustPages.                                                              *)

Loans == [ptr : Nat, n : Nat \ {0}]
Offset == AlignOffset(bufAt)

RustTypeOK ==
  /\ syscalls \in {"prealloc", "mmap"}
  /\ bufAt \in Nat \ {0} /\ heap \in Nat
  /\ \A t \in Borrowers :
       \/ borrow[t] = Resting
       \/ borrow[t] \in [step : {"exchange", "add"}, n : Nat \ {0}]
  /\ DOMAIN borrow = Borrowers
  /\ lent \in Seq(Loans)
  /\ mapped \subseteq [ptr : Nat, size : Nat]

\* The first call has moved heap to a page, or it was on one.
OnPage == heap # 0 \/ Offset = 0

\* heap is where the last loan ends; it leaves 0 once, before the first one.
BufferInv ==
  /\ heap = 0 => lent = <<>>
  /\ \A t \in Borrowers : borrow[t].step = "add" => OnPage
  /\ OnPage => heap = Demand /\ (bufAt + heap) % PageUnits = 0
  /\ \A i \in 1 .. Len(lent) :
       /\ bufAt <= lent[i].ptr
       /\ lent[i].ptr + PageUnits * lent[i].n <= bufAt + heap

\* Every loan has a mapping, and no other loan is in it.
MappingInv ==
  /\ \A t \in Borrowers : borrow[t].step # "add"
  /\ \A i \in 1 .. Len(lent) : \E m \in mapped :
       /\ LentUnits(lent[i]) \cup {lent[i].ptr - 1} \subseteq MappedUnits(m)
       /\ \A j \in 1 .. Len(lent) \ {i} : LentUnits(lent[j]) \cap MappedUnits(m) = {}

\* No two loans share memory, and each begins on a page.
ApartInv ==
  \A i, j \in 1 .. Len(lent) :
    /\ i # j => LentUnits(lent[i]) \cap LentUnits(lent[j]) = {}
    /\ lent[i].ptr % PageUnits = 0

RustInv ==
  /\ RustTypeOK /\ ApartInv
  /\ syscalls = "prealloc" => BufferInv
  /\ syscalls = "mmap" => MappingInv

-----------------------------------------------------------------------------
(* Reach.                                                                  *)

\* Every set of numbers has a least one.
LEMMA LeastNumber ==
  ASSUME NEW T, T \subseteq Nat, T # {}
  PROVE  \E m \in T : \A k \in T : m <= k
  <1>1. PICK m \in T : \A k \in T : <<k, m>> \notin OpToRel(<, Nat)
    BY NatLessThanWellFounded, WFMin
  <1>2. \A k \in T : ~(k < m)
    BY <1>1 DEF OpToRel
  <1>3. QED
    BY <1>2

\* Reach goes on from call to call.
LEMMA ReachSteps ==
  ASSUME NEW first, NEW g, Len(g) \in Nat
  PROVE  /\ Reach(first, g)[0] = first
         /\ \A n \in 1 .. Len(g) :
              Reach(first, g)[n] = Reach(first, g)[n - 1] + PageUnits * g[n].n
  <1> DEFINE Next1(f, n) == IF n = 0 THEN first ELSE f[n - 1] + PageUnits * g[n].n
             Upto(f, m) == f = [n \in 0 .. m |-> Next1(f, n)]
             Exists(m) == \E f : Upto(f, m)
             Bad == {m \in 0 .. Len(g) : ~Exists(m)}
  <1>1. Bad = {}
    <2> SUFFICES ASSUME Bad # {} PROVE FALSE
      OBVIOUS
    <2>1. PICK m \in Bad : \A k \in Bad : m <= k
      <3>1. Bad \subseteq Nat
        OBVIOUS
      <3> HIDE DEF Bad
      <3>2. QED
        BY <3>1, LeastNumber
    <2>2. CASE m = 0
      <3> DEFINE f == [n \in 0 .. 0 |-> first]
      <3>1. Upto(f, 0)
        OBVIOUS
      <3>2. QED
        BY <3>1, <2>1, <2>2
    <2>3. CASE m # 0
      <3>1. m - 1 \in 0 .. Len(g) /\ m - 1 \notin Bad
        <4> HIDE DEF Exists
        <4>1. QED
          BY <2>1, <2>3
      <3>2. PICK f : Upto(f, m - 1)
        <4>1. Exists(m - 1)
          <5> HIDE DEF Exists
          <5>1. QED
            BY <3>1
        <4>2. QED
          BY <4>1
      <3> DEFINE h == [n \in 0 .. m |-> IF n = m THEN Next1(f, m) ELSE f[n]]
      <3>3. ASSUME NEW n \in 0 .. m PROVE h[n] = Next1(h, n)
        <4>1. n # 0 => h[n - 1] = f[n - 1]
          OBVIOUS
        <4>2. CASE n = m
          BY <4>1, <4>2
        <4>3. CASE n # m
          <5>1. n \in 0 .. m - 1
            BY <4>3
          <5>2. f[n] = Next1(f, n)
            BY <3>2, <5>1
          <5>3. QED
            BY <4>1, <4>3, <5>2
        <4>4. QED
          BY <4>2, <4>3
      <3>4. Upto(h, m)
        <4>1. h = [n \in 0 .. m |-> h[n]]
          OBVIOUS
        <4> HIDE DEF h, Next1
        <4>2. QED
          BY <4>1, <3>3
      <3>5. QED
        BY <3>4, <2>1
    <2>4. QED
      BY <2>2, <2>3
  <1>2. \E f : Upto(f, Len(g))
    <2>1. Exists(Len(g))
      <3> HIDE DEF Exists
      <3>1. QED
        BY <1>1
    <2>2. QED
      BY <2>1
  <1>3. Upto(Reach(first, g), Len(g))
    BY <1>2 DEF Reach
  <1> HIDE DEF Upto
  <1>4. \A n \in 0 .. Len(g) : Reach(first, g)[n] = Next1(Reach(first, g), n)
    BY <1>3 DEF Upto
  <1>5. QED
    BY <1>4

\* Another call reaches as far as its pages beyond the ones before.
LEMMA ReachAppend ==
  ASSUME NEW first, NEW g \in Seq(Loans), NEW x \in Loans
  PROVE  Reach(first, Append(g, x))[Len(g) + 1] =
           Reach(first, g)[Len(g)] + PageUnits * x.n
  <1> DEFINE h == Append(g, x)
             old == Reach(first, g)
             new == Reach(first, h)
             Bad == {m \in 0 .. Len(g) : new[m] # old[m]}
  <1>1. /\ Len(g) \in Nat /\ Len(h) = Len(g) + 1 /\ Len(h) \in Nat
        /\ h[Len(g) + 1] = x /\ \A i \in 1 .. Len(g) : h[i] = g[i]
    BY LenProperties, AppendProperties
  <1> HIDE DEF h
  <1>2. /\ old[0] = first
        /\ \A n \in 1 .. Len(g) : old[n] = old[n - 1] + PageUnits * g[n].n
    BY <1>1, ReachSteps
  <1>3. /\ new[0] = first
        /\ \A n \in 1 .. Len(h) : new[n] = new[n - 1] + PageUnits * h[n].n
    BY <1>1, ReachSteps
  <1> HIDE DEF old, new
  <1>4. Bad = {}
    <2> SUFFICES ASSUME Bad # {} PROVE FALSE
      OBVIOUS
    <2>1. PICK m \in Bad : \A k \in Bad : m <= k
      <3>1. Bad \subseteq Nat
        BY <1>1
      <3> HIDE DEF Bad
      <3>2. QED
        BY <3>1, LeastNumber
    <2>2. m # 0
      BY <1>2, <1>3
    <2>3. m \in 1 .. Len(g) /\ m \in 1 .. Len(h) /\ m - 1 \in 0 .. Len(g)
      BY <1>1, <2>1, <2>2
    <2>4. new[m - 1] = old[m - 1]
      BY <1>1, <2>1, <2>3
    <2>5. new[m] = old[m]
      BY <1>1, <1>2, <1>3, <2>3, <2>4
    <2>6. QED
      BY <2>1, <2>5
  <1>5. new[Len(g)] = old[Len(g)]
    BY <1>1, <1>4
  <1>6. Len(g) + 1 \in 1 .. Len(h) /\ Len(g) + 1 - 1 = Len(g)
    BY <1>1
  <1>7. new[Len(g) + 1] = old[Len(g)] + PageUnits * x.n
    BY <1>1, <1>3, <1>5, <1>6
  <1>8. QED
    BY <1>7 DEF h, old, new

-----------------------------------------------------------------------------
(* Steps.                                                                  *)

\* The offset of a page border is less than a page.
LEMMA OffsetBounds ==
  ASSUME NEW x \in Nat
  PROVE  /\ AlignOffset(x) \in Nat /\ AlignOffset(x) < PageUnits
         /\ (x + AlignOffset(x)) % PageUnits = 0
  <1> DEFINE y == AlignUp(x, PageUnits)
  <1>1. PageUnits \in Nat \ {0} /\ y \in Nat /\ y >= x /\ y < x + PageUnits
        /\ y % PageUnits = 0
    BY PageAssumption, AlignUpBounds
  <1>2. AlignOffset(x) = y - x
    BY DEF AlignOffset
  <1> HIDE DEF y
  <1>3. x + AlignOffset(x) = y
    BY <1>1, <1>2
  <1>4. QED
    BY <1>1, <1>2, <1>3

\* Whole pages further is a border again.
LEMMA PagesFurther ==
  ASSUME NEW x \in Nat, NEW n \in Nat, x % PageUnits = 0
  PROVE  (x + PageUnits * n) % PageUnits = 0
  <1>1. PageUnits \in Nat \ {0}
    BY PageAssumption
  <1> DEFINE q == x \div PageUnits
  <1>2. q \in Nat /\ x = PageUnits * q
    BY <1>1
  <1> HIDE DEF q
  <1>3. x + PageUnits * n = PageUnits * (q + n)
    BY <1>1, <1>2
  <1>4. (PageUnits * (q + n)) % PageUnits = 0
    <2> DEFINE k == q + n
    <2>1. k \in Nat
      BY <1>2
    <2> HIDE DEF k
    <2>2. (PageUnits * k) % PageUnits = 0
      BY <2>1, <1>1
    <2>3. QED
      BY <2>2 DEF k
  <1>5. QED
    BY <1>3, <1>4

\* A loan that begins where others end shares nothing with them, nor does one
\* that lies in memory of its own.
LEMMA AppendApart ==
  ASSUME RustTypeOK, ApartInv, NEW g \in Loans, lent' = Append(lent, g),
         g.ptr % PageUnits = 0,
         \A i \in 1 .. Len(lent) : LentUnits(lent[i]) \cap LentUnits(g) = {}
  PROVE  ApartInv'
  <1>1. /\ Len(lent) \in Nat /\ Len(lent') = Len(lent) + 1
        /\ lent'[Len(lent) + 1] = g
        /\ \A i \in 1 .. Len(lent) : lent'[i] = lent[i]
    BY LenProperties, AppendProperties DEF RustTypeOK
  <1>2. \A i \in 1 .. Len(lent') : i \in 1 .. Len(lent) \/ i = Len(lent) + 1
    BY <1>1
  <1>3. \A i \in 1 .. Len(lent') : lent'[i].ptr % PageUnits = 0
    BY <1>1, <1>2 DEF ApartInv
  <1>4. ASSUME NEW i \in 1 .. Len(lent'), NEW j \in 1 .. Len(lent'), i # j
        PROVE  LentUnits(lent'[i]) \cap LentUnits(lent'[j]) = {}
    <2>1. CASE i \in 1 .. Len(lent) /\ j \in 1 .. Len(lent)
      BY <2>1, <1>1, <1>4 DEF ApartInv
    <2>2. CASE i \in 1 .. Len(lent) /\ j = Len(lent) + 1
      <3>1. LentUnits(lent[i]) \cap LentUnits(g) = {}
        BY <2>2
      <3>2. QED
        BY <3>1, <2>2, <1>1
    <2>3. CASE i = Len(lent) + 1 /\ j \in 1 .. Len(lent)
      <3>1. LentUnits(lent[j]) \cap LentUnits(g) = {}
        BY <2>3
      <3>2. QED
        BY <3>1, <2>3, <1>1
    <2>4. QED
      BY <2>1, <2>2, <2>3, <1>2, <1>4
  <1>5. QED
    BY <1>3, <1>4 DEF ApartInv, LentUnits

LEMMA BorrowKeeps ==
  ASSUME RustInv, NEW t \in Borrowers, Borrow(t)
  PROVE  RustInv'
  <1>1. PICK n \in 1 .. MaxBorrowed :
          borrow' = [borrow EXCEPT ![t] = [step |-> "exchange", n |-> n]]
    BY DEF Borrow
  <1>2. UNCHANGED <<syscalls, bufAt, heap, lent, mapped>>
    BY DEF Borrow
  <1>3. n \in Nat \ {0}
    BY RustPagesAssumption
  <1>4. \A u \in Borrowers : borrow'[u] = IF u = t THEN [step |-> "exchange", n |-> n]
                                                  ELSE borrow[u]
    BY <1>1 DEF RustInv, RustTypeOK
  <1>5. RustTypeOK'
    BY <1>1, <1>2, <1>3, <1>4 DEF RustInv, RustTypeOK
  <1>6. ApartInv'
    BY <1>2 DEF RustInv, ApartInv, LentUnits
  <1>7. \A u \in Borrowers : borrow'[u].step = "add" => borrow[u].step = "add"
    BY <1>4
  <1>8. BufferInv => BufferInv'
    BY <1>2, <1>7 DEF BufferInv, OnPage, Offset, Demand
  <1>9. MappingInv => MappingInv'
    BY <1>2, <1>7 DEF MappingInv, LentUnits, MappedUnits
  <1>10. QED
    BY <1>2, <1>5, <1>6, <1>8, <1>9 DEF RustInv

LEMMA SkipKeeps ==
  ASSUME RustInv, NEW t \in Borrowers, SkipToPage(t)
  PROVE  RustInv'
  <1>1. /\ syscalls = "prealloc" /\ borrow[t].step = "exchange"
        /\ heap' = IF heap = 0 THEN Offset ELSE heap
        /\ borrow' = [borrow EXCEPT ![t].step = "add"]
        /\ UNCHANGED <<syscalls, bufAt, lent, mapped>>
    BY DEF SkipToPage, Offset
  <1>2. /\ bufAt \in Nat /\ heap \in Nat /\ Offset \in Nat
        /\ (bufAt + Offset) % PageUnits = 0
    BY OffsetBounds DEF RustInv, RustTypeOK, Offset
  <1>3. borrow[t] \in [step : {"exchange", "add"}, n : Nat \ {0}]
    BY <1>1 DEF RustInv, RustTypeOK, Resting
  <1>4. /\ borrow'[t] \in [step : {"exchange", "add"}, n : Nat \ {0}]
        /\ DOMAIN borrow' = Borrowers
        /\ \A u \in Borrowers \ {t} : borrow'[u] = borrow[u]
    BY <1>1, <1>3 DEF RustInv, RustTypeOK
  <1>5. RustTypeOK'
    BY <1>1, <1>2, <1>4 DEF RustInv, RustTypeOK
  <1>6. ApartInv'
    BY <1>1 DEF RustInv, ApartInv, LentUnits
  <1>7. Offset' = Offset
    BY <1>1 DEF Offset
  <1>8. OnPage'
    BY <1>1, <1>7 DEF OnPage
  <1>9. /\ heap = 0 => lent = <<>>
        /\ OnPage => heap = Demand /\ (bufAt + heap) % PageUnits = 0
        /\ \A i \in 1 .. Len(lent) :
             /\ bufAt <= lent[i].ptr
             /\ lent[i].ptr + PageUnits * lent[i].n <= bufAt + heap
    BY <1>1 DEF RustInv, BufferInv
  <1>10. Demand' = Demand
    BY <1>1 DEF Demand
  <1>11. CASE heap = 0
    <2>1. lent = <<>> /\ heap' = Offset
      BY <1>1, <1>9, <1>11
    <2>2. Len(lent) = 0
      BY <2>1, EmptySeq
    <2>3. Demand = Offset
      BY <2>2, ReachSteps DEF Demand, Offset
    <2>4. \A i \in 1 .. Len(lent') : FALSE
      BY <2>2, <1>1
    <2>5. heap' = Demand' /\ (bufAt' + heap') % PageUnits = 0
      BY <2>1, <2>3, <1>1, <1>2, <1>10
    <2>6. heap' = 0 => lent' = <<>>
      BY <2>1, <1>1
    <2>7. BufferInv'
      BY <2>4, <2>5, <2>6, <1>8 DEF BufferInv
    <2>8. QED
      BY <2>7, <1>1, <1>5, <1>6 DEF RustInv
  <1>12. CASE heap # 0
    <2>1. OnPage /\ heap' = heap
      BY <1>1, <1>12 DEF OnPage
    <2>2. BufferInv'
      BY <2>1, <1>1, <1>8, <1>9, <1>10, <1>12 DEF BufferInv
    <2>3. QED
      BY <2>2, <1>1, <1>5, <1>6 DEF RustInv
  <1>13. QED
    BY <1>11, <1>12

LEMMA AddKeeps ==
  ASSUME RustInv, NEW t \in Borrowers, FetchAdd(t)
  PROVE  RustInv'
  <1> DEFINE n == borrow[t].n
             d == PageUnits * n
             g == [ptr |-> bufAt + heap, n |-> n]
  <1>1. /\ borrow[t].step = "add"
        /\ heap' = heap + d
        /\ lent' = Append(lent, g)
        /\ borrow' = [borrow EXCEPT ![t] = Resting]
        /\ UNCHANGED <<syscalls, bufAt, mapped>>
    BY DEF FetchAdd
  <1>2. syscalls = "prealloc" /\ BufferInv
    BY <1>1 DEF RustInv, RustTypeOK, MappingInv
  <1>3. n \in Nat \ {0}
    BY <1>1 DEF RustInv, RustTypeOK, Resting
  <1>4. /\ PageUnits \in Nat \ {0} /\ bufAt \in Nat \ {0} /\ heap \in Nat
        /\ lent \in Seq(Loans) /\ Len(lent) \in Nat
    BY PageAssumption, LenProperties DEF RustInv, RustTypeOK
  <1> HIDE DEF n
  <1>5. d \in Nat \ {0}
    BY <1>3, <1>4
  <1>6. g \in Loans /\ g.ptr = bufAt + heap /\ g.n = n
    BY <1>3, <1>4 DEF Loans
  <1> HIDE DEF g
  <1>7. /\ OnPage /\ heap = Demand /\ (bufAt + heap) % PageUnits = 0
    BY <1>1, <1>2 DEF BufferInv
  <1>8. /\ lent' \in Seq(Loans) /\ lent' # <<>>
        /\ Len(lent') = Len(lent) + 1 /\ lent'[Len(lent) + 1] = g
        /\ \A i \in 1 .. Len(lent) : lent'[i] = lent[i]
    BY <1>1, <1>4, <1>6, AppendProperties
  <1>9. heap' \in Nat \ {0}
    BY <1>1, <1>4, <1>5
  <1>10. RustTypeOK'
    <2>1. \A u \in Borrowers : borrow'[u] = IF u = t THEN Resting ELSE borrow[u]
      BY <1>1 DEF RustInv, RustTypeOK
    <2>2. DOMAIN borrow' = Borrowers
      BY <1>1 DEF RustInv, RustTypeOK
    <2>3. QED
      BY <2>1, <2>2, <1>1, <1>8, <1>9 DEF RustInv, RustTypeOK
  <1>11. \A i \in 1 .. Len(lent) :
           /\ lent[i].ptr \in Nat /\ PageUnits * lent[i].n \in Nat
           /\ bufAt <= lent[i].ptr
           /\ lent[i].ptr + PageUnits * lent[i].n <= bufAt + heap
    <2> SUFFICES ASSUME NEW i \in 1 .. Len(lent)
                 PROVE  /\ lent[i].ptr \in Nat /\ PageUnits * lent[i].n \in Nat
                        /\ bufAt <= lent[i].ptr
                        /\ lent[i].ptr + PageUnits * lent[i].n <= bufAt + heap
      OBVIOUS
    <2>1. lent[i].ptr \in Nat /\ lent[i].n \in Nat
      <3>1. lent[i] \in Loans
        BY <1>4, ElementOfSeq
      <3>2. QED
        BY <3>1 DEF Loans
    <2>2. PageUnits * lent[i].n \in Nat
      BY <2>1, <1>4
    <2>3. QED
      BY <2>1, <2>2, <1>2 DEF BufferInv
  <1>12. ASSUME NEW i \in 1 .. Len(lent)
         PROVE  LentUnits(lent[i]) \cap LentUnits(g) = {}
    <2> DEFINE e == lent[i].ptr + PageUnits * lent[i].n
               p == lent[i].ptr
               q == g.ptr
               f == g.ptr + PageUnits * g.n
    <2>1. p \in Nat /\ e \in Nat /\ e <= bufAt + heap
      BY <1>11
    <2>2. q = bufAt + heap /\ f = bufAt + heap + d
      BY <1>6
    <2>3. LentUnits(lent[i]) = p .. e - 1 /\ LentUnits(g) = q .. f - 1
      <3>1. lent[i] \in Loans
        BY <1>4, ElementOfSeq
      <3>2. \A x \in Loans :
              LentUnits(x) = x.ptr .. (x.ptr + PageUnits * x.n) - 1
        BY <1>4 DEF LentUnits, Loans
      <3>3. QED
        BY <3>1, <3>2, <1>6
    <2> HIDE DEF p, e, q, f
    <2>4. QED
      BY <2>1, <2>2, <2>3, <1>4, <1>5
  <1>13. ApartInv'
    BY <1>1, <1>6, <1>7, <1>12, AppendApart DEF RustInv
  <1>14. Demand' = heap'
    <2>1. Demand' = Reach(Offset, Append(lent, g))[Len(lent) + 1]
      BY <1>1, <1>8 DEF Demand, Offset
    <2>2. Demand = Reach(Offset, lent)[Len(lent)]
      BY DEF Demand, Offset
    <2>3. Demand' = Demand + PageUnits * g.n
      BY <2>1, <2>2, <1>4, <1>6, ReachAppend
    <2>4. QED
      BY <2>3, <1>1, <1>6, <1>7
  <1>15. (bufAt' + heap') % PageUnits = 0
    <2> DEFINE x == bufAt + heap
    <2>1. x \in Nat /\ x % PageUnits = 0 /\ n \in Nat
      BY <1>3, <1>4, <1>7
    <2> HIDE DEF x
    <2>2. (x + PageUnits * n) % PageUnits = 0
      BY <2>1, PagesFurther
    <2>3. bufAt' + heap' = x + PageUnits * n
      BY <1>1, <1>4, <1>5 DEF x
    <2>4. QED
      BY <2>2, <2>3
  <1>16. ASSUME NEW i \in 1 .. Len(lent')
         PROVE  /\ bufAt' <= lent'[i].ptr
                /\ lent'[i].ptr + PageUnits * lent'[i].n <= bufAt' + heap'
    <2>1. CASE i \in 1 .. Len(lent)
      <3> DEFINE e == lent[i].ptr + PageUnits * lent[i].n
      <3>1. e \in Nat /\ e <= bufAt + heap /\ bufAt <= lent[i].ptr
        BY <2>1, <1>11
      <3> HIDE DEF e
      <3>2. e <= bufAt + heap'
        BY <3>1, <1>1, <1>4, <1>5
      <3>3. QED
        BY <3>1, <3>2, <2>1, <1>1, <1>8 DEF e
    <2>2. CASE i = Len(lent) + 1
      <3>1. /\ lent'[i].ptr = bufAt + heap
            /\ PageUnits * lent'[i].n = d
        BY <2>2, <1>6, <1>8
      <3>2. QED
        BY <3>1, <1>1, <1>4, <1>5
    <2>3. QED
      BY <2>1, <2>2, <1>4, <1>8
  <1>17. OnPage'
    BY <1>9 DEF OnPage
  <1>18. BufferInv'
    BY <1>9, <1>14, <1>15, <1>16, <1>17 DEF BufferInv
  <1>19. QED
    BY <1>1, <1>2, <1>10, <1>13, <1>18 DEF RustInv

LEMMA MapKeeps ==
  ASSUME RustInv, NEW t \in Borrowers, Map(t)
  PROVE  RustInv'
  <1> DEFINE n == borrow[t].n
             d == PageUnits * n
             offset(p) == IF AlignOffset(p) = 0 THEN PageUnits ELSE AlignOffset(p)
             m(p) == [ptr |-> p, size |-> d + PageUnits]
             g(p) == [ptr |-> p + offset(p), n |-> n]
  <1>1. /\ syscalls = "mmap" /\ borrow[t].step = "exchange"
        /\ borrow' = [borrow EXCEPT ![t] = Resting]
        /\ UNCHANGED <<syscalls, bufAt, heap>>
    BY DEF Map
  <1>2. \/ UNCHANGED <<lent, mapped>>
        \/ \E p \in Mappings :
             /\ \A o \in mapped : MappedUnits(o) \cap MappedUnits(m(p)) = {}
             /\ mapped' = mapped \cup {m(p)}
             /\ lent' = Append(lent, g(p))
    BY DEF Map
  <1>3. n \in Nat \ {0}
    BY <1>1 DEF RustInv, RustTypeOK, Resting
  <1>4. /\ PageUnits \in Nat \ {0}
        /\ lent \in Seq(Loans) /\ Len(lent) \in Nat
        /\ MappingInv /\ ApartInv
    BY <1>1, PageAssumption, LenProperties DEF RustInv, RustTypeOK
  <1> HIDE DEF n
  <1>5. d \in Nat \ {0}
    BY <1>3, <1>4
  <1>6. \A u \in Borrowers : borrow'[u] = IF u = t THEN Resting ELSE borrow[u]
    BY <1>1 DEF RustInv, RustTypeOK
  <1>7. DOMAIN borrow' = Borrowers
    BY <1>1 DEF RustInv, RustTypeOK
  <1>8. \A u \in Borrowers : borrow'[u].step # "add"
    BY <1>4, <1>6 DEF MappingInv, Resting
  <1>9. CASE UNCHANGED <<lent, mapped>>
    <2>1. RustTypeOK'
      BY <1>1, <1>6, <1>7, <1>9 DEF RustInv, RustTypeOK
    <2>2. ApartInv'
      BY <1>4, <1>9 DEF ApartInv, LentUnits
    <2>3. MappingInv'
      BY <1>4, <1>8, <1>9 DEF MappingInv, LentUnits, MappedUnits
    <2>4. QED
      BY <2>1, <2>2, <2>3, <1>1 DEF RustInv
  <1>10. ASSUME NEW p \in Mappings,
                \A o \in mapped : MappedUnits(o) \cap MappedUnits(m(p)) = {},
                mapped' = mapped \cup {m(p)},
                lent' = Append(lent, g(p))
         PROVE  RustInv'
    <2> DEFINE gap == offset(p)
               new == g(p)
               map == m(p)
    <2>1. p \in Nat \ {0}
      BY RustPagesAssumption
    <2>2. gap \in 1 .. PageUnits /\ (p + gap) % PageUnits = 0
      <3> DEFINE off == AlignOffset(p)
      <3>1. off \in Nat /\ off < PageUnits /\ (p + off) % PageUnits = 0
        BY <2>1, OffsetBounds
      <3>2. gap = IF off = 0 THEN PageUnits ELSE off
        OBVIOUS
      <3> HIDE DEF off, gap
      <3>3. CASE off # 0
        BY <3>1, <3>2, <3>3, <1>4
      <3>4. CASE off = 0
        <4>1. p % PageUnits = 0
          BY <3>1, <3>4, <2>1
        <4>2. (p + PageUnits * 1) % PageUnits = 0
          BY <4>1, <2>1, PagesFurther
        <4>3. QED
          BY <4>2, <3>2, <3>4, <1>4
      <3>5. QED
        BY <3>3, <3>4
    <2>3. /\ new = [ptr |-> p + gap, n |-> n]
          /\ map = [ptr |-> p, size |-> d + PageUnits]
          /\ lent' = Append(lent, new) /\ mapped' = mapped \cup {map}
          /\ \A o \in mapped : MappedUnits(o) \cap MappedUnits(map) = {}
      BY <1>10
    <2> HIDE DEF gap, new, map
    <2>4. /\ new \in Loans /\ new.ptr = p + gap /\ new.n = n
          /\ map \in [ptr : Nat, size : Nat]
      BY <2>1, <2>2, <2>3, <1>3, <1>4, <1>5 DEF Loans
    <2>5. LentUnits(new) \cup {new.ptr - 1} \subseteq MappedUnits(map)
      <3>1. LentUnits(new) = p + gap .. p + gap + d - 1
        BY <2>4 DEF LentUnits
      <3>2. MappedUnits(map) = p .. p + (d + PageUnits) - 1
        BY <2>3 DEF MappedUnits
      <3> HIDE DEF d
      <3>3. QED
        BY <3>1, <3>2, <2>1, <2>2, <2>4, <1>4, <1>5
    <2>6. /\ lent' \in Seq(Loans)
          /\ Len(lent') = Len(lent) + 1 /\ lent'[Len(lent) + 1] = new
          /\ \A i \in 1 .. Len(lent) : lent'[i] = lent[i]
      BY <2>3, <2>4, <1>4, AppendProperties
    <2>7. RustTypeOK'
      BY <2>3, <2>4, <2>6, <1>1, <1>6, <1>7 DEF RustInv, RustTypeOK
    <2>8. \A i \in 1 .. Len(lent) : LentUnits(lent[i]) \cap MappedUnits(map) = {}
      BY <2>3, <1>4 DEF MappingInv
    <2>9. \A i \in 1 .. Len(lent) : LentUnits(lent[i]) \cap LentUnits(new) = {}
      BY <2>5, <2>8
    <2>10. ApartInv'
      BY <2>2, <2>3, <2>4, <2>9, AppendApart DEF RustInv
    <2>11. \A i \in 1 .. Len(lent') : i \in 1 .. Len(lent) \/ i = Len(lent) + 1
      BY <2>6, <1>4
    <2>12. ASSUME NEW i \in 1 .. Len(lent')
           PROVE  \E o \in mapped' :
                    /\ LentUnits(lent'[i]) \cup {lent'[i].ptr - 1} \subseteq MappedUnits(o)
                    /\ \A j \in 1 .. Len(lent') \ {i} :
                         LentUnits(lent'[j]) \cap MappedUnits(o) = {}
      <3>1. CASE i \in 1 .. Len(lent)
        <4>1. PICK o \in mapped :
                /\ LentUnits(lent[i]) \cup {lent[i].ptr - 1} \subseteq MappedUnits(o)
                /\ \A j \in 1 .. Len(lent) \ {i} : LentUnits(lent[j]) \cap MappedUnits(o) = {}
          BY <3>1, <1>4 DEF MappingInv
        <4>2. LentUnits(new) \cap MappedUnits(o) = {}
          BY <2>3, <2>5
        <4>3. \A j \in 1 .. Len(lent') \ {i} : LentUnits(lent'[j]) \cap MappedUnits(o) = {}
          BY <4>1, <4>2, <2>6, <2>11
        <4>4. lent'[i] = lent[i] /\ o \in mapped'
          BY <3>1, <2>3, <2>6
        <4>5. QED
          BY <4>1, <4>3, <4>4
      <3>2. CASE i = Len(lent) + 1
        <4>1. \A j \in 1 .. Len(lent') \ {i} : j \in 1 .. Len(lent)
          BY <3>2, <2>11
        <4>2. \A j \in 1 .. Len(lent') \ {i} : LentUnits(lent'[j]) \cap MappedUnits(map) = {}
          BY <4>1, <2>6, <2>8
        <4>3. lent'[i] = new /\ map \in mapped'
          BY <3>2, <2>3, <2>6
        <4>4. QED
          BY <4>2, <4>3, <2>5
      <3>3. QED
        BY <3>1, <3>2, <2>11
    <2>13. MappingInv'
      BY <2>12, <1>8 DEF MappingInv, LentUnits, MappedUnits
    <2>14. QED
      BY <2>7, <2>10, <2>13, <1>1 DEF RustInv
  <1>11. QED
    BY <1>2, <1>9, <1>10

-----------------------------------------------------------------------------
(* Theorems.                                                               *)

\* RustInv holds of every state of the page allocators of the Rust bindings.
THEOREM RustPagesInvariant == RustPagesSpec => []RustInv
  <1>1. RustPagesInit => RustInv
    <2> SUFFICES ASSUME RustPagesInit PROVE RustInv
      OBVIOUS
    <2>1. /\ syscalls \in {"prealloc", "mmap"} /\ bufAt \in Nat \ {0} /\ heap = 0
          /\ borrow = [t \in Borrowers |-> Resting]
          /\ lent = <<>> /\ mapped = {}
      BY RustPagesAssumption DEF RustPagesInit
    <2>2. lent \in Seq(Loans) /\ Len(lent) = 0
      BY <2>1, EmptySeq
    <2>3. RustTypeOK
      BY <2>1, <2>2 DEF RustTypeOK
    <2>4. \A t \in Borrowers : borrow[t].step # "add"
      BY <2>1 DEF Resting
    <2>5. ApartInv /\ MappingInv
      BY <2>2, <2>4 DEF ApartInv, MappingInv
    <2>6. Demand = Offset
      BY <2>2, ReachSteps DEF Demand, Offset
    <2>7. (bufAt + Offset) % PageUnits = 0
      BY <2>1, OffsetBounds DEF Offset
    <2>8. BufferInv
      BY <2>1, <2>2, <2>4, <2>6, <2>7 DEF BufferInv, OnPage
    <2>9. QED
      BY <2>3, <2>5, <2>8 DEF RustInv
  <1>2. RustInv /\ [RustPagesNext]_rustPageVars => RustInv'
    <2> SUFFICES ASSUME RustInv, [RustPagesNext]_rustPageVars PROVE RustInv'
      OBVIOUS
    <2>1. CASE UNCHANGED rustPageVars
      <3>1. UNCHANGED <<syscalls, bufAt, heap, borrow, lent, mapped>>
        BY <2>1 DEF rustPageVars
      <3>2. RustTypeOK' /\ ApartInv'
        BY <3>1 DEF RustInv, RustTypeOK, ApartInv, LentUnits
      <3>3. BufferInv' <=> BufferInv
        BY <3>1 DEF BufferInv, OnPage, Offset, Demand
      <3>4. MappingInv' <=> MappingInv
        BY <3>1 DEF MappingInv, LentUnits, MappedUnits
      <3>5. QED
        BY <3>1, <3>2, <3>3, <3>4 DEF RustInv
    <2>2. ASSUME NEW t \in Borrowers,
                 Borrow(t) \/ SkipToPage(t) \/ FetchAdd(t) \/ Map(t)
          PROVE  RustInv'
      BY <2>2, BorrowKeeps, SkipKeeps, AddKeeps, MapKeeps
    <2>3. QED
      BY <2>1, <2>2 DEF RustPagesNext
  <1>3. QED
    BY <1>1, <1>2, PTL DEF RustPagesSpec

\* However the calls of any threads interleave, no two get the same memory; their
\* pages are in the buffer while there is room, or in mappings of their own.
THEOREM BorrowsAreSound == RustPagesSpec => []BorrowsSound
  <1>1. ASSUME RustInv, syscalls = "prealloc", Demand <= BufferUnits,
               NEW i \in 1 .. Len(lent)
        PROVE  LentUnits(lent[i]) \subseteq bufAt .. bufAt + BufferUnits - 1
    <2>1. /\ lent \in Seq(Loans) /\ bufAt \in Nat /\ heap \in Nat
          /\ BufferUnits \in Nat /\ PageUnits \in Nat /\ BufferInv
      BY <1>1, RustPagesAssumption, PageAssumption DEF RustInv, RustTypeOK
    <2>2. lent[i].ptr \in Nat /\ lent[i].n \in Nat
      <3>1. lent[i] \in Loans
        BY <2>1, ElementOfSeq
      <3>2. QED
        BY <3>1 DEF Loans
    <2>3. heap # 0
      BY <2>1, <1>1, EmptySeq DEF BufferInv
    <2>4. heap <= BufferUnits
      BY <2>1, <2>3, <1>1 DEF BufferInv, OnPage
    <2> DEFINE e == lent[i].ptr + PageUnits * lent[i].n
               p == lent[i].ptr
    <2>5. e \in Int /\ p \in Nat /\ bufAt <= p /\ e <= bufAt + heap
      BY <2>1, <2>2 DEF BufferInv
    <2>6. LentUnits(lent[i]) = p .. e - 1
      <3> DEFINE k == PageUnits * lent[i].n
      <3>1. LentUnits(lent[i]) = p .. p + k - 1
        BY Zenon DEF LentUnits
      <3>2. e = p + k /\ k \in Nat /\ p \in Nat
        BY <2>2, <2>5, PageAssumption
      <3> HIDE DEF e, p, k
      <3>3. p + k - 1 = e - 1
        BY <3>2
      <3>4. QED
        BY <3>1, <3>3, Zenon
    <2> HIDE DEF e, p
    <2>7. QED
      BY <2>1, <2>4, <2>5, <2>6
  <1>2. RustInv => BorrowsSound
    BY <1>1 DEF RustInv, ApartInv, MappingInv, BorrowsSound
  <1>3. QED
    BY <1>2, RustPagesInvariant, PTL
=============================================================================
