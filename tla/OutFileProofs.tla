---------------------------- MODULE OutFileProofs ---------------------------
(***************************************************************************)
(* Proofs about OutFile for any set of threads, any size of the buffer,    *)
(* any jobs, and writes that are short or fail whenever they like.         *)
(***************************************************************************)
EXTENDS OutFile, SequenceTheorems, FiniteSetTheorems, TLAPS

Places == {"idle", "lock", "put", "loop", "flush", "returned", "unlock"}
Byte == [call : Nat, char : Chars]

TypeOK ==
  /\ buf \in Seq(Byte) /\ stored \in Seq(Byte) /\ written \in Seq(Byte)
  /\ start \in 0 .. Len(buf)
  /\ lock \in SUBSET Threads
  /\ failed \in BOOLEAN
  /\ pc \in [Threads -> Places]
  /\ job \in [Threads -> Jobs \cup {NoJob}]
  /\ part \in [Threads -> Nat \ {0}]
  /\ put \in [Threads -> Nat]
  /\ DOMAIN ret = Threads
  /\ calls \in Nat
  /\ call \in [Threads -> Nat]

\* Thread t is between the lock and the unlock.
Inside(t) == pc[t] \notin {"idle", "lock"}

\* out.mutex has one owner, and only the owner is inside.
LockInv ==
  /\ \A t, u \in lock : t = u
  /\ \A t \in Threads : Inside(t) => t \in lock

\* A thread in a call puts one of the job's strings, and no more than it;
\* fflush puts none.
JobOK(t) ==
  /\ job[t] \in Jobs
  /\ job[t].op = "fflush" => pc[t] \notin {"put", "loop"}
  /\ job[t].op # "fflush" => /\ part[t] \in 1 .. Len(job[t].text)
                             /\ put[t] <= Len(Text(t))
  /\ pc[t] \in {"lock", "put"} => put[t] = 0
JobInv == \A t \in Threads : pc[t] # "idle" => JobOK(t)

\* The buffer is never overrun: the loop is entered with room for a byte.
BufferInv ==
  /\ Len(buf) <= Size
  /\ \A t \in Threads : pc[t] = "loop" => Len(buf) < Size

\* Calls are told apart: one that waits for the mutex has stored nothing, and
\* the last byte of the output belongs to the call inside if any byte does.
CallInv ==
  /\ \A i \in 1 .. Len(stored) : stored[i].call <= calls
  /\ \A t \in Threads : pc[t] # "idle" => call[t] <= calls
  /\ \A t, u \in Threads :
       t # u /\ pc[t] # "idle" /\ pc[u] # "idle" => call[t] # call[u]
  /\ \A t \in Threads : pc[t] = "lock" => Kept(t) = {}
  /\ \A t \in Threads : Inside(t) /\ Kept(t) # {} => Len(stored) \in Kept(t)

\* put counts the bytes of the string: they are all the bytes of the call, for
\* an operation with one string for each, and the last one stored otherwise.
\* Without a failed flush, a string that has been put is whole.
CountOK(t) ==
  /\ job[t].op \in {"fputc", "fwrite", "write_fmt"} =>
       IsFiniteSet(Kept(t)) /\ Cardinality(Kept(t)) = put[t]
  /\ put[t] > 0 => /\ Len(stored) \in Kept(t)
                   /\ stored[Len(stored)].char = Text(t)[put[t]]
  /\ pc[t] \in {"returned", "unlock"} => failed \/ put[t] = Len(Text(t))
  /\ pc[t] = "unlock" => ret[t] = Result(t) /\ ~GoesOn(t)
CountInv ==
  \A t \in Threads : Inside(t) /\ job[t].op # "fflush" => CountOK(t)

\* While nobody flushes and the last flush did not fail, no line and no full
\* buffer waits.
LinesInv ==
  ~failed /\ (\A t \in Threads : pc[t] # "flush") =>
    /\ \A i \in start + 1 .. Len(buf) : buf[i].char # "newline"
    /\ Len(buf) < Size

OutInv ==
  /\ TypeOK /\ LockInv /\ JobInv /\ BufferInv /\ CallInv /\ CountInv
  /\ LinesInv /\ NothingLost /\ CallsContiguous

-----------------------------------------------------------------------------
(* Steps.                                                                  *)

\* A thread that puts has a string, of characters.
LEMMA TextSeq ==
  ASSUME TypeOK, JobInv, NEW t \in Threads, pc[t] # "idle", job[t].op # "fflush"
  PROVE  Text(t) \in Seq(Chars) /\ Len(Text(t)) \in Nat
  <1>1. job[t].text \in Seq(Seq(Chars)) /\ part[t] \in 1 .. Len(job[t].text)
    BY OutAssumption DEF JobInv, JobOK
  <1>2. Text(t) \in Seq(Chars)
    BY <1>1, ElementOfSeq DEF Text
  <1>3. QED
    BY <1>2, LenProperties

\* Only fflush has no string.
LEMMA HasText ==
  ASSUME NEW j \in Jobs
  PROVE  /\ j.op = "fflush" => Len(j.text) = 0
         /\ j.op # "fflush" => 1 \in 1 .. Len(j.text)
  <1>1. j.op \in Ops /\ j.text \in Seq(Seq(Chars))
    BY OutAssumption
  <1>2. Len(j.text) \in Nat /\ (j.text # <<>> => Len(j.text) # 0)
    BY <1>1, EmptySeq, LenProperties
  <1>3. CASE j.op = "fputc"  BY <1>2, <1>3, TextAssumption
  <1>4. CASE j.op = "fputs"  BY <1>2, <1>4, TextAssumption
  <1>5. CASE j.op = "fwrite" BY <1>2, <1>5, TextAssumption, SMTT(30)
  <1>6. CASE j.op = "fflush" BY <1>6, TextAssumption, EmptySeq
  <1>7. CASE j.op \in {"printf", "write_fmt"}
    BY <1>2, <1>7, TextAssumption
  <1>8. QED
    BY <1>1, <1>3, <1>4, <1>5, <1>6, <1>7 DEF Ops

\* The byte that Store puts.
NextByte(t) == [call |-> call[t], char |-> Text(t)[put[t] + 1]]

\* What Store does when the string has another byte.
LEMMA StoreByte ==
  ASSUME TypeOK, JobInv, NEW t \in Threads, Store(t), put[t] < Len(Text(t))
  PROVE  /\ NextByte(t) \in Byte /\ NextByte(t).call = call[t]
         /\ NextByte(t).char = Text(t)[put[t] + 1]
         /\ Len(buf) \in Nat /\ Len(stored) \in Nat
         /\ buf' = Append(buf, NextByte(t)) /\ stored' = Append(stored, NextByte(t))
         /\ buf' \in Seq(Byte) /\ stored' \in Seq(Byte)
         /\ Len(buf') = Len(buf) + 1 /\ Len(stored') = Len(stored) + 1
         /\ \A i \in 1 .. Len(buf) : buf'[i] = buf[i]
         /\ \A i \in 1 .. Len(stored) : stored'[i] = stored[i]
         /\ buf'[Len(buf) + 1] = NextByte(t)
         /\ stored'[Len(stored) + 1] = NextByte(t)
         /\ put' = [put EXCEPT ![t] = put[t] + 1]
         /\ pc[t] = "loop"
         /\ pc' = [pc EXCEPT ![t] =
                        IF NextByte(t).char = "newline" \/ Len(buf) + 1 >= Size
                          THEN "flush" ELSE "loop"]
         /\ UNCHANGED <<start, failed, written, job, calls, call, lock, part, ret>>
  <1>1. Text(t) \in Seq(Chars) /\ Len(Text(t)) \in Nat
    BY TextSeq DEF Store, JobInv, JobOK
  <1>2. put[t] + 1 \in 1 .. Len(Text(t))
    BY <1>1 DEF TypeOK
  <1>3. Text(t)[put[t] + 1] \in Chars
    BY <1>1, <1>2, ElementOfSeq
  <1>4. NextByte(t) \in Byte
    BY <1>3 DEF NextByte, Byte, TypeOK
  <1>5. buf' = Append(buf, NextByte(t)) /\ stored' = Append(stored, NextByte(t))
    BY DEF Store, NextByte
  <1>6. /\ put' = [put EXCEPT ![t] = put[t] + 1]
        /\ pc[t] = "loop"
        /\ pc' = [pc EXCEPT ![t] =
                       IF NextByte(t).char = "newline" \/ Len(buf) + 1 >= Size
                         THEN "flush" ELSE "loop"]
    BY DEF Store, Goto, NextByte
  <1>7. UNCHANGED <<start, failed, written, job, calls, call, lock, part, ret>>
    BY DEF Store, locals
  <1>8. NextByte(t).call = call[t] /\ NextByte(t).char = Text(t)[put[t] + 1]
    BY DEF NextByte
  <1>9. Len(buf) \in Nat /\ Len(stored) \in Nat
    BY LenProperties DEF TypeOK
  <1>10. QED
    BY <1>4, <1>5, <1>6, <1>7, <1>8, <1>9, AppendProperties DEF TypeOK

\* What Store does at the end of the string.
LEMMA StoreNothing ==
  ASSUME NEW t \in Threads, Store(t), ~(put[t] < Len(Text(t)))
  PROVE  /\ pc[t] = "loop" /\ pc' = [pc EXCEPT ![t] = "returned"]
         /\ UNCHANGED <<buf, stored, put, start, failed, written, job, calls, call,
                        lock, part, ret>>
  BY DEF Store, Goto, locals

\* Every step keeps the state in its types.
LEMMA StepTypeOK ==
  ASSUME TypeOK, JobInv, [Next]_outVars
  PROVE  TypeOK'
  <1> USE OutAssumption DEF TypeOK, Places, Goto, file, locals
  <1>1. ASSUME NEW t \in Threads, NEW j \in Jobs, Call(t, j) PROVE TypeOK'
    BY <1>1 DEF Call
  <1>2. ASSUME NEW t \in Threads, Lock(t) PROVE TypeOK'
    BY <1>2 DEF Lock
  <1>3. ASSUME NEW t \in Threads, Put(t) PROVE TypeOK'
    BY <1>3 DEF Put
  <1>4. ASSUME NEW t \in Threads, Store(t) PROVE TypeOK'
    <2>1. CASE put[t] < Len(Text(t))
      <3>1. start' \in 0 .. Len(buf')
        <4>1. start' = start /\ Len(buf') = Len(buf) + 1 /\ Len(buf) \in Nat
          BY <1>4, <2>1, StoreByte
        <4>2. QED
          BY <4>1
      <3>2. put' \in [Threads -> Nat]
        <4>1. put' = [put EXCEPT ![t] = put[t] + 1]
          BY <1>4, <2>1, StoreByte
        <4>2. QED
          BY <4>1
      <3>3. pc' \in [Threads -> Places]
        BY <1>4, <2>1, StoreByte
      <3>4. QED
        BY <1>4, <2>1, <3>1, <3>2, <3>3, StoreByte
    <2>2. CASE ~(put[t] < Len(Text(t)))
      BY <1>4, <2>2, StoreNothing
    <2>3. QED
      BY <2>1, <2>2
  <1>5. ASSUME NEW t \in Threads, Write(t) PROVE TypeOK'
    <2>1. PICK r \in 1 .. Len(buf) - start :
            /\ written' = written \o SubSeq(buf, start + 1, start + r)
            /\ start' = start + r
      BY <1>5 DEF Write
    <2>2. Len(buf) \in Nat
      BY LenProperties
    <2>3. \A i \in start + 1 .. start + r : buf[i] \in Byte
      BY <2>2, ElementOfSeq
    <2>4. SubSeq(buf, start + 1, start + r) \in Seq(Byte)
      BY <2>2, <2>3, SubSeqProperties
    <2>5. written' \in Seq(Byte)
      BY <2>1, <2>4, ConcatProperties
    <2>6. QED
      BY <1>5, <2>1, <2>2, <2>5 DEF Write
  <1>6. ASSUME NEW t \in Threads, WriteError(t) PROVE TypeOK'
    BY <1>6 DEF WriteError
  <1>7. ASSUME NEW t \in Threads, Flushed(t) PROVE TypeOK'
    <2>1. buf' \in Seq(Byte) /\ start' \in 0 .. Len(buf')
      BY <1>7, EmptySeq DEF Flushed
    <2>2. pc' \in [Threads -> Places]
      BY <1>7 DEF Flushed
    <2>3. QED
      BY <1>7, <2>1, <2>2 DEF Flushed
  <1>8. ASSUME NEW t \in Threads, NextPiece(t) PROVE TypeOK'
    BY <1>8 DEF NextPiece
  <1>9. ASSUME NEW t \in Threads, Returned(t) PROVE TypeOK'
    <2>1. CASE GoesOn(t)
      <3>1. /\ part' = [part EXCEPT ![t] = part[t] + 1]
            /\ put' = [put EXCEPT ![t] = 0]
            /\ pc' = [pc EXCEPT ![t] = "put"] /\ ret' = ret
        BY <1>9, <2>1 DEF Returned
      <3>2. part' \in [Threads -> Nat \ {0}]
        BY <3>1
      <3>3. QED
        BY <1>9, <3>1, <3>2 DEF Returned
    <2>2. CASE ~GoesOn(t)
      BY <1>9, <2>2 DEF Returned
    <2>3. QED
      BY <2>1, <2>2
  <1>10. ASSUME NEW t \in Threads, Unlock(t) PROVE TypeOK'
    BY <1>10 DEF Unlock
  <1>11. CASE UNCHANGED outVars
    BY <1>11 DEF outVars
  <1>12. QED
    BY <1>1, <1>2, <1>3, <1>4, <1>5, <1>6, <1>7, <1>8, <1>9,
       <1>10, <1>11 DEF Next, Run

\* Every step keeps the mutex with the thread that is inside.
LEMMA StepLockInv ==
  ASSUME TypeOK, LockInv, [Next]_outVars
  PROVE  LockInv'
  <1> USE DEF TypeOK, Places, Goto, LockInv, Inside
  <1>1. ASSUME NEW t \in Threads, NEW j \in Jobs, Call(t, j) PROVE LockInv'
    BY <1>1 DEF Call
  <1>2. ASSUME NEW t \in Threads, Lock(t) PROVE LockInv'
    BY <1>2 DEF Lock
  <1>3. ASSUME NEW t \in Threads, Put(t) PROVE LockInv'
    BY <1>3 DEF Put
  <1>4. ASSUME NEW t \in Threads, Store(t) PROVE LockInv'
    BY <1>4 DEF Store
  <1>5. ASSUME NEW t \in Threads, Write(t) PROVE LockInv'
    BY <1>5 DEF Write
  <1>6. ASSUME NEW t \in Threads, WriteError(t) PROVE LockInv'
    BY <1>6 DEF WriteError
  <1>7. ASSUME NEW t \in Threads, Flushed(t) PROVE LockInv'
    BY <1>7 DEF Flushed
  <1>8. ASSUME NEW t \in Threads, NextPiece(t) PROVE LockInv'
    BY <1>8 DEF NextPiece
  <1>9. ASSUME NEW t \in Threads, Returned(t) PROVE LockInv'
    BY <1>9 DEF Returned
  <1>10. ASSUME NEW t \in Threads, Unlock(t) PROVE LockInv'
    BY <1>10 DEF Unlock
  <1>11. CASE UNCHANGED outVars
    BY <1>11 DEF outVars
  <1>12. QED
    BY <1>1, <1>2, <1>3, <1>4, <1>5, <1>6, <1>7, <1>8, <1>9,
       <1>10, <1>11 DEF Next, Run

\* Every step keeps to the strings of the job.
LEMMA StepJobInv ==
  ASSUME TypeOK, JobInv, [Next]_outVars
  PROVE  JobInv'
  <1> USE DEF TypeOK, Places, Goto, JobInv, file, locals
  <1>1. ASSUME NEW t \in Threads, NEW j \in Jobs, Call(t, j) PROVE JobInv'
    <2>1. ASSUME NEW u \in Threads, u # t, pc'[u] # "idle" PROVE JobOK(u)'
      <3>1. /\ pc'[u] = pc[u] /\ job'[u] = job[u] /\ part'[u] = part[u]
            /\ put'[u] = put[u]
        BY <1>1, <2>1 DEF Call
      <3>2. QED
        BY <2>1, <3>1 DEF JobOK, Text
    <2>2. JobOK(t)'
      <3>1. pc'[t] = "lock" /\ job'[t] = j /\ part'[t] = 1 /\ put'[t] = 0
        BY <1>1 DEF Call
      <3>2. j.text \in Seq(Seq(Chars))
        BY OutAssumption
      <3>3. j.op # "fflush" => 1 \in 1 .. Len(j.text)
        BY HasText
      <3>4. j.op # "fflush" => Len(j.text[1]) \in Nat
        BY <3>2, <3>3, ElementOfSeq, LenProperties
      <3>5. QED
        BY <3>1, <3>3, <3>4 DEF JobOK, Text
    <2>9. QED
      BY <2>1, <2>2 DEF JobInv
  <1>2. ASSUME NEW t \in Threads, Lock(t) PROVE JobInv'
    <2>1. ASSUME NEW u \in Threads, u # t, pc'[u] # "idle" PROVE JobOK(u)'
      <3>1. /\ pc'[u] = pc[u] /\ job'[u] = job[u] /\ part'[u] = part[u]
            /\ put'[u] = put[u]
        BY <1>2, <2>1 DEF Lock
      <3>2. QED
        BY <2>1, <3>1 DEF JobOK, Text
    <2>2. pc'[t] # "idle" => JobOK(t)'
      BY <1>2 DEF Lock, JobOK, Text
    <2>9. QED
      BY <2>1, <2>2 DEF JobInv
  <1>3. ASSUME NEW t \in Threads, Put(t) PROVE JobInv'
    <2>1. ASSUME NEW u \in Threads, u # t, pc'[u] # "idle" PROVE JobOK(u)'
      <3>1. /\ pc'[u] = pc[u] /\ job'[u] = job[u] /\ part'[u] = part[u]
            /\ put'[u] = put[u]
        BY <1>3, <2>1 DEF Put
      <3>2. QED
        BY <2>1, <3>1 DEF JobOK, Text
    <2>2. pc'[t] # "idle" => JobOK(t)'
      BY <1>3 DEF Put, JobOK, Text
    <2>9. QED
      BY <2>1, <2>2 DEF JobInv
  <1>4. ASSUME NEW t \in Threads, Store(t) PROVE JobInv'
    <2>1. CASE put[t] < Len(Text(t))
      <3>1. /\ \A u \in Threads : u # t => pc'[u] = pc[u] /\ put'[u] = put[u]
            /\ pc'[t] \in {"flush", "loop"} /\ put'[t] = put[t] + 1
            /\ pc[t] = "loop" /\ job' = job /\ part' = part
        BY <1>4, <2>1, StoreByte, SMTT(30)
      <3>2. Len(Text(t)) \in Nat
        BY <3>1, TextSeq DEF JobInv, JobOK
      <3>3. JobOK(t)'
        BY <2>1, <3>1, <3>2 DEF JobOK, Text
      <3>4. QED
        BY <3>1, <3>3 DEF JobOK, Text
    <2>2. CASE ~(put[t] < Len(Text(t)))
      BY <1>4, <2>2, StoreNothing DEF JobOK, Text
    <2>3. QED
      BY <2>1, <2>2
  <1>5. ASSUME NEW t \in Threads, Write(t) PROVE JobInv'
    <2>1. ASSUME NEW u \in Threads, u # t, pc'[u] # "idle" PROVE JobOK(u)'
      <3>1. /\ pc'[u] = pc[u] /\ job'[u] = job[u] /\ part'[u] = part[u]
            /\ put'[u] = put[u]
        BY <1>5, <2>1 DEF Write
      <3>2. QED
        BY <2>1, <3>1 DEF JobOK, Text
    <2>2. pc'[t] # "idle" => JobOK(t)'
      BY <1>5 DEF Write, JobOK, Text
    <2>9. QED
      BY <2>1, <2>2 DEF JobInv
  <1>6. ASSUME NEW t \in Threads, WriteError(t) PROVE JobInv'
    <2>1. ASSUME NEW u \in Threads, u # t, pc'[u] # "idle" PROVE JobOK(u)'
      <3>1. /\ pc'[u] = pc[u] /\ job'[u] = job[u] /\ part'[u] = part[u]
            /\ put'[u] = put[u]
        BY <1>6, <2>1 DEF WriteError
      <3>2. QED
        BY <2>1, <3>1 DEF JobOK, Text
    <2>2. pc'[t] # "idle" => JobOK(t)'
      BY <1>6 DEF WriteError, JobOK, Text
    <2>9. QED
      BY <2>1, <2>2 DEF JobInv
  <1>7. ASSUME NEW t \in Threads, Flushed(t) PROVE JobInv'
    <2>1. ASSUME NEW u \in Threads, u # t, pc'[u] # "idle" PROVE JobOK(u)'
      <3>1. /\ pc'[u] = pc[u] /\ job'[u] = job[u] /\ part'[u] = part[u]
            /\ put'[u] = put[u]
        BY <1>7, <2>1 DEF Flushed
      <3>2. QED
        BY <2>1, <3>1 DEF JobOK, Text
    <2>2. pc'[t] # "idle" => JobOK(t)'
      BY <1>7 DEF Flushed, JobOK, Text
    <2>9. QED
      BY <2>1, <2>2 DEF JobInv
  <1>8. ASSUME NEW t \in Threads, NextPiece(t) PROVE JobInv'
    <2>1. ASSUME NEW u \in Threads, u # t, pc'[u] # "idle" PROVE JobOK(u)'
      <3>1. /\ pc'[u] = pc[u] /\ job'[u] = job[u] /\ part'[u] = part[u]
            /\ put'[u] = put[u]
        BY <1>8, <2>1 DEF NextPiece
      <3>2. QED
        BY <2>1, <3>1 DEF JobOK, Text
    <2>2. JobOK(t)'
      <3>1. /\ pc'[t] = "lock" /\ job'[t] = job[t] /\ part'[t] = part[t] + 1
            /\ put'[t] = 0 /\ job[t] \in Jobs
        BY <1>8 DEF NextPiece, JobOK
      <3>2. job[t].text \in Seq(Seq(Chars)) /\ part[t] < Len(job[t].text)
        BY <1>8, <3>1, OutAssumption DEF NextPiece, GoesOn
      <3>3. part[t] + 1 \in 1 .. Len(job[t].text)
        BY <3>2, LenProperties
      <3>4. Len(job[t].text[part[t] + 1]) \in Nat
        BY <3>2, <3>3, ElementOfSeq, LenProperties
      <3>5. QED
        BY <3>1, <3>3, <3>4 DEF JobOK, Text
    <2>9. QED
      BY <2>1, <2>2 DEF JobInv
  <1>9. ASSUME NEW t \in Threads, Returned(t) PROVE JobInv'
    <2>1. ASSUME NEW u \in Threads, u # t, pc'[u] # "idle" PROVE JobOK(u)'
      <3>1. /\ pc'[u] = pc[u] /\ job'[u] = job[u] /\ part'[u] = part[u]
            /\ put'[u] = put[u]
        BY <1>9, <2>1 DEF Returned
      <3>2. QED
        BY <2>1, <3>1 DEF JobOK, Text
    <2>2. JobOK(t)'
      <3>1. pc[t] # "idle" /\ job'[t] = job[t] /\ job[t] \in Jobs
        BY <1>9 DEF Returned, JobOK
      <3>2. CASE GoesOn(t)
        <4>1. /\ pc'[t] = "put" /\ part'[t] = part[t] + 1 /\ put'[t] = 0
          BY <1>9, <3>2 DEF Returned
        <4>2. job[t].text \in Seq(Seq(Chars)) /\ part[t] < Len(job[t].text)
          BY <3>1, <3>2, OutAssumption DEF GoesOn
        <4>3. job[t].op # "fflush"
          BY <3>1, <4>2, HasText DEF TypeOK
        <4>4. part[t] + 1 \in 1 .. Len(job[t].text)
          BY <4>2, LenProperties
        <4>5. Len(job[t].text[part[t] + 1]) \in Nat
          BY <4>2, <4>4, ElementOfSeq, LenProperties
        <4>6. QED
          BY <3>1, <4>1, <4>3, <4>4, <4>5 DEF JobOK, Text
      <3>3. CASE ~GoesOn(t)
        <4>1. pc'[t] = "unlock" /\ part'[t] = part[t] /\ put'[t] = put[t]
          BY <1>9, <3>3 DEF Returned
        <4>2. QED
          BY <3>1, <4>1 DEF JobOK, Text
      <3>4. QED
        BY <3>2, <3>3
    <2>9. QED
      BY <2>1, <2>2 DEF JobInv
  <1>10. ASSUME NEW t \in Threads, Unlock(t) PROVE JobInv'
    <2>1. ASSUME NEW u \in Threads, u # t, pc'[u] # "idle" PROVE JobOK(u)'
      <3>1. /\ pc'[u] = pc[u] /\ job'[u] = job[u] /\ part'[u] = part[u]
            /\ put'[u] = put[u]
        BY <1>10, <2>1 DEF Unlock
      <3>2. QED
        BY <2>1, <3>1 DEF JobOK, Text
    <2>2. pc'[t] # "idle" => JobOK(t)'
      BY <1>10 DEF Unlock, JobOK, Text
    <2>9. QED
      BY <2>1, <2>2 DEF JobInv
  <1>11. CASE UNCHANGED outVars
    BY <1>11 DEF outVars, JobOK, Text
  <1>12. QED
    BY <1>1, <1>2, <1>3, <1>4, <1>5, <1>6, <1>7, <1>8, <1>9,
       <1>10, <1>11 DEF Next, Run

\* Every step keeps the buffer within its size.
LEMMA StepBufferInv ==
  ASSUME TypeOK, LockInv, JobInv, BufferInv, [Next]_outVars
  PROVE  BufferInv'
  <1> USE OutAssumption DEF TypeOK, Places, Goto, BufferInv, LockInv, Inside, file, locals
  <1>1. ASSUME NEW t \in Threads, NEW j \in Jobs, Call(t, j) PROVE BufferInv'
    BY <1>1 DEF Call
  <1>2. ASSUME NEW t \in Threads, Lock(t) PROVE BufferInv'
    BY <1>2 DEF Lock
  <1>3. ASSUME NEW t \in Threads, Put(t) PROVE BufferInv'
    BY <1>3 DEF Put
  <1>4. ASSUME NEW t \in Threads, Store(t) PROVE BufferInv'
    <2>1. CASE put[t] < Len(Text(t))
      <3>1. /\ Len(buf') = Len(buf) + 1 /\ pc[t] = "loop"
            /\ pc' = [pc EXCEPT ![t] =
                           IF NextByte(t).char = "newline" \/ Len(buf) + 1 >= Size
                             THEN "flush" ELSE "loop"]
        BY <1>4, <2>1, StoreByte
      <3>2. Len(buf) \in Nat /\ Len(buf) < Size
        BY <3>1, LenProperties
      <3>3. pc'[t] = "loop" => Len(buf) + 1 < Size
        BY <3>1, <3>2
      <3>4. \A u \in Threads : u # t => pc'[u] # "loop"
        BY <3>1
      <3>5. QED
        BY <3>1, <3>2, <3>3, <3>4
    <2>2. CASE ~(put[t] < Len(Text(t)))
      BY <1>4, <2>2, StoreNothing
    <2>3. QED
      BY <2>1, <2>2
  <1>5. ASSUME NEW t \in Threads, Write(t) PROVE BufferInv'
    BY <1>5 DEF Write
  <1>6. ASSUME NEW t \in Threads, WriteError(t) PROVE BufferInv'
    BY <1>6 DEF WriteError
  <1>7. ASSUME NEW t \in Threads, Flushed(t) PROVE BufferInv'
    BY <1>7 DEF Flushed
  <1>8. ASSUME NEW t \in Threads, NextPiece(t) PROVE BufferInv'
    BY <1>8 DEF NextPiece
  <1>9. ASSUME NEW t \in Threads, Returned(t) PROVE BufferInv'
    BY <1>9 DEF Returned
  <1>10. ASSUME NEW t \in Threads, Unlock(t) PROVE BufferInv'
    BY <1>10 DEF Unlock
  <1>11. CASE UNCHANGED outVars
    BY <1>11 DEF outVars
  <1>12. QED
    BY <1>1, <1>2, <1>3, <1>4, <1>5, <1>6, <1>7, <1>8, <1>9,
       <1>10, <1>11 DEF Next, Run

-----------------------------------------------------------------------------
(* The bytes of a call.                                                    *)

\* Only one thread is inside, before and after its step.
LEMMA Alone ==
  ASSUME TypeOK, LockInv, NEW t \in Threads, Inside(t),
         \A u \in Threads : u # t => pc'[u] = pc[u]
  PROVE  \A u \in Threads : u # t => ~Inside(u) /\ ~Inside(u)'
  BY DEF LockInv, Inside

\* A step that stores nothing and starts no call leaves the bytes of every
\* call where they are.
LEMMA CallsKept ==
  ASSUME TypeOK, CallInv, UNCHANGED <<stored, call, calls>>,
         \A u \in Threads : /\ pc'[u] # "idle" => pc[u] # "idle"
                            /\ pc'[u] = "lock" => pc[u] = "lock"
  PROVE  CallInv'
  <1>1. \A u \in Threads : Kept(u)' = Kept(u)
    BY DEF Kept
  <1>2. \A u \in Threads : Inside(u)' => Inside(u) \/ Kept(u) = {}
    BY DEF Inside, CallInv
  <1>3. \A u \in Threads : pc'[u] = "lock" => Kept(u)' = {}
    BY <1>1 DEF CallInv
  <1>4. \A u \in Threads : Inside(u)' /\ Kept(u)' # {} => Len(stored') \in Kept(u)'
    BY <1>1, <1>2 DEF CallInv
  <1>5. QED
    BY <1>3, <1>4 DEF CallInv

\* A call, or a piece of one, gets a number no byte and no other call has.
LEMMA NewCall ==
  ASSUME TypeOK, CallInv, NEW t \in Threads,
         stored' = stored, calls' = calls + 1,
         call' = [call EXCEPT ![t] = calls + 1], pc' = [pc EXCEPT ![t] = "lock"]
  PROVE  CallInv'
  <1> USE DEF TypeOK
  <1>1. call'[t] = calls + 1 /\ pc'[t] = "lock" /\ calls' > calls
    OBVIOUS
  <1>2. \A u \in Threads : u # t => call'[u] = call[u] /\ pc'[u] = pc[u]
    OBVIOUS
  <1>3. \A i \in 1 .. Len(stored) : stored[i].call \in Nat
    <2>1. \A i \in 1 .. Len(stored) : stored[i] \in Byte
      BY ElementOfSeq
    <2>2. QED
      BY <2>1 DEF Byte
  <1>4. Kept(t)' = {}
    BY <1>1, <1>3 DEF Kept, CallInv
  <1>5. \A u \in Threads : u # t => Kept(u)' = Kept(u) /\ Inside(u)' = Inside(u)
    BY <1>2 DEF Kept, Inside
  <1>6. \A i \in 1 .. Len(stored') : stored'[i].call <= calls'
    BY <1>1, <1>3 DEF CallInv
  <1>7. \A u \in Threads : pc'[u] # "idle" => call'[u] <= calls'
    BY <1>1, <1>2 DEF CallInv
  <1>8. \A u, v \in Threads :
          u # v /\ pc'[u] # "idle" /\ pc'[v] # "idle" => call'[u] # call'[v]
    BY <1>1, <1>2, SMTT(30) DEF CallInv
  <1>9. \A u \in Threads : pc'[u] = "lock" => Kept(u)' = {}
    BY <1>2, <1>4, <1>5 DEF CallInv
  <1>10. \A u \in Threads : Inside(u)' /\ Kept(u)' # {} => Len(stored') \in Kept(u)'
    BY <1>1, <1>4, <1>5 DEF CallInv
  <1>11. QED
    BY <1>6, <1>7, <1>8, <1>9, <1>10 DEF CallInv

\* A byte that is stored is the last, and one of the call inside alone.
LEMMA StoreKept ==
  ASSUME TypeOK, JobInv, CallInv, NEW t \in Threads, Store(t), put[t] < Len(Text(t))
  PROVE  /\ Kept(t)' = Kept(t) \cup {Len(stored) + 1}
         /\ Len(stored) + 1 \notin Kept(t)
         /\ \A u \in Threads : u # t /\ pc[u] # "idle" => Kept(u)' = Kept(u)
  <1>1. /\ Len(stored') = Len(stored) + 1 /\ Len(stored) \in Nat
        /\ \A i \in 1 .. Len(stored) : stored'[i] = stored[i]
        /\ stored'[Len(stored) + 1].call = call[t]
        /\ call' = call /\ pc[t] = "loop"
    BY StoreByte
  <1>2. \A u \in Threads : u # t /\ pc[u] # "idle" => call[u] # call[t]
    BY <1>1 DEF CallInv
  <1>3. QED
    BY <1>1, <1>2 DEF Kept

\* Every step tells the calls apart.
LEMMA StepCallInv ==
  ASSUME TypeOK, LockInv, JobInv, CallInv, [Next]_outVars
  PROVE  CallInv'
  <1> DEFINE Same == UNCHANGED <<stored, call, calls>>
             Keeps == \A u \in Threads : /\ pc'[u] # "idle" => pc[u] # "idle"
                                         /\ pc'[u] = "lock" => pc[u] = "lock"
  <1>1. ASSUME NEW t \in Threads, NEW j \in Jobs, Call(t, j) PROVE CallInv'
    BY <1>1, NewCall DEF Call, Goto, file
  <1>2. ASSUME NEW t \in Threads, NextPiece(t) PROVE CallInv'
    BY <1>2, NewCall DEF NextPiece, Goto, file
  <1>3. ASSUME NEW t \in Threads, Store(t) PROVE CallInv'
    <2>1. CASE put[t] < Len(Text(t))
      <3>1. /\ UNCHANGED <<call, calls>> /\ pc[t] = "loop"
            /\ pc'[t] \in {"loop", "flush"}
            /\ \A u \in Threads : u # t => pc'[u] = pc[u]
            /\ Len(stored') = Len(stored) + 1 /\ Len(stored) \in Nat
            /\ stored'[Len(stored) + 1].call = call[t]
            /\ \A i \in 1 .. Len(stored) : stored'[i] = stored[i]
        BY <1>3, <2>1, StoreByte, SMTT(30) DEF TypeOK
      <3>2. \A u \in Threads : u # t => ~Inside(u) /\ ~Inside(u)'
        BY <3>1, Alone DEF Inside
      <3>3. /\ Len(stored') \in Kept(t)'
            /\ \A u \in Threads : u # t /\ pc[u] # "idle" => Kept(u)' = Kept(u)
        BY <1>3, <2>1, <3>1, StoreKept
      <3>4. \A i \in 1 .. Len(stored') : stored'[i].call <= calls'
        BY <3>1 DEF CallInv
      <3>5. \A u \in Threads : pc'[u] = "lock" => Kept(u)' = {}
        BY <3>1, <3>3 DEF CallInv
      <3>6. \A u \in Threads : Inside(u)' /\ Kept(u)' # {} => Len(stored') \in Kept(u)'
        BY <3>2, <3>3
      <3>7. \A u \in Threads : pc'[u] # "idle" => pc[u] # "idle"
        BY <3>1
      <3>8. QED
        BY <3>1, <3>4, <3>5, <3>6, <3>7 DEF CallInv
    <2>2. CASE ~(put[t] < Len(Text(t)))
      <3>1. Same /\ Keeps
        BY <1>3, <2>2, StoreNothing DEF TypeOK
      <3>2. QED BY <3>1, CallsKept
    <2>3. QED
      BY <2>1, <2>2
  <1>4. ASSUME NEW t \in Threads, Lock(t) PROVE CallInv'
    <2>1. Same /\ Keeps
      BY <1>4 DEF Lock, Goto, TypeOK, file, locals
    <2>2. QED BY <2>1, CallsKept
  <1>5. ASSUME NEW t \in Threads, Put(t) PROVE CallInv'
    <2>1. Same /\ Keeps
      BY <1>5 DEF Put, Goto, TypeOK, file, locals
    <2>2. QED BY <2>1, CallsKept
  <1>6. ASSUME NEW t \in Threads, Write(t) PROVE CallInv'
    <2>1. Same /\ Keeps
      BY <1>6 DEF Write, locals
    <2>2. QED BY <2>1, CallsKept
  <1>7. ASSUME NEW t \in Threads, WriteError(t) PROVE CallInv'
    <2>1. Same /\ Keeps
      BY <1>7 DEF WriteError, Goto, TypeOK, locals
    <2>2. QED BY <2>1, CallsKept
  <1>8. ASSUME NEW t \in Threads, Flushed(t) PROVE CallInv'
    <2>1. Same /\ Keeps
      BY <1>8 DEF Flushed, Goto, TypeOK, locals
    <2>2. QED BY <2>1, CallsKept
  <1>9. ASSUME NEW t \in Threads, Returned(t) PROVE CallInv'
    <2>1. Same /\ Keeps
      BY <1>9 DEF Returned, Goto, TypeOK, file, locals
    <2>2. QED BY <2>1, CallsKept
  <1>10. ASSUME NEW t \in Threads, Unlock(t) PROVE CallInv'
    <2>1. Same /\ Keeps
      BY <1>10 DEF Unlock, Goto, TypeOK, file, locals
    <2>2. QED BY <2>1, CallsKept
  <1>11. CASE UNCHANGED outVars
    <2>1. Same /\ Keeps
      BY <1>11 DEF outVars
    <2>2. QED BY <2>1, CallsKept
  <1>12. QED
    BY <1>1, <1>2, <1>3, <1>4, <1>5, <1>6, <1>7, <1>8, <1>9, <1>10, <1>11
       DEF Next, Run

\* Every step keeps the bytes of a call together.
LEMMA StepContiguous ==
  ASSUME TypeOK, JobInv, CallInv, CallsContiguous, [Next]_outVars
  PROVE  CallsContiguous'
  <1>1. CASE stored' = stored
    BY <1>1 DEF CallsContiguous
  <1>2. ASSUME NEW t \in Threads, Store(t), put[t] < Len(Text(t))
        PROVE  CallsContiguous'
    <2> DEFINE n == Len(stored)
    <2>1. /\ Len(stored') = n + 1 /\ n \in Nat /\ pc[t] = "loop"
          /\ \A i \in 1 .. n : stored'[i] = stored[i]
          /\ stored'[n + 1].call = call[t]
      BY <1>2, StoreByte
    <2>2. \A i \in 1 .. n : stored[i].call = call[t] => stored[n].call = call[t]
      BY <2>1 DEF CallInv, Inside, Kept
    <2> SUFFICES ASSUME NEW i \in 1 .. n + 1, NEW k \in 1 .. n + 1, NEW j \in i .. k,
                        stored'[i].call = stored'[k].call
                 PROVE  stored'[j].call = stored'[i].call
      BY <2>1 DEF CallsContiguous
    <2> HIDE DEF n
    <2>3. CASE k \in 1 .. n
      BY <2>1, <2>3 DEF CallsContiguous, n
    <2>4. CASE k = n + 1 /\ i \in 1 .. n
      <3>1. stored[i].call = call[t]
        BY <2>1, <2>4
      <3>2. stored[n].call = stored[i].call /\ n \in 1 .. n
        BY <2>1, <2>2, <2>4, <3>1
      <3>3. \A m \in i .. n : stored[m].call = stored[i].call
        BY <2>4, <3>2 DEF CallsContiguous, n
      <3>4. QED
        BY <2>1, <2>4, <3>1, <3>3
    <2>5. CASE k = n + 1 /\ i = n + 1
      BY <2>1, <2>5
    <2>6. QED
      BY <2>1, <2>3, <2>4, <2>5
  <1>3. ASSUME NEW t \in Threads, Store(t), ~(put[t] < Len(Text(t)))
        PROVE  stored' = stored
    BY <1>3, StoreNothing
  <1>4. ASSUME NEW t \in Threads, ~Store(t), Run(t) \/ \E j \in Jobs : Call(t, j)
        PROVE  stored' = stored
    BY <1>4 DEF Run, Call, Lock, Put, Write, WriteError, Flushed, NextPiece,
                Returned, Unlock, file
  <1>5. QED
    BY <1>1, <1>2, <1>3, <1>4 DEF Next, outVars

-----------------------------------------------------------------------------
(* The results.                                                            *)

\* The owner of the mutex is the only one whose count can change.
LEMMA CountAlone ==
  ASSUME TypeOK, LockInv, NEW t \in Threads, Inside(t),
         \A u \in Threads : u # t => pc'[u] = pc[u],
         Inside(t)' /\ job'[t].op # "fflush" => CountOK(t)'
  PROVE  CountInv'
  BY Alone DEF CountInv

\* The parts of a step that leave a call and its bytes alone.
LEMMA CountKept ==
  ASSUME NEW t \in Threads, CountOK(t),
         UNCHANGED <<stored, call, job, part, put, ret>>,
         pc'[t] \in {"returned", "unlock"} => failed' \/ put[t] = Len(Text(t)),
         pc'[t] # "unlock"
  PROVE  CountOK(t)'
  BY DEF CountOK, Kept, Text

\* Every step keeps count of the bytes of the string.
LEMMA StepCountInv ==
  ASSUME TypeOK, LockInv, JobInv, CallInv, CountInv, [Next]_outVars
  PROVE  CountInv'
  <1> USE DEF Goto
  <1>1. ASSUME NEW t \in Threads, NEW j \in Jobs, Call(t, j) PROVE CountInv'
    <2>1. /\ UNCHANGED <<stored, failed, ret>> /\ pc'[t] = "lock"
          /\ \A u \in Threads : u # t =>
               /\ pc'[u] = pc[u] /\ call'[u] = call[u] /\ job'[u] = job[u]
               /\ part'[u] = part[u] /\ put'[u] = put[u]
      BY <1>1 DEF Call, TypeOK, file
    <2>2. ASSUME NEW u \in Threads, Inside(u)', job'[u].op # "fflush"
          PROVE  CountOK(u)'
      <3>1. u # t
        BY <2>1, <2>2 DEF Inside
      <3>2. CountOK(u)
        BY <2>1, <2>2, <3>1 DEF CountInv, Inside
      <3>3. QED
        BY <2>1, <3>1, <3>2 DEF CountOK, Kept, Text, Result, GoesOn
    <2>3. QED
      BY <2>2 DEF CountInv
  <1>2. ASSUME NEW t \in Threads, Lock(t) PROVE CountInv'
    <2>1. \A u \in Threads : u # t => ~Inside(u)'
      BY <1>2 DEF Lock, LockInv, Inside, TypeOK
    <2>2. CountOK(t)'
      <3>1. Kept(t)' = {} /\ put'[t] = 0
        BY <1>2 DEF Lock, CallInv, Kept, JobInv, JobOK, file, locals
      <3>2. pc'[t] \in {"put", "flush"}
        BY <1>2 DEF Lock, TypeOK
      <3>3. QED
        BY <3>1, <3>2, FS_EmptySet DEF CountOK
    <2>3. QED
      BY <2>1, <2>2 DEF CountInv
  <1>3. ASSUME NEW t \in Threads, Put(t) PROVE CountInv'
    <2>1. /\ Inside(t) /\ UNCHANGED <<stored, call, job, part, put, ret>>
          /\ pc'[t] \in {"flush", "loop"}
          /\ \A u \in Threads : u # t => pc'[u] = pc[u]
      BY <1>3 DEF Put, Inside, TypeOK, file, locals
    <2>2. job'[t].op # "fflush" => CountOK(t)'
      BY <2>1, CountKept DEF CountInv
    <2>3. QED
      BY <2>1, <2>2, CountAlone
  <1>4. ASSUME NEW t \in Threads, Store(t) PROVE CountInv'
    <2>1. CASE put[t] < Len(Text(t))
      <3>1. /\ Inside(t) /\ pc'[t] \in {"flush", "loop"}
            /\ \A u \in Threads : u # t => pc'[u] = pc[u]
            /\ put'[t] = put[t] + 1 /\ UNCHANGED <<job, part>>
            /\ Len(stored') = Len(stored) + 1
            /\ stored'[Len(stored) + 1].char = Text(t)[put[t] + 1]
        BY <1>4, <2>1, StoreByte, SMTT(30) DEF Inside, TypeOK
      <3>2. /\ Kept(t)' = Kept(t) \cup {Len(stored) + 1}
            /\ Len(stored) + 1 \notin Kept(t)
        BY <1>4, <2>1, StoreKept
      <3>3. job[t].op # "fflush"
        BY <1>4 DEF Store, JobInv, JobOK
      <3>4. CountOK(t)
        BY <3>1, <3>3 DEF CountInv
      <3>5. IsFiniteSet(Kept(t)) =>
              /\ IsFiniteSet(Kept(t)')
              /\ Cardinality(Kept(t)') = Cardinality(Kept(t)) + 1
        BY <3>2, FS_AddElement
      <3>6. Len(stored') \in Kept(t)' /\ Text(t)' = Text(t)
        BY <3>1, <3>2 DEF Text
      <3>7. CountOK(t)'
        BY <3>1, <3>4, <3>5, <3>6 DEF CountOK
      <3>8. QED
        BY <3>1, <3>7, CountAlone
    <2>2. CASE ~(put[t] < Len(Text(t)))
      <3>1. /\ Inside(t) /\ UNCHANGED <<stored, call, job, part, put, ret>>
            /\ pc'[t] = "returned" /\ pc[t] = "loop"
            /\ \A u \in Threads : u # t => pc'[u] = pc[u]
        BY <1>4, <2>2, StoreNothing DEF Inside, TypeOK
      <3>2. job[t].op # "fflush" /\ put[t] = Len(Text(t))
        <4>1. job[t].op # "fflush" /\ put[t] <= Len(Text(t))
          BY <3>1 DEF JobInv, JobOK
        <4>2. Len(Text(t)) \in Nat /\ put[t] \in Nat
          BY <3>1, <4>1, TextSeq DEF TypeOK
        <4>3. QED
          BY <2>2, <4>1, <4>2
      <3>3. CountOK(t)'
        BY <3>1, <3>2, CountKept DEF CountInv
      <3>4. QED
        BY <3>1, <3>3, CountAlone
    <2>3. QED
      BY <2>1, <2>2
  <1>5. ASSUME NEW t \in Threads, Write(t) PROVE CountInv'
    <2>1. /\ Inside(t) /\ UNCHANGED <<stored, call, job, part, put, ret>>
          /\ pc[t] = "flush" /\ pc' = pc
      BY <1>5 DEF Write, Inside, locals
    <2>2. job'[t].op # "fflush" => CountOK(t)'
      BY <2>1, CountKept DEF CountInv
    <2>3. QED
      BY <2>1, <2>2, CountAlone
  <1>6. ASSUME NEW t \in Threads, WriteError(t) PROVE CountInv'
    <2>1. /\ Inside(t) /\ UNCHANGED <<stored, call, job, part, put, ret>>
          /\ pc'[t] = "returned" /\ failed'
          /\ \A u \in Threads : u # t => pc'[u] = pc[u]
      BY <1>6 DEF WriteError, Inside, TypeOK, locals
    <2>2. job'[t].op # "fflush" => CountOK(t)'
      BY <2>1, CountKept DEF CountInv
    <2>3. QED
      BY <2>1, <2>2, CountAlone
  <1>7. ASSUME NEW t \in Threads, Flushed(t) PROVE CountInv'
    <2>1. /\ Inside(t) /\ UNCHANGED <<stored, call, job, part, put, ret>>
          /\ job[t].op # "fflush" => pc'[t] = "loop"
          /\ \A u \in Threads : u # t => pc'[u] = pc[u]
      BY <1>7 DEF Flushed, Inside, TypeOK, locals
    <2>2. job'[t].op # "fflush" => CountOK(t)'
      BY <2>1, CountKept DEF CountInv
    <2>3. QED
      BY <2>1, <2>2, CountAlone
  <1>8. ASSUME NEW t \in Threads, NextPiece(t) PROVE CountInv'
    <2>1. /\ Inside(t) /\ ~Inside(t)'
          /\ \A u \in Threads : u # t => pc'[u] = pc[u]
      BY <1>8 DEF NextPiece, Inside, TypeOK
    <2>2. QED
      BY <2>1, CountAlone
  <1>9. ASSUME NEW t \in Threads, Returned(t) PROVE CountInv'
    <2>1. /\ Inside(t) /\ pc[t] = "returned" /\ UNCHANGED <<stored, failed, call, job>>
          /\ \A u \in Threads : u # t => pc'[u] = pc[u]
      BY <1>9 DEF Returned, Inside, TypeOK, file, locals
    <2>2. ASSUME job[t].op # "fflush" PROVE CountOK(t)'
      <3>1. CountOK(t)
        BY <2>1, <2>2 DEF CountInv
      <3>2. CASE GoesOn(t)
        <4>1. put'[t] = 0 /\ pc'[t] = "put"
          BY <1>9, <3>2 DEF Returned, TypeOK
        <4>2. job[t].op \notin {"fputc", "fwrite", "write_fmt"}
          <5>1. job[t] \in Jobs /\ part[t] \in Nat \ {0} /\ part[t] < Len(job[t].text)
            BY <2>1, <3>2 DEF JobInv, JobOK, TypeOK, GoesOn
          <5>2. job[t].op # "write_fmt"
            BY <1>9, <3>2 DEF Returned
          <5>3. job[t].op \in {"fputc", "fwrite"} => Len(job[t].text) = 1
            BY <5>1, TextAssumption
          <5>4. Len(job[t].text) # 1
            <6>1. \A p \in Nat \ {0} : ~(p < 1)
              OBVIOUS
            <6>2. QED
              BY <5>1, <6>1
          <5>5. QED
            BY <5>2, <5>3, <5>4
        <4>3. QED
          BY <2>1, <4>1, <4>2 DEF CountOK
      <3>3. CASE ~GoesOn(t)
        <4>1. /\ UNCHANGED <<part, put>> /\ pc'[t] = "unlock" /\ ret'[t] = Result(t)
          BY <1>9, <3>3 DEF Returned, TypeOK
        <4>2. /\ Kept(t)' = Kept(t) /\ Text(t)' = Text(t)
              /\ Result(t)' = Result(t) /\ GoesOn(t)' = GoesOn(t)
          BY <2>1, <4>1 DEF Kept, Text, Result, GoesOn
        <4>3. failed' \/ put'[t] = Len(Text(t)')
          BY <2>1, <3>1, <4>1, <4>2 DEF CountOK
        <4>4. QED
          BY <2>1, <3>1, <3>3, <4>1, <4>2, <4>3 DEF CountOK
      <3>4. QED
        BY <3>2, <3>3
    <2>3. QED
      BY <2>1, <2>2, CountAlone
  <1>10. ASSUME NEW t \in Threads, Unlock(t) PROVE CountInv'
    <2>1. /\ Inside(t) /\ ~Inside(t)'
          /\ \A u \in Threads : u # t => pc'[u] = pc[u]
      BY <1>10 DEF Unlock, Inside, TypeOK
    <2>2. QED
      BY <2>1, CountAlone
  <1>11. CASE UNCHANGED outVars
    <2>1. UNCHANGED <<buf, start, lock, failed, pc, job, part, put, ret, calls, call,
                      stored, written>>
      BY <1>11 DEF outVars
    <2>2. \A t \in Threads : /\ Inside(t)' = Inside(t) /\ Kept(t)' = Kept(t)
                            /\ Text(t)' = Text(t) /\ Result(t)' = Result(t)
                            /\ GoesOn(t)' = GoesOn(t)
      BY <2>1 DEF Inside, Kept, Text, Result, GoesOn
    <2>3. \A t \in Threads : CountOK(t)' <=> CountOK(t)
      BY <2>1, <2>2 DEF CountOK
    <2>4. QED
      BY <2>1, <2>2, <2>3 DEF CountInv
  <1>12. QED
    BY <1>1, <1>2, <1>3, <1>4, <1>5, <1>6, <1>7, <1>8, <1>9, <1>10, <1>11
       DEF Next, Run

-----------------------------------------------------------------------------
(* The buffer.                                                             *)

\* Every step that does not flush leaves the buffer without lines.
LEMMA StepLinesInv ==
  ASSUME TypeOK, LockInv, JobInv, BufferInv, LinesInv, [Next]_outVars
  PROVE  LinesInv'
  <1> USE DEF Goto
  <1>1. ASSUME UNCHANGED <<buf, start, failed>>,
               \A u \in Threads : pc'[u] # "flush" => pc[u] # "flush"
        PROVE  LinesInv'
    BY <1>1 DEF LinesInv
  <1>2. ASSUME NEW t \in Threads, pc'[t] = "flush" PROVE LinesInv'
    BY <1>2 DEF LinesInv
  <1>3. ASSUME NEW t \in Threads, NEW j \in Jobs, Call(t, j) PROVE LinesInv'
    BY <1>1, <1>3 DEF Call, TypeOK, file
  <1>4. ASSUME NEW t \in Threads, Lock(t) PROVE LinesInv'
    BY <1>1, <1>4 DEF Lock, TypeOK, file
  <1>5. ASSUME NEW t \in Threads, Put(t) PROVE LinesInv'
    BY <1>1, <1>5 DEF Put, TypeOK, file
  <1>6. ASSUME NEW t \in Threads, Store(t) PROVE LinesInv'
    <2>1. CASE put[t] < Len(Text(t)) /\ pc'[t] # "flush"
      <3>1. /\ NextByte(t).char # "newline" /\ Len(buf) + 1 < Size
            /\ Len(buf') = Len(buf) + 1 /\ Len(buf) \in Nat
            /\ \A i \in 1 .. Len(buf) : buf'[i] = buf[i]
            /\ buf'[Len(buf) + 1] = NextByte(t)
            /\ UNCHANGED <<start, failed>> /\ pc[t] = "loop"
        <4>1. ~(NextByte(t).char = "newline" \/ Len(buf) + 1 >= Size)
          BY <1>6, <2>1, StoreByte DEF TypeOK
        <4>2. Len(buf) \in Nat /\ Size \in Nat
          BY <1>6, <2>1, StoreByte, OutAssumption
        <4>3. QED
          BY <1>6, <2>1, <4>1, <4>2, StoreByte
      <3>2. \A u \in Threads : pc[u] # "flush"
        BY <3>1 DEF LockInv, Inside
      <3>3. start \in 0 .. Len(buf)
        BY DEF TypeOK
      <3>4. ~failed => \A i \in start + 1 .. Len(buf) : buf[i].char # "newline"
        BY <3>2 DEF LinesInv
      <3>5. ~failed => \A i \in start + 1 .. Len(buf) + 1 : buf'[i].char # "newline"
        BY <3>1, <3>3, <3>4
      <3>6. QED
        BY <3>1, <3>5 DEF LinesInv
    <2>2. CASE ~(put[t] < Len(Text(t)))
      BY <1>1, <1>6, <2>2, StoreNothing DEF TypeOK
    <2>3. QED
      BY <1>2, <2>1, <2>2
  <1>7. ASSUME NEW t \in Threads, Write(t) PROVE LinesInv'
    BY <1>2, <1>7 DEF Write
  <1>8. ASSUME NEW t \in Threads, WriteError(t) PROVE LinesInv'
    BY <1>8 DEF WriteError, LinesInv
  <1>9. ASSUME NEW t \in Threads, Flushed(t) PROVE LinesInv'
    <2>1. start' = 0 /\ Len(buf') = 0 /\ Size \in Nat \ {0}
      BY <1>9, EmptySeq, OutAssumption DEF Flushed
    <2>2. QED
      BY <2>1 DEF LinesInv
  <1>10. ASSUME NEW t \in Threads, NextPiece(t) PROVE LinesInv'
    BY <1>1, <1>10 DEF NextPiece, TypeOK, file
  <1>11. ASSUME NEW t \in Threads, Returned(t) PROVE LinesInv'
    BY <1>1, <1>11 DEF Returned, TypeOK, file
  <1>12. ASSUME NEW t \in Threads, Unlock(t) PROVE LinesInv'
    BY <1>1, <1>12 DEF Unlock, TypeOK, file
  <1>13. CASE UNCHANGED outVars
    BY <1>1, <1>13 DEF outVars
  <1>14. QED
    BY <1>3, <1>4, <1>5, <1>6, <1>7, <1>8, <1>9, <1>10, <1>11, <1>12, <1>13
       DEF Next, Run

\* The end of a sequence grows with it.
LEMMA SubSeqOfAppend ==
  ASSUME NEW S, NEW s \in Seq(S), NEW x \in S, NEW k \in 1 .. Len(s) + 1
  PROVE  SubSeq(Append(s, x), k, Len(s) + 1) = SubSeq(s, k, Len(s)) \o <<x>>
  <1> DEFINE n == Len(s)
             u == Append(s, x)
             a == SubSeq(u, k, n)
             b == SubSeq(s, k, n)
             m == IF k <= n THEN n - k + 1 ELSE 0
  <1>1. n \in Nat /\ k \in Int
    BY LenProperties
  <1>2. /\ u \in Seq(S) /\ Len(u) = n + 1 /\ u[n + 1] = x
        /\ \A i \in 1 .. n : u[i] = s[i]
    BY AppendProperties
  <1>3. \A i \in k .. n : s[i] \in S /\ u[i] \in S
    BY <1>1, <1>2, ElementOfSeq
  <1> HIDE DEF n, u
  <1>4. a \in Seq(S) /\ Len(a) = m /\ \A i \in 1 .. n - k + 1 : a[i] = u[k + i - 1]
    BY <1>1, <1>3, SubSeqProperties
  <1>5. b \in Seq(S) /\ Len(b) = m /\ \A i \in 1 .. n - k + 1 : b[i] = s[k + i - 1]
    BY <1>1, <1>3, SubSeqProperties
  <1>6. \A i \in 1 .. m : i \in 1 .. n - k + 1 /\ k + i - 1 \in 1 .. n
    BY <1>1
  <1> HIDE DEF a, b, m
  <1>7. a = b
    BY <1>2, <1>4, <1>5, <1>6, SeqEqual
  <1>8. k \in 1 .. Len(u) /\ n + 1 \in k .. Len(u)
    BY <1>1, <1>2 DEF n
  <1>9. \A l \in k .. Len(u) : SubSeq(u, k, l) = SubSeq(u, k, l - 1) \o <<u[l]>>
    BY <1>2, <1>8, SubSeqRecursiveSecond
  <1>10. \A l \in k .. Len(u) : l = n + 1 => l - 1 = n
    BY <1>1
  <1>11. \A l \in k .. Len(u) : l = n + 1 => SubSeq(u, k, l) = b \o <<x>>
    BY <1>2, <1>7, <1>9, <1>10 DEF a
  <1>12. QED
    BY <1>8, <1>11 DEF b, u, n

\* Every step keeps what was stored equal to what was written and what is
\* pending.
LEMMA StepNothingLost ==
  ASSUME TypeOK, JobInv, NothingLost, BufferInv', [Next]_outVars
  PROVE  NothingLost'
  <1>1. CASE UNCHANGED <<buf, start, stored, written>>
    BY <1>1 DEF NothingLost, Pending
  <1>2. ASSUME NEW t \in Threads, Store(t) PROVE NothingLost'
    <2>1. CASE put[t] < Len(Text(t))
      <3> DEFINE c == NextByte(t)
                 n == Len(buf)
      <3>1. /\ c \in Byte /\ n \in Nat /\ buf' = Append(buf, c) /\ Len(buf') = n + 1
            /\ stored' = Append(stored, c) /\ UNCHANGED <<start, written>>
            /\ buf' \in Seq(Byte) /\ buf'[n + 1] = c
            /\ \A i \in 1 .. n : buf'[i] = buf[i]
        BY <1>2, <2>1, StoreByte
      <3>2. /\ buf \in Seq(Byte) /\ stored \in Seq(Byte) /\ written \in Seq(Byte)
            /\ start \in 0 .. n
        BY DEF TypeOK
      <3> HIDE DEF c, n
      <3>3. SubSeq(Append(buf, c), start + 1, n + 1) = SubSeq(buf, start + 1, n) \o <<c>>
        <4>1. start + 1 \in 1 .. n + 1
          BY <3>1, <3>2
        <4>2. QED
          BY <3>1, <3>2, <4>1, SubSeqOfAppend DEF n
      <3>5. Pending \in Seq(Byte)
        <4>1. \A i \in start + 1 .. n : buf[i] \in Byte
          BY <3>1, <3>2, ElementOfSeq DEF n
        <4>2. QED
          BY <3>1, <3>2, <4>1, SubSeqProperties DEF Pending, n
      <3>6. Pending' = Pending \o <<c>>
        BY <3>1, <3>3 DEF Pending, n
      <3>7. stored' = stored \o <<c>> /\ <<c>> \in Seq(Byte)
        BY <3>1, <3>2, AppendIsConcat
      <3>8. stored' = written \o (Pending \o <<c>>)
        BY <3>2, <3>5, <3>7, ConcatAssociative, SMTT(30) DEF NothingLost
      <3>9. QED
        BY <3>1, <3>6, <3>8 DEF NothingLost, BufferInv
    <2>2. CASE ~(put[t] < Len(Text(t)))
      BY <1>1, <1>2, <2>2, StoreNothing
    <2>3. QED
      BY <2>1, <2>2
  <1>3. ASSUME NEW t \in Threads, Write(t) PROVE NothingLost'
    <2>1. PICK r \in 1 .. Len(buf) - start :
            /\ written' = written \o SubSeq(buf, start + 1, start + r)
            /\ start' = start + r
      BY <1>3 DEF Write
    <2>2. buf' = buf /\ stored' = stored
      BY <1>3 DEF Write
    <2> DEFINE n == Len(buf)
    <2>3. /\ n \in Nat /\ buf \in Seq(Byte) /\ written \in Seq(Byte)
          /\ start + 1 \in 1 .. n + 1 /\ start + r \in start + 1 - 1 .. n
          /\ n \in start + r .. n
      BY <2>1, LenProperties DEF TypeOK
    <2> DEFINE a == SubSeq(buf, start + 1, start + r)
               b == SubSeq(buf, start + r + 1, n)
    <2>4. a \o b = SubSeq(buf, start + 1, n)
      <3> DEFINE m == start + 1
                 k == start + r
      <3>1. /\ buf \in Seq(Byte) /\ m \in 1 .. Len(buf) + 1
            /\ k \in m - 1 .. Len(buf) /\ n \in k .. Len(buf)
        <4>1. buf \in Seq(Byte) /\ n = Len(buf) /\ n \in Nat /\ start \in 0 .. n
          BY <2>3 DEF TypeOK
        <4>2. r \in 1 .. n - start
          BY <2>1
        <4> HIDE DEF n
        <4>3. QED
          BY <4>1, <4>2
      <3> HIDE DEF m, k, n
      <3>2. SubSeq(buf, m, k) \o SubSeq(buf, k + 1, n) = SubSeq(buf, m, n)
        BY <3>1, ConcatAdjacentSubSeq
      <3>3. QED
        BY <3>2 DEF m, k
    <2>5. a \in Seq(Byte) /\ b \in Seq(Byte)
      <3>1. /\ \A i \in start + 1 .. start + r : buf[i] \in Byte
            /\ \A i \in start + r + 1 .. n : buf[i] \in Byte
        BY <2>1, <2>3, ElementOfSeq DEF TypeOK
      <3>2. start + 1 \in Int /\ start + r \in Int /\ start + r + 1 \in Int
        BY <2>1 DEF TypeOK
      <3>3. QED
        BY <2>3, <3>1, <3>2, SubSeqProperties
    <2>6. Pending' = b
      BY <2>1, <2>2 DEF Pending
    <2>7. written' = written \o a /\ Pending = a \o b
      BY <2>1, <2>4 DEF Pending
    <2> HIDE DEF a, b, n
    <2>8. (written \o a) \o b = written \o (a \o b)
      <3>1. written \in Seq(Byte)
        BY <2>3
      <3>2. QED
        BY <2>5, <3>1, ConcatAssociative, SMTT(30)
    <2>9. QED
      BY <2>2, <2>6, <2>7, <2>8 DEF NothingLost
  <1>4. ASSUME NEW t \in Threads, Flushed(t) PROVE NothingLost'
    <2>1. /\ start >= Len(buf) /\ buf' = <<>> /\ start' = 0
          /\ UNCHANGED <<stored, written>>
      BY <1>4 DEF Flushed
    <2>2. Len(buf) \in Nat /\ start \in Nat /\ Len(buf') = 0
      BY <2>1, EmptySeq, LenProperties DEF TypeOK
    <2>3. Pending = <<>>
      BY <2>1, <2>2, SubSeqEmpty DEF Pending
    <2>4. Pending' = <<>>
      BY <2>1, <2>2, SubSeqEmpty DEF Pending
    <2>5. QED
      BY <2>1, <2>3, <2>4 DEF NothingLost, BufferInv
  <1>5. ASSUME NEW t \in Threads, ~Store(t), ~Write(t), ~Flushed(t),
               Run(t) \/ \E j \in Jobs : Call(t, j)
        PROVE  UNCHANGED <<buf, start, stored, written>>
    BY <1>5 DEF Run, Call, Lock, Put, WriteError, NextPiece, Returned, Unlock, file
  <1>6. QED
    BY <1>1, <1>2, <1>3, <1>4, <1>5 DEF Next, outVars

-----------------------------------------------------------------------------
\* Nobody is inside and nothing is stored when the program starts.
LEMMA InitInv == Init => OutInv
  <1> SUFFICES ASSUME Init PROVE OutInv
    OBVIOUS
  <1>1. /\ \A t \in Threads : pc[t] = "idle" /\ ~Inside(t)
        /\ buf = <<>> /\ stored = <<>> /\ written = <<>> /\ start = 0 /\ Len(<<>>) = 0
    BY EmptySeq DEF Init, Inside
  <1>2. TypeOK
    <2>1. /\ pc \in [Threads -> Places] /\ job \in [Threads -> Jobs \cup {NoJob}]
          /\ DOMAIN ret = Threads
      BY DEF Init, Places
    <2>2. /\ part \in [Threads -> Nat \ {0}] /\ put \in [Threads -> Nat]
          /\ call \in [Threads -> Nat] /\ calls \in Nat
      BY DEF Init
    <2>3. buf \in Seq(Byte) /\ stored \in Seq(Byte) /\ written \in Seq(Byte)
      BY <1>1, EmptySeq
    <2>4. start \in 0 .. Len(buf)
      BY <1>1
    <2>5. lock \in SUBSET Threads /\ failed \in BOOLEAN
      BY DEF Init
    <2>6. QED
      BY <2>1, <2>2, <2>3, <2>4, <2>5 DEF TypeOK
  <1>3. LockInv /\ JobInv /\ CountInv
    BY <1>1 DEF Init, LockInv, JobInv, CountInv
  <1>4. BufferInv /\ CallInv /\ LinesInv /\ CallsContiguous
    BY <1>1, OutAssumption DEF BufferInv, CallInv, LinesInv, CallsContiguous
  <1>5. NothingLost
    <2>1. Pending = <<>>
      BY <1>1, SubSeqEmpty DEF Pending
    <2>2. <<>> \o <<>> = <<>>
      BY EmptySeq, ConcatEmptySeq
    <2>3. QED
      BY <1>1, <2>1, <2>2, OutAssumption DEF NothingLost
  <1>6. QED
    BY <1>2, <1>3, <1>4, <1>5 DEF OutInv

\* The invariant holds throughout.
THEOREM OutFileInvariant == Spec => []OutInv
  <1>1. ASSUME OutInv, [Next]_outVars PROVE OutInv'
    BY <1>1, StepTypeOK, StepLockInv, StepJobInv, StepBufferInv, StepCallInv,
       StepContiguous, StepCountInv, StepLinesInv, StepNothingLost DEF OutInv
  <1>2. QED
    BY <1>1, InitInv, PTL DEF Spec

\* No byte is lost, repeated or overtaken between the buffer and the
\* descriptor, and the buffer is never overrun, whatever the size of the
\* buffer, the writes and the failures.
THEOREM OutNothingIsLost == Spec => []NothingLost
  BY OutFileInvariant, PTL DEF OutInv

\* The bytes of a call stay together, whatever other threads print.
THEOREM OutCallsContiguous == Spec => []CallsContiguous
  BY OutFileInvariant, PTL DEF OutInv

\* fputc, fwrite, fputs and write_fmt report what was stored.
THEOREM OutResultsAreTrue == Spec => []ResultsAreTrue
  <1>1. OutInv => ResultsAreTrue
    <2> SUFFICES ASSUME OutInv, NEW t \in Threads, pc[t] = "unlock" PROVE
          CASE job[t].op = "fputc"  -> (ret[t] = EOF) <=> (Kept(t) = {})
            [] job[t].op = "fwrite" -> ret[t] = Cardinality(Kept(t)) \div job[t].size
            [] job[t].op = "fputs"  ->
                 ret[t] # EOF =>
                   \E i \in Kept(t) : /\ stored[i].char = "newline"
                                     /\ \A k \in Kept(t) : k <= i
            [] job[t].op = "write_fmt" -> failed \/ Cardinality(Kept(t)) = Len(Text(t))
            [] OTHER -> TRUE
      BY DEF ResultsAreTrue
    <2>1. /\ job[t] \in Jobs /\ put[t] \in Nat
          /\ job[t].op # "fflush" =>
               part[t] \in 1 .. Len(job[t].text) /\ put[t] <= Len(Text(t))
      BY DEF OutInv, TypeOK, JobInv, JobOK
    <2>2. job[t].op # "fflush" => CountOK(t)
      BY DEF OutInv, CountInv, Inside
    <2>3. CASE job[t].op = "fputc"
      <3>1. Cardinality(Kept(t)) = put[t] /\ IsFiniteSet(Kept(t)) /\ ret[t] = Result(t)
        BY <2>2, <2>3 DEF CountOK
      <3>2. (Kept(t) = {}) <=> put[t] = 0
        BY <3>1, FS_EmptySet
      <3>3. (ret[t] = EOF) <=> put[t] = 0
        BY <2>3, <3>1 DEF Result, EOF
      <3>4. QED
        BY <2>3, <3>2, <3>3
    <2>4. CASE job[t].op = "fwrite"
      <3>1. Cardinality(Kept(t)) = put[t] /\ ret[t] = Result(t)
        BY <2>2, <2>4 DEF CountOK
      <3>2. ret[t] = put[t] \div job[t].size
        BY <2>4, <3>1 DEF Result
      <3>3. QED
        BY <2>4, <3>1, <3>2
    <2>5. CASE job[t].op = "fputs"
      <3> SUFFICES ASSUME ret[t] # EOF
                   PROVE  \E i \in Kept(t) : /\ stored[i].char = "newline"
                                            /\ \A k \in Kept(t) : k <= i
        BY <2>5
      <3>1. ret[t] = Result(t) /\ ~GoesOn(t)
        BY <2>2, <2>5 DEF CountOK
      <3>2. put[t] > 0
        BY <2>1, <2>5, <3>1 DEF Result
      <3>3. Len(job[t].text) = 2 /\ job[t].text[2] = <<"newline">>
        BY <2>1, <2>5, TextAssumption
      <3>4. part[t] = 2
        BY <2>1, <2>5, <3>1, <3>2, <3>3 DEF GoesOn
      <3>5. Text(t) = <<"newline">> /\ put[t] = 1
        <4>1. Text(t) = <<"newline">>
          BY <3>3, <3>4 DEF Text
        <4>2. put[t] <= 1 /\ put[t] \in Nat
          BY <2>1, <2>5, <4>1
        <4>3. QED
          BY <3>2, <4>1, <4>2
      <3>6. Len(stored) \in Kept(t) /\ stored[Len(stored)].char = "newline"
        BY <2>2, <2>5, <3>2, <3>5 DEF CountOK
      <3>7. \A k \in Kept(t) : k <= Len(stored)
        BY LenProperties DEF Kept, OutInv, TypeOK
      <3>8. QED
        BY <3>6, <3>7
    <2>6. CASE job[t].op = "write_fmt"
      BY <2>2, <2>6 DEF CountOK
    <2>7. QED
      BY <2>3, <2>4, <2>5, <2>6
  <1>2. QED
    BY <1>1, OutFileInvariant, PTL

\* Between calls no complete line and no full buffer waits, unless the last
\* flush failed.
THEOREM OutLinesAreOut == Spec => []LinesAreOut
  <1>1. OutInv => LinesAreOut
    <2> SUFFICES ASSUME OutInv, lock = {}, ~failed PROVE LinesAreOut
      BY DEF LinesAreOut
    <2>1. \A t \in Threads : pc[t] # "flush"
      BY DEF OutInv, LockInv, Inside
    <2>2. /\ \A i \in start + 1 .. Len(buf) : buf[i].char # "newline"
          /\ Len(buf) < Size
      BY <2>1 DEF OutInv, LinesInv
    <2>3. Len(buf) \in Nat /\ start \in 0 .. Len(buf) /\ buf \in Seq(Byte)
      BY LenProperties DEF OutInv, TypeOK
    <2>4. \A i \in start + 1 .. Len(buf) : buf[i] \in Byte
      BY <2>3, ElementOfSeq
    <2>5. /\ Len(Pending) = IF start + 1 <= Len(buf) THEN Len(buf) - (start + 1) + 1 ELSE 0
          /\ \A i \in 1 .. Len(buf) - (start + 1) + 1 :
               Pending[i] = buf[start + 1 + i - 1]
      BY <2>3, <2>4, SubSeqProperties DEF Pending
    <2>6. ASSUME NEW i \in 1 .. Len(Pending) PROVE Pending[i].char # "newline"
      <3>1. /\ i \in 1 .. Len(buf) - (start + 1) + 1
            /\ start + 1 + i - 1 \in start + 1 .. Len(buf)
        BY <2>3, <2>5
      <3>2. QED
        BY <2>2, <2>5, <3>1
    <2>7. QED
      BY <2>2, <2>6 DEF LinesAreOut
  <1>2. QED
    BY <1>1, OutFileInvariant, PTL
=============================================================================
