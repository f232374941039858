------------------------------ MODULE OutFile -------------------------------
(***************************************************************************)
(* The output half of a FILE (libc/src/stdio.c): threads put bytes into    *)
(* its buffer, and write moves them to the file descriptor.                *)
(*                                                                         *)
(* Every operation is a sequence of runs of fputbuf_unlocked under         *)
(* out.mutex: one for fputc and fwrite, two for fputs (the string, then    *)
(* "\n"), one for each character of printf, the terminating NUL included;  *)
(* fflush has none.  write_fmt, which print! and println! of the Rust      *)
(* bindings (crates/tiny-libc/src/io.rs) call, is a fwrite for every piece *)
(* of the text, and lets the mutex go in between.  A job names an          *)
(* operation and the strings it puts.                                      *)
(* The mutex is the lock of module AbstractLock.  pc[t] is                 *)
(*                                                                         *)
(*   "idle"      outside the library                                       *)
(*   "lock"      about to take out.mutex                                   *)
(*   "put"       at the start of fputbuf_unlocked                          *)
(*   "loop"      in its loop, put[t] bytes stored                          *)
(*   "flush"     in fflush_unlocked                                        *)
(*   "returned"  fputbuf_unlocked, or the fflush of fflush, has returned   *)
(*   "unlock"    about to release out.mutex and return ret[t]              *)
(*                                                                         *)
(* fputbuf_unlocked returns the number of bytes it stored on each of its   *)
(* three exits (0, i + 1 and n), so put[t] is also its result.             *)
(***************************************************************************)
EXTENDS Integers, FiniteSets, SequencesExt

CONSTANTS
  Threads,
  Size,        \* of the buffer: 1024 in the code
  Jobs,        \* what threads may ask for
  WriteFails,  \* can write return an error?
  MaxCalls     \* bound on the calls of all threads

Ops == {"fputc", "fputs", "fwrite", "printf", "fflush", "write_fmt"}
Chars == {"a", "newline", "NUL"}

ASSUME OutAssumption ==
  /\ Size \in Nat \ {0} /\ MaxCalls \in Nat /\ WriteFails \in BOOLEAN
  /\ Jobs \subseteq [op : Ops, size : Nat \ {0}, text : Seq(Seq(Chars))]

\* The strings an operation puts, as above.
ASSUME TextAssumption ==
  \A j \in Jobs :
    CASE j.op = "fputc"  -> Len(j.text) = 1 /\ Len(j.text[1]) = 1
      [] j.op = "fputs"  -> Len(j.text) = 2 /\ j.text[2] = <<"newline">>
      [] j.op = "fwrite" -> Len(j.text) = 1
      [] j.op = "fflush" -> j.text = <<>>
      [] OTHER           -> j.text # <<>>

EOF == -1

VARIABLES
  buf,      \* the bytes from allocated.start to used.end
  start,    \* used.start - allocated.start
  lock,     \* the owners of out.mutex
  failed,   \* did the last fflush_unlocked return EOF?
  pc, job,  \* where each thread stands, in which call
  part,     \* the string of the job it is putting
  put,      \* the bytes of that string stored so far
  ret,      \* the result
  calls,    \* the calls made so far, pieces counted; call[t] is the number of t's
  call,
  stored,   \* history: every byte stored in the buffer, with its call
  written   \* history: every byte the file descriptor took

outVars == <<buf, start, lock, failed, pc, job, part, put, ret, calls, call,
             stored, written>>

NoJob == [op |-> "fflush", size |-> 1, text |-> <<>>]

Init ==
  /\ buf = <<>> /\ start = 0
  /\ lock = {}
  /\ failed = FALSE
  /\ pc = [t \in Threads |-> "idle"]
  /\ job = [t \in Threads |-> NoJob]
  /\ part = [t \in Threads |-> 1]
  /\ put = [t \in Threads |-> 0]
  /\ ret = [t \in Threads |-> 0]
  /\ calls = 0
  /\ call = [t \in Threads |-> 0]
  /\ stored = <<>> /\ written = <<>>

Goto(t, l) == pc' = [pc EXCEPT ![t] = l]

Text(t) == job[t].text[part[t]]

\* used: what is stored and not yet written.
Pending == SubSeq(buf, start + 1, Len(buf))

file == <<buf, start, failed, stored, written>>
locals == <<job, calls, call>>

-----------------------------------------------------------------------------

Call(t, j) ==
  /\ pc[t] = "idle"
  /\ calls < MaxCalls
  /\ calls' = calls + 1
  /\ call' = [call EXCEPT ![t] = calls + 1]
  /\ job' = [job EXCEPT ![t] = j]
  /\ part' = [part EXCEPT ![t] = 1]
  /\ put' = [put EXCEPT ![t] = 0]
  /\ Goto(t, "lock")
  /\ UNCHANGED <<file, lock, ret>>

\* Faulty: an operation that forgets the mutex.
Barge(t) ==
  /\ pc[t] = "lock"
  /\ Goto(t, IF job[t].op = "fflush" THEN "flush" ELSE "put")
  /\ UNCHANGED <<file, locals, lock, part, put, ret>>

Lock(t) ==
  /\ pc[t] = "lock"
  /\ lock = {}
  /\ lock' = {t}
  /\ Goto(t, IF job[t].op = "fflush" THEN "flush" ELSE "put")
  /\ UNCHANGED <<file, locals, part, put, ret>>

\* A buffer that an earlier flush left full is flushed first.
Put(t) ==
  /\ pc[t] = "put"
  /\ Goto(t, IF Len(buf) >= Size THEN "flush" ELSE "loop")
  /\ UNCHANGED <<file, locals, lock, part, put, ret>>

\* Faulty: a newline does not flush.
StoreOnly(t) ==
  /\ pc[t] = "loop"
  /\ IF put[t] < Len(Text(t))
       THEN LET c == [call |-> call[t], char |-> Text(t)[put[t] + 1]] IN
            /\ buf' = Append(buf, c)
            /\ stored' = Append(stored, c)
            /\ put' = [put EXCEPT ![t] = @ + 1]
            /\ Goto(t, IF Len(buf) + 1 >= Size THEN "flush" ELSE "loop")
       ELSE Goto(t, "returned") /\ UNCHANGED <<buf, stored, put>>
  /\ UNCHANGED <<start, failed, written, locals, lock, part, ret>>

\* The next byte of the string; a newline or the end of the buffer flushes.
Store(t) ==
  /\ pc[t] = "loop"
  /\ IF put[t] < Len(Text(t))
       THEN LET c == [call |-> call[t], char |-> Text(t)[put[t] + 1]] IN
            /\ buf' = Append(buf, c)
            /\ stored' = Append(stored, c)
            /\ put' = [put EXCEPT ![t] = @ + 1]
            /\ Goto(t, IF c.char = "newline" \/ Len(buf) + 1 >= Size
                         THEN "flush" ELSE "loop")
       ELSE Goto(t, "returned") /\ UNCHANGED <<buf, stored, put>>
  /\ UNCHANGED <<start, failed, written, locals, lock, part, ret>>

\* Faulty: a short write is taken for a whole one.
WriteAll(t) ==
  /\ pc[t] = "flush" /\ start < Len(buf)
  /\ \E r \in 1 .. Len(buf) - start :
       /\ written' = written \o SubSeq(buf, start + 1, start + r)
       /\ start' = Len(buf)
  /\ UNCHANGED <<buf, stored, failed, pc, locals, lock, part, put, ret>>

\* write takes some of the bytes.
Write(t) ==
  /\ pc[t] = "flush" /\ start < Len(buf)
  /\ \E r \in 1 .. Len(buf) - start :
       /\ written' = written \o SubSeq(buf, start + 1, start + r)
       /\ start' = start + r
  /\ UNCHANGED <<buf, stored, failed, pc, locals, lock, part, put, ret>>

\* Faulty: the byte whose flush failed is not counted.
WriteErrorUncounted(t) ==
  /\ WriteFails
  /\ pc[t] = "flush" /\ start < Len(buf)
  /\ failed' = TRUE
  /\ put' = [put EXCEPT ![t] = IF @ = 0 THEN 0 ELSE @ - 1]
  /\ Goto(t, "returned")
  /\ UNCHANGED <<buf, start, stored, written, locals, lock, part, ret>>

\* write fails: fflush_unlocked returns EOF and fputbuf_unlocked with it.
WriteError(t) ==
  /\ WriteFails
  /\ pc[t] = "flush" /\ start < Len(buf)
  /\ failed' = TRUE
  /\ Goto(t, "returned")
  /\ UNCHANGED <<buf, start, stored, written, locals, lock, part, put, ret>>

\* Everything is written: the buffer is empty again.
Flushed(t) ==
  /\ pc[t] = "flush" /\ start >= Len(buf)
  /\ buf' = <<>> /\ start' = 0
  /\ failed' = FALSE
  /\ Goto(t, IF job[t].op = "fflush" THEN "returned" ELSE "loop")
  /\ UNCHANGED <<stored, written, locals, lock, part, put, ret>>

\* Does the operation go on to its next string?  fputs stops at a string of
\* which nothing was stored; printf ignores the results.
GoesOn(t) ==
  /\ part[t] < Len(job[t].text)
  /\ job[t].op = "fputs" => put[t] > 0

\* What the operation returns, given what its last put did.
Result(t) ==
  LET j == job[t] IN
  CASE j.op = "fputc"  -> IF put[t] = 0 THEN EOF ELSE 1
    [] j.op = "fputs"  -> IF put[t] = 0 THEN EOF ELSE Len(j.text[1]) + 1
    [] j.op = "fwrite" -> put[t] \div j.size
    [] j.op = "printf" -> Len(j.text) - 1
    [] j.op = "fflush" -> IF failed THEN EOF ELSE 0
    [] j.op = "write_fmt" -> 0   \* Ok(())

\* write_str returns Ok however many bytes fwrite took, and the next piece
\* follows.
NextPiece(t) ==
  /\ pc[t] = "returned" /\ job[t].op = "write_fmt" /\ GoesOn(t)
  /\ lock' = lock \ {t}
  /\ calls' = calls + 1
  /\ call' = [call EXCEPT ![t] = calls + 1]
  /\ part' = [part EXCEPT ![t] = @ + 1]
  /\ put' = [put EXCEPT ![t] = 0]
  /\ Goto(t, "lock")
  /\ UNCHANGED <<file, job, ret>>

Returned(t) ==
  /\ pc[t] = "returned" /\ ~(job[t].op = "write_fmt" /\ GoesOn(t))
  /\ IF GoesOn(t)
       THEN /\ part' = [part EXCEPT ![t] = @ + 1]
            /\ put' = [put EXCEPT ![t] = 0]
            /\ Goto(t, "put")
            /\ UNCHANGED ret
       ELSE /\ ret' = [ret EXCEPT ![t] = Result(t)]
            /\ Goto(t, "unlock")
            /\ UNCHANGED <<part, put>>
  /\ UNCHANGED <<file, locals, lock>>

\* Faulty: a failed operation returns without the unlock.
UnlockOnSuccess(t) ==
  /\ pc[t] = "unlock"
  /\ lock' = IF ret[t] = EOF THEN lock ELSE lock \ {t}
  /\ Goto(t, "idle")
  /\ UNCHANGED <<file, locals, part, put, ret>>

Unlock(t) ==
  /\ pc[t] = "unlock"
  /\ lock' = lock \ {t}
  /\ Goto(t, "idle")
  /\ UNCHANGED <<file, locals, part, put, ret>>

Run(t) ==
  \/ Lock(t) \/ Put(t) \/ Store(t) \/ Write(t) \/ WriteError(t) \/ Flushed(t)
  \/ NextPiece(t) \/ Returned(t) \/ Unlock(t)

Next == \E t \in Threads : Run(t) \/ \E j \in Jobs : Call(t, j)

Spec == Init /\ [][Next]_outVars

\* Threads in the library are scheduled; write returns a positive number or
\* an error.
FairSpec == Spec /\ \A t \in Threads : WF_outVars(Run(t))

-----------------------------------------------------------------------------
(* Properties.                                                             *)

\* What was stored reaches the descriptor in order, without a loss, a
\* repetition or a gap, through short writes and failures: it is always what
\* was written followed by what is pending, and a flush that failed and left
\* the buffer full lets nothing be stored behind its end.
NothingLost == stored = written \o Pending /\ Len(buf) <= Size

\* The bytes of one call, a piece of write_fmt being one, are contiguous in the
\* output, whatever other threads print meanwhile.
CallsContiguous ==
  \A i, k \in 1 .. Len(stored) : \A j \in i .. k :
    stored[i].call = stored[k].call => stored[j].call = stored[i].call

\* Where the bytes that the call of thread t stored are.
Kept(t) == {i \in 1 .. Len(stored) : stored[i].call = call[t]}

\* The result tells what was stored: fputc returns EOF exactly when its byte
\* was not, fwrite counts the elements that were, and a line that fputs claims
\* to have put does end with the newline.  (fputs may still have truncated the
\* string in front of that newline.)  write_fmt always returns Ok: its text is
\* whole up to a piece during which a flush failed.
ResultsAreTrue ==
  \A t \in Threads : pc[t] = "unlock" =>
    CASE job[t].op = "fputc"  -> (ret[t] = EOF) <=> (Kept(t) = {})
      [] job[t].op = "fwrite" -> ret[t] = Cardinality(Kept(t)) \div job[t].size
      [] job[t].op = "fputs"  ->
           ret[t] # EOF =>
             \E i \in Kept(t) : /\ stored[i].char = "newline"
                               /\ \A k \in Kept(t) : k <= i
      [] job[t].op = "write_fmt" -> failed \/ Cardinality(Kept(t)) = Len(Text(t))
      [] OTHER -> TRUE

\* Between calls a complete line is never left in the buffer, nor a full
\* buffer, unless the last flush failed.
LinesAreOut ==
  lock = {} /\ ~failed =>
    /\ \A i \in 1 .. Len(Pending) : Pending[i].char # "newline"
    /\ Len(buf) < Size

\* Every call returns, also when writes fail or are short.
EveryCallReturns == \A t \in Threads : pc[t] = "lock" ~> pc[t] = "idle"
=============================================================================
