------------------------------- MODULE InFile -------------------------------
(***************************************************************************)
(* The input half of a FILE (libc/src/stdio.c): read fills its buffer, and *)
(* threads take bytes out of it under in.mutex, with fgetc (a request for  *)
(* one byte), fread, and Stdin::read_line of the Rust bindings             *)
(* (crates/tiny-libc/src/io.rs), which calls fread until a line ends.      *)
(*                                                                         *)
(* The source is the bytes the descriptor will deliver; a byte is the      *)
(* number of its place in it, Newlines are the places of newlines, and     *)
(* Trailing those of the second bytes of UTF-8 characters.  reading[t] is  *)
(*                                                                         *)
(*   "idle"    outside the library                                         *)
(*   "lock"    about to take in.mutex                                      *)
(*   "get"     at the start of fgetbuf_unlocked                            *)
(*   "loop"    in its loop                                                 *)
(*   "unlock"  about to release in.mutex and return                        *)
(***************************************************************************)
EXTENDS Integers, FiniteSets, SequencesExt

CONSTANTS
  Readers,      \* the threads
  InSize,       \* of the buffer: 1024 in the code
  SourceLength,
  Newlines, Trailing,
  Requests,     \* the numbers of bytes a call may ask for
  LineRequest,  \* the number that read_line asks for: 1024
  ReadFails,    \* can read return an error, or 0 before the end of the source?
  MaxReads      \* bound on the calls of all threads

ASSUME InAssumption ==
  /\ InSize \in Nat \ {0} /\ SourceLength \in Nat /\ MaxReads \in Nat
  /\ Newlines \subseteq 1 .. SourceLength
  /\ Trailing \subseteq 2 .. SourceLength
  /\ Requests \subseteq Nat /\ LineRequest \in Nat \ {0}
  /\ ReadFails \in BOOLEAN

EIO == -5

VARIABLES
  inBuf,      \* the bytes from allocated.start to used.end
  inStart,    \* used.start - allocated.start
  delivered,  \* how many bytes of the source read has delivered
  inLock,     \* the owners of in.mutex
  reading,    \* where each thread stands
  want, got,  \* what its fgetc or fread asks for, and the bytes taken so far
  inLine,     \* is it called by read_line?
  line,       \* the bytes that read_line has from earlier calls
  lineResult, \* what read_line returned last, a length or -errno
  reads,      \* the number of calls made so far
  taken       \* history: every byte taken, by any call

inFile == <<inBuf, inStart, delivered, taken>>
lineVars == <<inLine, line, lineResult>>
inVars == <<inFile, inLock, reading, want, got, lineVars, reads>>

InInit ==
  /\ inBuf = <<>> /\ inStart = 0
  /\ delivered = 0
  /\ inLock = {}
  /\ reading = [t \in Readers |-> "idle"]
  /\ want = [t \in Readers |-> 0]
  /\ got = [t \in Readers |-> <<>>]
  /\ inLine = [t \in Readers |-> FALSE]
  /\ line = [t \in Readers |-> <<>>]
  /\ lineResult = [t \in Readers |-> 0]
  /\ reads = 0
  /\ taken = <<>>

ReaderTo(t, l) == reading' = [reading EXCEPT ![t] = l]

\* used: what was read and not yet taken.
Unread == SubSeq(inBuf, inStart + 1, Len(inBuf))

-----------------------------------------------------------------------------

\* fgetc or fread, from read_line or not.
StartReading(t, n, l) ==
  /\ reading[t] = "idle"
  /\ reads < MaxReads
  /\ reads' = reads + 1
  /\ want' = [want EXCEPT ![t] = n]
  /\ got' = [got EXCEPT ![t] = <<>>]
  /\ inLine' = [inLine EXCEPT ![t] = l]
  /\ line' = [line EXCEPT ![t] = <<>>]
  /\ ReaderTo(t, "lock")
  /\ UNCHANGED <<inFile, inLock, lineResult>>

ReadBytes(t) == \E n \in Requests : StartReading(t, n, FALSE)
ReadLine(t) == StartReading(t, LineRequest, TRUE)

LockIn(t) ==
  /\ reading[t] = "lock"
  /\ inLock = {}
  /\ inLock' = {t}
  /\ ReaderTo(t, "get")
  /\ UNCHANGED <<inFile, want, got, lineVars, reads>>

\* Bytes are left from an earlier read.
Buffered(t) ==
  /\ reading[t] = "get"
  /\ inStart # Len(inBuf)
  /\ ReaderTo(t, "loop")
  /\ UNCHANGED <<inFile, inLock, want, got, lineVars, reads>>

\* How many bytes read may deliver.
Deliverable ==
  1 .. IF SourceLength - delivered < InSize THEN SourceLength - delivered ELSE InSize

\* Faulty: a read shorter than the request counts as no read.
FillShort(t) ==
  /\ reading[t] = "get"
  /\ inStart = Len(inBuf)
  /\ \E r \in Deliverable :
       /\ inBuf' = [k \in 1 .. r |-> delivered + k]
       /\ delivered' = delivered + r
       /\ ReaderTo(t, IF r < want[t] THEN "unlock" ELSE "loop")
  /\ inStart' = 0
  /\ UNCHANGED <<inLock, want, got, lineVars, reads, taken>>

\* The buffer is used up: read fills it again, from its start.
Fill(t) ==
  /\ reading[t] = "get"
  /\ inStart = Len(inBuf)
  /\ \E r \in Deliverable :
       /\ inBuf' = [k \in 1 .. r |-> delivered + k]
       /\ delivered' = delivered + r
  /\ inStart' = 0
  /\ ReaderTo(t, "loop")
  /\ UNCHANGED <<inLock, want, got, lineVars, reads, taken>>

\* read returns 0 at the end of the source, or an error: nothing is returned.
FillNothing(t) ==
  /\ reading[t] = "get"
  /\ inStart = Len(inBuf)
  /\ delivered = SourceLength \/ ReadFails
  /\ inBuf' = <<>> /\ inStart' = 0
  /\ ReaderTo(t, "unlock")
  /\ UNCHANGED <<delivered, inLock, want, got, lineVars, reads, taken>>

\* One byte moves to the caller.
TakeByte(t) ==
  LET c == inBuf[inStart + 1] IN
  /\ got' = [got EXCEPT ![t] = Append(@, c)]
  /\ taken' = Append(taken, c)

\* Faulty: a newline uses up the whole buffer.
TakeLast(t) ==
  /\ reading[t] = "loop"
  /\ IF Len(got[t]) < want[t]
       THEN /\ TakeByte(t)
            /\ inStart' = IF inBuf[inStart + 1] \in Newlines THEN Len(inBuf)
                                                             ELSE inStart + 1
            /\ ReaderTo(t, IF inStart' = Len(inBuf) THEN "unlock" ELSE "loop")
       ELSE ReaderTo(t, "unlock") /\ UNCHANGED <<got, taken, inStart>>
  /\ UNCHANGED <<inBuf, delivered, inLock, want, lineVars, reads>>

\* Faulty: goes on after the newline.
TakePastNewline(t) ==
  /\ reading[t] = "loop"
  /\ IF Len(got[t]) < want[t]
       THEN /\ TakeByte(t)
            /\ inStart' = inStart + 1
            /\ ReaderTo(t, IF inStart + 1 = Len(inBuf) THEN "unlock" ELSE "loop")
       ELSE ReaderTo(t, "unlock") /\ UNCHANGED <<got, taken, inStart>>
  /\ UNCHANGED <<inBuf, delivered, inLock, want, lineVars, reads>>

\* The next byte; a newline or the end of the buffer ends the call early.
Take(t) ==
  /\ reading[t] = "loop"
  /\ IF Len(got[t]) < want[t]
       THEN /\ TakeByte(t)
            /\ inStart' = inStart + 1
            /\ ReaderTo(t, IF \/ inBuf[inStart + 1] \in Newlines
                              \/ inStart + 1 = Len(inBuf)
                             THEN "unlock" ELSE "loop")
       ELSE ReaderTo(t, "unlock") /\ UNCHANGED <<got, taken, inStart>>
  /\ UNCHANGED <<inBuf, delivered, inLock, want, lineVars, reads>>

UnlockIn(t) ==
  /\ reading[t] = "unlock" /\ ~inLine[t]
  /\ inLock' = inLock \ {t}
  /\ ReaderTo(t, "idle")
  /\ UNCHANGED <<inFile, want, got, lineVars, reads>>

LineEnds(bytes) == bytes = <<>> \/ Last(bytes) \in Newlines

\* No character is cut: a second byte follows its first one.
from_utf8(bytes) ==
  \A k \in 1 .. Len(bytes) :
    /\ bytes[k] \in Trailing => k > 1 /\ bytes[k - 1] = bytes[k] - 1
    /\ bytes[k] + 1 \in Trailing => k < Len(bytes) /\ bytes[k + 1] = bytes[k] + 1

\* fread returns to read_line, which calls it again unless the line has ended;
\* the lock is free in between.
UnlockLine(t) ==
  /\ reading[t] = "unlock" /\ inLine[t]
  /\ inLock' = inLock \ {t}
  /\ line' = [line EXCEPT ![t] = @ \o got[t]]
  /\ IF LineEnds(got[t])
       THEN /\ lineResult' = [lineResult EXCEPT ![t] =
                                IF from_utf8(line'[t]) THEN Len(line'[t]) ELSE EIO]
            /\ ReaderTo(t, "idle")
            /\ UNCHANGED got
       ELSE /\ got' = [got EXCEPT ![t] = <<>>]
            /\ ReaderTo(t, "lock")
            /\ UNCHANGED lineResult
  /\ UNCHANGED <<inFile, want, inLine, reads>>

ReaderRun(t) ==
  \/ LockIn(t) \/ Buffered(t) \/ Fill(t) \/ FillNothing(t) \/ Take(t)
  \/ UnlockIn(t) \/ UnlockLine(t)

InNext == \E t \in Readers : ReaderRun(t) \/ ReadBytes(t) \/ ReadLine(t)

InSpec == InInit /\ [][InNext]_inVars

-----------------------------------------------------------------------------
(* Properties.                                                             *)

\* Every byte read delivered is taken once and in order, whichever threads
\* take them, through short reads, failed reads and refills: what was taken,
\* followed by what is pending, is the source so far.
NothingLost == taken \o Unread = [k \in 1 .. delivered |-> k]

\* The bytes that fgetc or fread takes are consecutive bytes of the source, and
\* a newline can only be the last of them.  Those of read_line, which other
\* readers may split, are in order and of one line; it returns Ok or EIO only at
\* a newline or after an empty read, and a line nobody split is cut inside no
\* character, unless an earlier call or an empty read cut it.
CallsTakeLines ==
  \A t \in Readers :
    LET all == line[t] \o got[t] IN
    /\ \A k \in 1 .. Len(got[t]) - 1 :
         got[t][k] \notin Newlines /\ got[t][k + 1] = got[t][k] + 1
    /\ inLine[t] /\ reading[t] # "idle" =>
         \A k \in 1 .. Len(all) - 1 : all[k] \notin Newlines /\ all[k] < all[k + 1]
    /\ inLine[t] /\ reading[t] = "idle" =>
         LET l == line[t] IN
         /\ l # <<>> => \/ Last(l) \in Newlines
                        \/ got[t] = <<>>
         /\ lineResult[t] = EIO =>
              \/ l[1] \in Trailing \/ Last(l) + 1 \in Trailing
              \/ \E k \in 1 .. Len(l) - 1 : l[k + 1] # l[k] + 1
         /\ lineResult[t] # EIO => lineResult[t] = Len(l)

\* A call that asks for bytes returns none only when read had none to give:
\* fgetc returns EOF, and fread 0, never while bytes are pending.
EmptyMeansEmpty ==
  \A t \in Readers :
    reading[t] = "unlock" /\ got[t] = <<>> => want[t] = 0 \/ Unread = <<>>
=============================================================================
