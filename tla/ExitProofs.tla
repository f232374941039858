----------------------------- MODULE ExitProofs -----------------------------
(***************************************************************************)
(* Proofs about Exit for any set of threads and handlers, any tables of    *)
(* constructors and destructors, and whatever user code calls.             *)
(***************************************************************************)
EXTENDS Exit, SequenceTheorems, WellFoundedInduction, TLAPS

\* Everything that can be called, and where a thread can be.
Fns == Range(InitTable) \cup Range(FiniTable) \cup Handlers \cup {Null}

Contexts == {"constructor", "main", "handler", "destructor"}
Places == {"start", "user", "register", "link", "exit", "loop", "final", "end"}

TypeOK ==
  /\ at_exit_list \in Seq(Fns)
  /\ lock \in SUBSET ExitThreads
  /\ ctx \in [ExitThreads -> Contexts]
  /\ place \in [ExitThreads -> Places]
  /\ entry \in [ExitThreads -> Handlers \cup {Null}]
  /\ ctor \in 1 .. Len(InitTable) + 1
  /\ dtor \in 0 .. Len(FiniTable)
  /\ unflushed \in BOOLEAN /\ ended \in BOOLEAN
  /\ registered \in Seq(Fns)
  /\ log \in Seq(Fns)

\* Thread t is in exit and past its lock.
Exiting(t) == place[t] \in {"loop", "final", "end"} \/ ctx[t] \in {"handler", "destructor"}

\* The mutex has one owner, and who links or exits is the one; exit never
\* returns, so the thread that got into it stays the owner.
LockInv ==
  /\ \A t, u \in lock : t = u
  /\ \A t \in ExitThreads : place[t] = "link" \/ Exiting(t) => t \in lock

\* In which user code a thread may stand where, and that _start spawns no
\* thread before main.
PlaceInv ==
  /\ ctx[Main] = "constructor" => \A t \in ExitThreads \ {Main} : place[t] = "start"
  /\ \A t \in ExitThreads :
       /\ t # Main => ctx[t] # "constructor"
       /\ place[t] = "start" => ctx[t] = IF t = Main THEN "constructor" ELSE "main"
       /\ place[t] = "link" => ctx[t] \in {"constructor", "main"}
       /\ place[t] = "loop" => ctx[t] # "destructor"
       /\ place[t] \in {"final", "end"} => ctx[t] = "destructor"
       /\ ctx[t] = "handler" /\ place[t] # "loop" => at_exit_list # <<>>
       /\ ctx[t] = "destructor" => at_exit_list = <<>>
       /\ place[t] = "end" => dtor = 0 /\ ~unflushed

EndInv == ended => at_exit_list = <<>> /\ dtor = 0 /\ ~unflushed

\* What exit has still to call: the registered functions, without the one
\* that is running, and the rest of the table.
InHandler == \E t \in ExitThreads : ctx[t] = "handler" /\ place[t] # "loop"
Remaining == (IF InHandler THEN Tail(at_exit_list) ELSE at_exit_list)
               \o Reverse(Called(FiniTable)[dtor])

\* Nobody has got into exit.
Quiet == \A t \in ExitThreads : ~Exiting(t)

\* The calls made and the calls left make up the schedule; until somebody
\* exits, only constructors have been called and nothing has been unlinked.
OrderInv ==
  /\ log \o Remaining = Schedule(ctor - 1)
  /\ Quiet =>
       /\ log = Called(InitTable)[ctor - 1]
       /\ at_exit_list = Reverse(registered)
       /\ dtor = Len(FiniTable)

ExitInv == TypeOK /\ LockInv /\ PlaceInv /\ EndInv /\ OrderInv

-----------------------------------------------------------------------------
(* Sequences.                                                              *)

\* The reverse of a sequence is one of the same length.
LEMMA ReverseSeq ==
  ASSUME NEW S, NEW s \in Seq(S)
  PROVE  /\ Reverse(s) \in Seq(S)
         /\ Len(Reverse(s)) = Len(s)
         /\ \A i \in 1 .. Len(s) : Reverse(s)[i] = s[Len(s) - i + 1]
  <1>1. Len(s) \in Nat /\ \A i \in 1 .. Len(s) : s[Len(s) - i + 1] \in S
    BY ElementOfSeq, LenProperties
  <1>2. Reverse(s) = [i \in 1 .. Len(s) |-> s[(Len(s) - i) + 1]]
    BY DEF Reverse
  <1>3. Reverse(s) \in [1 .. Len(s) -> S]
    BY <1>1, <1>2
  <1>4. QED
    BY <1>1, <1>2, <1>3

\* What is appended comes first in the reverse.
LEMMA ReverseAppend ==
  ASSUME NEW S, NEW s \in Seq(S), NEW x \in S
  PROVE  Reverse(Append(s, x)) = <<x>> \o Reverse(s)
  <1> DEFINE a == Append(s, x)
             c == <<x>> \o Reverse(s)
  <1>1. /\ a \in Seq(S) /\ Len(a) = Len(s) + 1 /\ a[Len(s) + 1] = x
        /\ \A i \in 1 .. Len(s) : a[i] = s[i]
    BY AppendProperties
  <1> HIDE DEF a
  <1>2. /\ Reverse(a) \in Seq(S) /\ Len(Reverse(a)) = Len(s) + 1
        /\ \A i \in 1 .. Len(s) + 1 : Reverse(a)[i] = a[Len(s) + 1 - i + 1]
    BY <1>1, ReverseSeq
  <1>3. /\ Reverse(s) \in Seq(S) /\ Len(Reverse(s)) = Len(s)
        /\ \A i \in 1 .. Len(s) : Reverse(s)[i] = s[Len(s) - i + 1]
    BY ReverseSeq
  <1>4. /\ <<x>> \in Seq(S) /\ Len(<<x>>) = 1 /\ <<x>>[1] = x
    OBVIOUS
  <1>5. /\ c \in Seq(S) /\ Len(c) = 1 + Len(s)
        /\ \A i \in 1 .. 1 + Len(s) :
             c[i] = IF i <= 1 THEN <<x>>[i] ELSE Reverse(s)[i - 1]
    BY <1>3, <1>4, ConcatProperties
  <1>6. ASSUME NEW i \in 1 .. Len(s) + 1 PROVE Reverse(a)[i] = c[i]
    <2>1. CASE i = 1 BY <2>1, <1>1, <1>2, <1>4, <1>5, LenProperties
    <2>2. CASE i # 1
      <3>1. i - 1 \in 1 .. Len(s) /\ Len(s) - i + 2 \in 1 .. Len(s)
        BY <2>2, LenProperties
      <3>2. c[i] = Reverse(s)[i - 1]
        BY <2>2, <1>5, LenProperties
      <3>3. Reverse(s)[i - 1] = s[Len(s) - i + 2]
        BY <3>1, <1>3, LenProperties
      <3>4. Reverse(a)[i] = a[Len(s) - i + 2]
        BY <1>2, LenProperties
      <3>5. QED BY <3>1, <3>2, <3>3, <3>4, <1>1
    <2>3. QED BY <2>1, <2>2
  <1> HIDE DEF c
  <1>7. Len(Reverse(a)) = Len(c) /\ \A i \in 1 .. Len(Reverse(a)) : Reverse(a)[i] = c[i]
    BY <1>2, <1>5, <1>6, LenProperties
  <1>8. Reverse(a) = c
    BY <1>2, <1>5, <1>7, SeqEqual
  <1>9. QED
    BY <1>8 DEF a, c

\* A sequence that another one completes is a prefix.
LEMMA PrefixOfConcat ==
  ASSUME NEW S, NEW s \in Seq(S), NEW t \in Seq(S)
  PROVE  IsPrefix(s, s \o t)
  <1> DEFINE u == s \o t
  <1>1. /\ u \in Seq(S) /\ Len(u) = Len(s) + Len(t)
        /\ \A i \in 1 .. Len(s) : u[i] = s[i]
    BY ConcatProperties, LenProperties
  <1>2. Len(s) \in Nat /\ Len(t) \in Nat
    BY LenProperties
  <1>3. SubSeq(s, 1, Len(s)) = s
    BY SubSeqFull
  <1>4. /\ SubSeq(u, 1, Len(s)) \in Seq(S)
        /\ Len(SubSeq(u, 1, Len(s))) = Len(s)
        /\ \A i \in 1 .. Len(s) : SubSeq(u, 1, Len(s))[i] = u[i]
    <2>1. \A i \in 1 .. Len(s) : u[i] \in S
      BY <1>1, <1>2, ElementOfSeq
    <2>2. QED BY <2>1, <1>2, SubSeqProperties
  <1>5. SubSeq(u, 1, Len(s)) = s
    BY <1>1, <1>4, SeqEqual
  <1>6. QED
    BY <1>1, <1>2, <1>3, <1>5 DEF IsPrefix

-----------------------------------------------------------------------------
(* The functions called from a table.                                      *)

\* Every set of numbers has a least one.
LEMMA LeastNumber ==
  ASSUME NEW T, T \subseteq Nat, T # {}
  PROVE  \E m \in T : \A k \in T : m <= k
  <1>1. \E m \in T : \A k \in T : <<k, m>> \notin OpToRel(<, Nat)
    BY NatLessThanWellFounded, WFMin
  <1>2. PICK m \in T : \A k \in T : <<k, m>> \notin OpToRel(<, Nat)
    BY <1>1
  <1>3. \A k \in T : ~(k < m)
    BY <1>2 DEF OpToRel
  <1>4. QED
    BY <1>3

\* Called counts on from entry to entry, as the loops over the tables do.
LEMMA CalledSteps ==
  ASSUME NEW S, NEW table \in Seq(S)
  PROVE  /\ Called(table)[0] = <<>>
         /\ \A n \in 1 .. Len(table) :
              Called(table)[n] = IF table[n] = Null
                                   THEN Called(table)[n - 1]
                                   ELSE Append(Called(table)[n - 1], table[n])
  <1> DEFINE Next1(f, n) == IF n = 0 THEN <<>>
                            ELSE IF table[n] = Null THEN f[n - 1]
                            ELSE Append(f[n - 1], table[n])
             Upto(f, m) == f = [n \in 0 .. m |-> Next1(f, n)]
             Exists(m) == \E f : Upto(f, m)
             Bad == {m \in 0 .. Len(table) : ~Exists(m)}
  <1>1. Len(table) \in Nat
    BY LenProperties
  <1>2. Bad = {}
    <2> SUFFICES ASSUME Bad # {} PROVE FALSE
      OBVIOUS
    <2>1. PICK m \in Bad : \A k \in Bad : m <= k
      <3>1. Bad \subseteq Nat BY <1>1
      <3> HIDE DEF Bad
      <3>2. QED BY <3>1, LeastNumber
    <2>2. CASE m = 0
      <3> DEFINE f == [n \in 0 .. 0 |-> <<>>]
      <3>1. Upto(f, 0)
        OBVIOUS
      <3>2. QED BY <3>1, <2>1, <2>2
    <2>3. CASE m # 0
      <3>1. m - 1 \in 0 .. Len(table) /\ m - 1 \notin Bad
        <4> HIDE DEF Exists
        <4>1. QED BY <1>1, <2>1, <2>3
      <3>2. PICK f : Upto(f, m - 1)
        <4>1. Exists(m - 1)
          <5> HIDE DEF Exists
          <5>1. QED BY <3>1
        <4>2. QED BY <4>1
      <3> DEFINE g == [n \in 0 .. m |-> IF n = m THEN Next1(f, m) ELSE f[n]]
      <3>3. ASSUME NEW n \in 0 .. m PROVE g[n] = Next1(g, n)
        <4>1. n # 0 => g[n - 1] = f[n - 1]
          BY <1>1
        <4>2. CASE n = m BY <4>1, <4>2
        <4>3. CASE n # m
          <5>1. n \in 0 .. m - 1 BY <4>3, <1>1
          <5>2. f[n] = Next1(f, n) BY <3>2, <5>1
          <5>3. QED BY <4>1, <4>3, <5>2
        <4>4. QED BY <4>2, <4>3
      <3>4. Upto(g, m)
        <4>1. g = [n \in 0 .. m |-> g[n]]
          OBVIOUS
        <4> HIDE DEF g, Next1
        <4>2. QED BY <4>1, <3>3
      <3>5. QED BY <3>4, <2>1
    <2>4. QED BY <2>2, <2>3
  <1>3. \E f : Upto(f, Len(table))
    <2>1. Exists(Len(table))
      <3> HIDE DEF Exists
      <3>1. QED BY <1>1, <1>2
    <2>2. QED BY <2>1
  <1>4. Upto(Called(table), Len(table))
    BY <1>3 DEF Called
  <1> HIDE DEF Upto
  <1>5. \A n \in 0 .. Len(table) : Called(table)[n] = Next1(Called(table), n)
    BY <1>4 DEF Upto
  <1>6. QED
    BY <1>1, <1>5

\* What is called from a table is a sequence of its entries.
LEMMA CalledSeq ==
  ASSUME NEW S, NEW table \in Seq(S), NEW n \in 0 .. Len(table)
  PROVE  Called(table)[n] \in Seq(S)
  <1> DEFINE Bad == {m \in 0 .. Len(table) : Called(table)[m] \notin Seq(S)}
  <1>1. Len(table) \in Nat
    BY LenProperties
  <1> SUFFICES ASSUME Bad # {} PROVE FALSE
    OBVIOUS
  <1>2. PICK m \in Bad : \A k \in Bad : m <= k
    <2>1. Bad \subseteq Nat BY <1>1
    <2> HIDE DEF Bad
    <2>2. QED BY <2>1, LeastNumber
  <1>3. m # 0
    BY CalledSteps, EmptySeq
  <1>4. m - 1 \in 0 .. Len(table) /\ m \in 1 .. Len(table)
    BY <1>1, <1>2, <1>3
  <1>5. Called(table)[m - 1] \in Seq(S)
    BY <1>1, <1>2, <1>4
  <1>6. table[m] \in S
    BY <1>4, ElementOfSeq
  <1>7. Called(table)[m] \in Seq(S)
    <2> DEFINE before == Called(table)[m - 1]
    <2>1. Append(before, table[m]) \in Seq(S)
      BY <1>5, <1>6, AppendProperties
    <2>2. Called(table)[m] = IF table[m] = Null THEN before
                                                ELSE Append(before, table[m])
      BY <1>4, CalledSteps
    <2> HIDE DEF before
    <2>3. before \in Seq(S)
      BY <1>5 DEF before
    <2>4. QED BY <2>1, <2>2, <2>3
  <1>8. QED BY <1>2, <1>7

-----------------------------------------------------------------------------
(* The invariant.                                                          *)

\* The tables hold functions.
LEMMA Tables == InitTable \in Seq(Fns) /\ FiniTable \in Seq(Fns)
  <1>1. Range(InitTable) \subseteq Fns /\ Range(FiniTable) \subseteq Fns
    BY DEF Fns
  <1>2. QED
    BY <1>1, ExitAssumption, SeqMonotonic

\* Every step keeps the state in its types.
LEMMA StepTypeOK ==
  ASSUME TypeOK, PlaceInv, [ExitNext]_exitVars
  PROVE  TypeOK'
  <1> USE DEF TypeOK, Contexts, Places, GoOn
  <1>1. ASSUME Construct, UNCHANGED ended
        PROVE  TypeOK'
    <2>1. ctor \in 1 .. Len(InitTable) /\ Len(InitTable) \in Nat
      BY <1>1, Tables, LenProperties DEF Construct
    <2>2. InitTable[ctor] \in Fns
      BY <2>1, Tables, ElementOfSeq
    <2>3. Append(log, InitTable[ctor]) \in Seq(Fns)
      BY <2>2, AppendProperties
    <2>4. log' \in Seq(Fns)
      BY <1>1, <2>3 DEF Construct
    <2>5. place' \in [ExitThreads -> Places]
      BY <1>1, ExitAssumption DEF Construct
    <2>6. ctor' \in 1 .. Len(InitTable) + 1
      BY <1>1, <2>1 DEF Construct
    <2>7. QED
      BY <1>1, <2>4, <2>5, <2>6 DEF Construct
  <1>2. ASSUME StartMain, UNCHANGED ended
        PROVE  TypeOK'
    BY <1>2 DEF StartMain
  <1>3. ASSUME NEW t \in ExitThreads, Spawn(t), UNCHANGED ended
        PROVE  TypeOK'
    BY <1>3 DEF Spawn
  <1>4. ASSUME NEW t \in ExitThreads, UserReturns(t), UNCHANGED ended
        PROVE  TypeOK'
    <2>1. at_exit_list' \in Seq(Fns)
      BY <1>4, HeadTailProperties DEF UserReturns, PlaceInv
    <2>2. unflushed' \in BOOLEAN
      BY <1>4 DEF UserReturns
    <2>3. place' \in [ExitThreads -> Places]
      BY <1>4 DEF UserReturns
    <2>4. QED
      BY <1>4, <2>1, <2>2, <2>3 DEF UserReturns
  <1>5. ASSUME NEW t \in ExitThreads, NEW f \in Handlers, AtExit(t, f), UNCHANGED ended
        PROVE  TypeOK'
    BY <1>5 DEF AtExit
  <1>6. ASSUME NEW t \in ExitThreads, AtExitLock(t), UNCHANGED ended
        PROVE  TypeOK'
    BY <1>6 DEF AtExitLock
  <1>7. ASSUME NEW t \in ExitThreads, AtExitLink(t), UNCHANGED ended
        PROVE  TypeOK'
    <2>1. entry[t] \in Fns
      BY DEF Fns
    <2>2. Append(registered, entry[t]) \in Seq(Fns)
      BY <2>1, AppendProperties
    <2>3. <<entry[t]>> \o at_exit_list \in Seq(Fns)
      BY <2>1, ConcatProperties
    <2>4. QED
      BY <1>7, <2>2, <2>3 DEF AtExitLink
  <1>8. ASSUME NEW t \in ExitThreads, CallExit(t), UNCHANGED ended
        PROVE  TypeOK'
    BY <1>8 DEF CallExit
  <1>9. ASSUME NEW t \in ExitThreads, ExitLock(t), UNCHANGED ended
        PROVE  TypeOK'
    BY <1>9 DEF ExitLock
  <1>10. ASSUME NEW t \in ExitThreads, ExitLoop(t), UNCHANGED ended
        PROVE  TypeOK'
    <2>1. at_exit_list # <<>> => Append(log, Head(at_exit_list)) \in Seq(Fns)
      BY HeadTailProperties, AppendProperties
    <2>2. log' \in Seq(Fns)
      BY <1>10, <2>1 DEF ExitLoop
    <2>3. QED
      BY <1>10, <2>2 DEF ExitLoop
  <1>11. ASSUME NEW t \in ExitThreads, Finalize(t), UNCHANGED ended
        PROVE  TypeOK'
    <2>1. Len(FiniTable) \in Nat
      BY Tables, LenProperties
    <2>2. dtor > 0 => FiniTable[dtor] \in Fns
      BY <2>1, Tables, ElementOfSeq
    <2>3. dtor > 0 => Append(log, FiniTable[dtor]) \in Seq(Fns)
      BY <2>2, AppendProperties
    <2>4. log' \in Seq(Fns)
      BY <1>11, <2>3 DEF Finalize
    <2>5. place' \in [ExitThreads -> Places]
      BY <1>11 DEF Finalize
    <2>6. dtor' \in 0 .. Len(FiniTable)
      BY <1>11, <2>1 DEF Finalize
    <2>7. unflushed' \in BOOLEAN
      BY <1>11 DEF Finalize
    <2>8. QED
      BY <1>11, <2>4, <2>5, <2>6, <2>7 DEF Finalize
  <1>12. ASSUME NEW t \in ExitThreads, _Exit(t)
        PROVE  TypeOK'
    BY <1>12 DEF _Exit
  <1>13. CASE UNCHANGED exitVars
    BY <1>13 DEF exitVars
  <1>14. QED
    BY <1>1, <1>2, <1>3, <1>4, <1>5, <1>6, <1>7, <1>8, <1>9,
       <1>10, <1>11, <1>12, <1>13 DEF ExitNext, ExitRun

\* Every step keeps the mutex with the thread that links or exits.
LEMMA StepLockInv ==
  ASSUME TypeOK, LockInv, PlaceInv, [ExitNext]_exitVars
  PROVE  LockInv'
  <1> USE ExitAssumption DEF TypeOK, Contexts, Places, GoOn, LockInv, Exiting
  <1>1. ASSUME Construct, UNCHANGED ended
        PROVE  LockInv'
    BY <1>1 DEF Construct
  <1>2. ASSUME StartMain, UNCHANGED ended
        PROVE  LockInv'
    BY <1>2 DEF StartMain
  <1>3. ASSUME NEW t \in ExitThreads, Spawn(t), UNCHANGED ended
        PROVE  LockInv'
    BY <1>3 DEF Spawn
  <1>4. ASSUME NEW t \in ExitThreads, UserReturns(t), UNCHANGED ended
        PROVE  LockInv'
    BY <1>4 DEF UserReturns
  <1>5. ASSUME NEW t \in ExitThreads, NEW f \in Handlers, AtExit(t, f), UNCHANGED ended
        PROVE  LockInv'
    BY <1>5 DEF AtExit
  <1>6. ASSUME NEW t \in ExitThreads, AtExitLock(t), UNCHANGED ended
        PROVE  LockInv'
    BY <1>6 DEF AtExitLock
  <1>7. ASSUME NEW t \in ExitThreads, AtExitLink(t), UNCHANGED ended
        PROVE  LockInv'
    BY <1>7 DEF AtExitLink, PlaceInv
  <1>8. ASSUME NEW t \in ExitThreads, CallExit(t), UNCHANGED ended
        PROVE  LockInv'
    BY <1>8 DEF CallExit
  <1>9. ASSUME NEW t \in ExitThreads, ExitLock(t), UNCHANGED ended
        PROVE  LockInv'
    BY <1>9 DEF ExitLock
  <1>10. ASSUME NEW t \in ExitThreads, ExitLoop(t), UNCHANGED ended
        PROVE  LockInv'
    BY <1>10 DEF ExitLoop
  <1>11. ASSUME NEW t \in ExitThreads, Finalize(t), UNCHANGED ended
        PROVE  LockInv'
    BY <1>11 DEF Finalize
  <1>12. ASSUME NEW t \in ExitThreads, _Exit(t)
        PROVE  LockInv'
    BY <1>12 DEF _Exit
  <1>13. CASE UNCHANGED exitVars
    BY <1>13 DEF exitVars
  <1>14. QED
    BY <1>1, <1>2, <1>3, <1>4, <1>5, <1>6, <1>7, <1>8, <1>9,
       <1>10, <1>11, <1>12, <1>13 DEF ExitNext, ExitRun

\* Every step leaves the threads where they may be.
LEMMA StepPlaceInv ==
  ASSUME TypeOK, LockInv, PlaceInv, [ExitNext]_exitVars
  PROVE  PlaceInv'
  <1> USE ExitAssumption DEF TypeOK, Contexts, Places, GoOn, LockInv, Exiting, PlaceInv
  <1>1. ASSUME Construct, UNCHANGED ended
        PROVE  PlaceInv'
    BY <1>1 DEF Construct
  <1>2. ASSUME StartMain, UNCHANGED ended
        PROVE  PlaceInv'
    BY <1>2 DEF StartMain
  <1>3. ASSUME NEW t \in ExitThreads, Spawn(t), UNCHANGED ended
        PROVE  PlaceInv'
    BY <1>3 DEF Spawn
  <1>4. ASSUME NEW t \in ExitThreads, UserReturns(t), UNCHANGED ended
        PROVE  PlaceInv'
    <2>1. CASE ctx[t] = "handler"
      BY <1>4, <2>1 DEF UserReturns
    <2>2. CASE ctx[t] = "constructor"
      BY <1>4, <2>2 DEF UserReturns
    <2>3. CASE ctx[t] = "main"
      BY <1>4, <2>3 DEF UserReturns
    <2>4. CASE ctx[t] = "destructor"
      BY <1>4, <2>4 DEF UserReturns
    <2>5. QED BY <2>1, <2>2, <2>3, <2>4
  <1>5. ASSUME NEW t \in ExitThreads, NEW f \in Handlers, AtExit(t, f), UNCHANGED ended
        PROVE  PlaceInv'
    BY <1>5 DEF AtExit
  <1>6. ASSUME NEW t \in ExitThreads, AtExitLock(t), UNCHANGED ended
        PROVE  PlaceInv'
    BY <1>6 DEF AtExitLock
  <1>7. ASSUME NEW t \in ExitThreads, AtExitLink(t), UNCHANGED ended
        PROVE  PlaceInv'
    BY <1>7 DEF AtExitLink
  <1>8. ASSUME NEW t \in ExitThreads, CallExit(t), UNCHANGED ended
        PROVE  PlaceInv'
    BY <1>8 DEF CallExit
  <1>9. ASSUME NEW t \in ExitThreads, ExitLock(t), UNCHANGED ended
        PROVE  PlaceInv'
    BY <1>9 DEF ExitLock
  <1>10. ASSUME NEW t \in ExitThreads, ExitLoop(t), UNCHANGED ended
        PROVE  PlaceInv'
    <2>1. CASE at_exit_list # <<>>
      BY <1>10, <2>1 DEF ExitLoop
    <2>2. CASE at_exit_list = <<>>
      BY <1>10, <2>2 DEF ExitLoop
    <2>3. QED BY <2>1, <2>2
  <1>11. ASSUME NEW t \in ExitThreads, Finalize(t), UNCHANGED ended
        PROVE  PlaceInv'
    BY <1>11 DEF Finalize
  <1>12. ASSUME NEW t \in ExitThreads, _Exit(t)
        PROVE  PlaceInv'
    BY <1>12 DEF _Exit
  <1>13. CASE UNCHANGED exitVars
    BY <1>13 DEF exitVars
  <1>14. QED
    BY <1>1, <1>2, <1>3, <1>4, <1>5, <1>6, <1>7, <1>8, <1>9,
       <1>10, <1>11, <1>12, <1>13 DEF ExitNext, ExitRun

\* The process ends only when everything has been called and flushed.
LEMMA StepEndInv ==
  ASSUME TypeOK, PlaceInv, EndInv, [ExitNext]_exitVars
  PROVE  EndInv'
  <1>1. CASE UNCHANGED exitVars
    BY <1>1 DEF exitVars, EndInv
  <1>2. CASE ExitNext /\ UNCHANGED ended
    BY <1>2 DEF ExitNext, EndInv, _Exit, TypeOK
  <1>3. ASSUME NEW t \in ExitThreads, _Exit(t) PROVE EndInv'
    BY <1>3 DEF _Exit, EndInv, PlaceInv
  <1>4. QED
    BY <1>1, <1>2, <1>3 DEF ExitNext

-----------------------------------------------------------------------------
(* The order of the calls.                                                 *)

\* The first of the functions left to call becomes the last one called.
LEMMA MoveHead ==
  ASSUME NEW S, NEW s \in Seq(S), NEW t \in Seq(S), NEW x \in S
  PROVE  s \o (<<x>> \o t) = Append(s, x) \o t
  <1>1. <<x>> \in Seq(S)
    OBVIOUS
  <1>2. Append(s, x) = s \o <<x>>
    BY AppendIsConcat
  <1>3. QED
    BY <1>1, <1>2, ConcatAssociative

\* A nonempty sequence is its head and its tail.
LEMMA HeadAndTail ==
  ASSUME NEW S, NEW s \in Seq(S), s # <<>>
  PROVE  s = <<Head(s)>> \o Tail(s)
  <1>1. Len(s) \in Nat \ {0}
    BY EmptySeq
  <1>2. s = SubSeq(s, 1, Len(s))
    BY SubSeqFull
  <1>3. SubSeq(s, 1, Len(s)) = <<s[1]>> \o SubSeq(s, 1 + 1, Len(s))
    BY <1>1, SubSeqRecursiveFirst
  <1>4. Tail(s) = SubSeq(s, 2, Len(s))
    BY TailIsSubSeq
  <1>5. Head(s) = s[1]
    OBVIOUS
  <1>6. QED
    BY <1>2, <1>3, <1>4, <1>5

\* What has been called of either table, and the parts of the schedule, are
\* sequences of functions.
LEMMA Sequences ==
  ASSUME TypeOK
  PROVE  /\ Called(InitTable)[ctor - 1] \in Seq(Fns)
         /\ Called(FiniTable)[dtor] \in Seq(Fns)
         /\ Reverse(Called(FiniTable)[dtor]) \in Seq(Fns)
         /\ Reverse(Called(FiniTable)[Len(FiniTable)]) \in Seq(Fns)
         /\ Reverse(registered) \in Seq(Fns)
  <1>1. Len(InitTable) \in Nat /\ Len(FiniTable) \in Nat
    BY Tables, LenProperties
  <1>2. /\ ctor - 1 \in 0 .. Len(InitTable) /\ dtor \in 0 .. Len(FiniTable)
        /\ Len(FiniTable) \in 0 .. Len(FiniTable)
    BY <1>1 DEF TypeOK
  <1>3. /\ Called(InitTable)[ctor - 1] \in Seq(Fns)
        /\ Called(FiniTable)[dtor] \in Seq(Fns)
        /\ Called(FiniTable)[Len(FiniTable)] \in Seq(Fns)
    BY <1>2, Tables, CalledSeq
  <1>4. QED
    BY <1>3, ReverseSeq DEF TypeOK

\* While nobody exits, no handler runs.
LEMMA QuietHandlers ==
  ASSUME TypeOK, LockInv
  PROVE  /\ Quiet => ~InHandler
         /\ lock = {} => Quiet
  BY DEF TypeOK, LockInv, Quiet, Exiting, InHandler

\* A step that only moves a thread.
LEMMA OrderKept ==
  ASSUME OrderInv, UNCHANGED <<at_exit_list, registered, log, ctor, dtor>>,
         InHandler' = InHandler, Quiet' => Quiet
  PROVE  OrderInv'
  BY DEF OrderInv, Remaining, Schedule

\* A constructor is called or passed over.
LEMMA ConstructInOrder ==
  ASSUME TypeOK, TypeOK', LockInv, PlaceInv, OrderInv, Construct
  PROVE  OrderInv'
  <1>1. Quiet /\ Quiet' /\ ~InHandler /\ ~InHandler'
    <2>1. ctx[Main] = "constructor"
      BY ExitAssumption DEF Construct, PlaceInv
    <2>2. \A t \in ExitThreads \ {Main} : place[t] = "start" /\ ctx[t] = "main"
      BY <2>1 DEF PlaceInv
    <2>3. place'[Main] \in {"start", "user"} /\ \A t \in ExitThreads \ {Main} : place'[t] = place[t]
      BY ExitAssumption DEF Construct, GoOn, TypeOK
    <2>4. QED
      BY <2>1, <2>2, <2>3 DEF Construct, Quiet, InHandler, Exiting
  <1>2. /\ log = Called(InitTable)[ctor - 1]
        /\ at_exit_list = Reverse(registered)
        /\ dtor = Len(FiniTable)
    BY <1>1 DEF OrderInv
  <1>3. log' = Called(InitTable)[ctor]
    <2>1. Len(InitTable) \in Nat /\ ctor \in 1 .. Len(InitTable)
      BY Tables, LenProperties DEF Construct, TypeOK
    <2>2. Called(InitTable)[ctor] = IF InitTable[ctor] = Null
                                      THEN Called(InitTable)[ctor - 1]
                                      ELSE Append(Called(InitTable)[ctor - 1], InitTable[ctor])
      BY <2>1, Tables, CalledSteps
    <2>3. QED
      BY <1>2, <2>2 DEF Construct
  <1>4. ctor' - 1 = ctor /\ UNCHANGED <<at_exit_list, registered, dtor>>
    BY Tables, LenProperties DEF Construct, TypeOK
  <1>5. Remaining' = Reverse(registered) \o Reverse(Called(FiniTable)[Len(FiniTable)])
    BY <1>1, <1>2, <1>4 DEF Remaining
  <1>6. log' \o Remaining' = (log' \o Reverse(registered))
                               \o Reverse(Called(FiniTable)[Len(FiniTable)])
    <2> DEFINE l == log'
               m == Reverse(registered)
               r == Reverse(Called(FiniTable)[Len(FiniTable)])
    <2>1. l \in Seq(Fns) /\ m \in Seq(Fns) /\ r \in Seq(Fns)
      BY Sequences DEF TypeOK
    <2> HIDE DEF l, m, r
    <2>2. (l \o m) \o r = l \o (m \o r)
      BY <2>1, ConcatAssociative
    <2>3. QED
      BY <1>5, <2>2 DEF l, m, r
  <1>7. QED
    BY <1>2, <1>3, <1>4, <1>6 DEF OrderInv, Schedule

\* A function that is registered will be called first.
LEMMA LinkInOrder ==
  ASSUME TypeOK, TypeOK', LockInv, PlaceInv, OrderInv,
         NEW t \in ExitThreads, AtExitLink(t)
  PROVE  OrderInv'
  <1>1. Quiet /\ Quiet' /\ ~InHandler /\ ~InHandler'
    <2>1. ctx[t] \in {"constructor", "main"}
      BY DEF AtExitLink, PlaceInv
    <2>2. t \in lock
      BY DEF AtExitLink, LockInv
    <2>3. \A u \in ExitThreads : ~Exiting(u)
      BY <2>1, <2>2 DEF LockInv, Exiting, AtExitLink
    <2>4. QED
      BY <2>1, <2>3 DEF Quiet, InHandler, Exiting, AtExitLink, GoOn, TypeOK
  <1>2. /\ log = Called(InitTable)[ctor - 1]
        /\ at_exit_list = Reverse(registered)
        /\ dtor = Len(FiniTable)
    BY <1>1 DEF OrderInv
  <1>3. at_exit_list' = Reverse(registered')
    <2>1. entry[t] \in Fns
      BY DEF TypeOK, Fns
    <2>2. Reverse(Append(registered, entry[t])) = <<entry[t]>> \o Reverse(registered)
      BY <2>1, ReverseAppend DEF TypeOK
    <2>3. QED
      BY <1>2, <2>2 DEF AtExitLink
  <1>4. UNCHANGED <<log, ctor, dtor>>
    BY DEF AtExitLink
  <1>5. Remaining' = Reverse(registered') \o Reverse(Called(FiniTable)[Len(FiniTable)])
    BY <1>1, <1>2, <1>3, <1>4 DEF Remaining
  <1>6. log' \o Remaining' = (log' \o Reverse(registered'))
                               \o Reverse(Called(FiniTable)[Len(FiniTable)])
    <2> DEFINE l == log'
               m == Reverse(registered')
               r == Reverse(Called(FiniTable)[Len(FiniTable)])
    <2>1. l \in Seq(Fns) /\ m \in Seq(Fns) /\ r \in Seq(Fns)
      BY Sequences, ReverseSeq DEF TypeOK
    <2> HIDE DEF l, m, r
    <2>2. (l \o m) \o r = l \o (m \o r)
      BY <2>1, ConcatAssociative
    <2>3. QED
      BY <1>5, <2>2 DEF l, m, r
  <1>7. QED
    BY <1>2, <1>3, <1>4, <1>6 DEF OrderInv, Schedule

\* A handler that returns is unlinked; nothing else that returns is.
LEMMA ReturnInOrder ==
  ASSUME TypeOK, LockInv, PlaceInv, OrderInv,
         NEW t \in ExitThreads, UserReturns(t)
  PROVE  OrderInv'
  <1>1. CASE ctx[t] = "handler"
    <2>1. ~Quiet'
      BY <1>1 DEF Quiet, Exiting, UserReturns
    <2>2. InHandler
      BY <1>1 DEF InHandler, UserReturns
    <2>3. ~InHandler'
      <3>1. t \in lock
        BY <1>1 DEF LockInv, Exiting
      <3>2. \A u \in ExitThreads : ctx[u] = "handler" => u = t
        BY <3>1 DEF LockInv, Exiting
      <3>3. QED
        BY <1>1, <3>2 DEF InHandler, UserReturns, GoOn, TypeOK
    <2>4. Remaining' = Remaining
      BY <1>1, <2>2, <2>3 DEF Remaining, UserReturns
    <2>5. QED
      BY <2>1, <2>4 DEF OrderInv, Schedule, UserReturns
  <1>2. CASE ctx[t] # "handler"
    <2>1. UNCHANGED <<at_exit_list, registered, log, ctor, dtor>>
      BY <1>2 DEF UserReturns
    <2>2. InHandler' = InHandler
      BY <1>2 DEF InHandler, UserReturns, GoOn, TypeOK
    <2>3. Quiet' => Quiet
      <3>1. \A u \in ExitThreads : u # t => place'[u] = place[u]
        BY DEF UserReturns, GoOn, TypeOK
      <3>2. UNCHANGED ctx /\ place[t] = "user"
        BY DEF UserReturns
      <3>3. QED
        BY <3>1, <3>2 DEF Quiet, Exiting
    <2>4. QED
      BY <2>1, <2>2, <2>3, OrderKept
  <1>3. QED
    BY <1>1, <1>2

\* exit calls the function registered last, or goes on to the destructors.
LEMMA LoopInOrder ==
  ASSUME TypeOK, LockInv, PlaceInv, OrderInv,
         NEW t \in ExitThreads, ExitLoop(t)
  PROVE  OrderInv'
  <1>1. /\ ~Quiet /\ place[t] = "loop" /\ t \in lock
        /\ \A u \in ExitThreads : u # t => ctx[u] \notin {"handler", "destructor"}
    BY DEF ExitLoop, Quiet, Exiting, LockInv
  <1>2. ~InHandler
    BY <1>1 DEF InHandler
  <1>3. CASE at_exit_list # <<>>
    <2>1. /\ log' = Append(log, Head(at_exit_list))
          /\ ctx' = [ctx EXCEPT ![t] = "handler"]
          /\ place' = [place EXCEPT ![t] = "user"]
          /\ UNCHANGED <<at_exit_list, ctor, dtor, registered>>
      BY <1>3 DEF ExitLoop, GoOn
    <2>2. InHandler' /\ ~Quiet'
      BY <2>1 DEF InHandler, Quiet, Exiting, TypeOK
    <2> DEFINE h == Head(at_exit_list)
               l == Tail(at_exit_list)
               r == Reverse(Called(FiniTable)[dtor])
    <2>3. h \in Fns /\ l \in Seq(Fns) /\ r \in Seq(Fns) /\ log \in Seq(Fns)
      BY <1>3, Sequences, HeadTailProperties DEF TypeOK
    <2>4. at_exit_list = <<h>> \o l
      BY <1>3, HeadAndTail DEF TypeOK
    <2>5. Remaining = at_exit_list \o r
      BY <1>2 DEF Remaining
    <2>6. Remaining' = l \o r
      BY <2>1, <2>2 DEF Remaining
    <2> HIDE DEF h, l, r
    <2>7. l \o r \in Seq(Fns) /\ <<h>> \in Seq(Fns)
      BY <2>3, ConcatProperties
    <2>8. (<<h>> \o l) \o r = <<h>> \o (l \o r)
      BY <2>3, <2>7, ConcatAssociative
    <2>9. log \o (<<h>> \o (l \o r)) = Append(log, h) \o (l \o r)
      BY <2>3, <2>7, MoveHead, SMTT(30)
    <2>10. log' = Append(log, h)
      BY <2>1 DEF h
    <2>11. log' \o Remaining' = log \o Remaining
      BY <2>4, <2>5, <2>6, <2>8, <2>9, <2>10
    <2>12. QED
      BY <2>1, <2>2, <2>11 DEF OrderInv, Schedule
  <1>4. CASE at_exit_list = <<>>
    <2>1. /\ UNCHANGED <<at_exit_list, registered, log, ctor, dtor>>
          /\ ctx' = [ctx EXCEPT ![t] = "destructor"]
          /\ place' = [place EXCEPT ![t] = "final"]
      BY <1>4 DEF ExitLoop, GoOn
    <2>2. ~InHandler' /\ ~Quiet'
      BY <1>1, <2>1 DEF InHandler, Quiet, Exiting, TypeOK
    <2>3. InHandler' = InHandler
      BY <1>2, <2>2 DEF InHandler
    <2>4. QED
      BY <2>1, <2>2, <2>3, OrderKept
  <1>5. QED
    BY <1>3, <1>4

\* finalizer calls the last destructor that is left, or passes an entry over.
LEMMA FinalizeInOrder ==
  ASSUME TypeOK, TypeOK', LockInv, PlaceInv, OrderInv,
         NEW t \in ExitThreads, Finalize(t)
  PROVE  OrderInv'
  <1>1. ctx[t] = "destructor" /\ t \in lock /\ at_exit_list = <<>>
    BY DEF Finalize, PlaceInv, LockInv, Exiting
  <1>2. \A u \in ExitThreads : ctx[u] # "handler"
    BY <1>1 DEF LockInv, Exiting
  <1>3. ~InHandler /\ ~InHandler' /\ ~Quiet /\ ~Quiet'
    BY <1>1, <1>2 DEF InHandler, Quiet, Exiting, Finalize
  <1>4. UNCHANGED <<at_exit_list, ctor, registered>>
    BY DEF Finalize
  <1> DEFINE r(n) == Reverse(Called(FiniTable)[n])
  <1>5. Remaining = r(dtor) /\ Remaining' = r(dtor')
    <2>1. r(dtor) \in Seq(Fns) /\ r(dtor') \in Seq(Fns)
      <3>1. dtor \in 0 .. Len(FiniTable) /\ dtor' \in 0 .. Len(FiniTable)
        BY DEF TypeOK
      <3>2. QED
        BY <3>1, Tables, CalledSeq, ReverseSeq
    <2>2. Remaining = <<>> \o r(dtor) /\ Remaining' = <<>> \o r(dtor')
      BY <1>1, <1>3, <1>4 DEF Remaining
    <2> HIDE DEF r
    <2>3. QED
      BY <2>1, <2>2, ConcatEmptySeq
  <1>6. log' \o r(dtor') = log \o r(dtor)
    <2>1. CASE dtor = 0
      BY <2>1 DEF Finalize
    <2>2. CASE dtor # 0
      <3>1. /\ dtor \in 1 .. Len(FiniTable) /\ dtor - 1 \in 0 .. Len(FiniTable)
            /\ dtor' = dtor - 1
        BY <2>2, Tables, LenProperties DEF TypeOK, Finalize
      <3> DEFINE x == FiniTable[dtor]
                 before == Called(FiniTable)[dtor - 1]
      <3>2. Called(FiniTable)[dtor] = IF x = Null THEN before ELSE Append(before, x)
        BY <3>1, Tables, CalledSteps
      <3>3. x \in Fns /\ before \in Seq(Fns) /\ log \in Seq(Fns)
        BY <3>1, Tables, ElementOfSeq, CalledSeq DEF TypeOK
      <3>4. CASE x = Null
        <4>1. log' = log
          BY <2>2, <3>1, <3>4 DEF Finalize
        <4>2. QED
          BY <3>1, <3>2, <3>4, <4>1
      <3>5. CASE x # Null
        <4>1. log' = Append(log, x)
          BY <2>2, <3>1, <3>5 DEF Finalize
        <4>2. r(dtor) = Reverse(Append(before, x)) /\ r(dtor') = Reverse(before)
          BY <3>1, <3>2, <3>5
        <4> HIDE DEF x, before, r
        <4>3. Reverse(Append(before, x)) = <<x>> \o Reverse(before)
          BY <3>3, ReverseAppend
        <4>4. Reverse(before) \in Seq(Fns)
          BY <3>3, ReverseSeq
        <4>5. log \o (<<x>> \o Reverse(before)) = Append(log, x) \o Reverse(before)
          BY <3>3, <4>4, MoveHead
        <4>6. QED
          BY <4>1, <4>2, <4>3, <4>5
      <3>6. QED
        BY <3>4, <3>5
    <2>3. QED
      BY <2>1, <2>2
  <1>7. QED
    BY <1>3, <1>4, <1>5, <1>6 DEF OrderInv, Schedule

\* Every step keeps the order.
LEMMA StepOrderInv ==
  ASSUME TypeOK, TypeOK', LockInv, PlaceInv, OrderInv, [ExitNext]_exitVars
  PROVE  OrderInv'
  <1> DEFINE Same == UNCHANGED <<at_exit_list, registered, log, ctor, dtor>>
  <1>1. CASE StartMain
    <2>1. Same /\ InHandler' = InHandler /\ (Quiet' => Quiet)
      BY <1>1, ExitAssumption
         DEF StartMain, GoOn, TypeOK, PlaceInv, InHandler, Quiet, Exiting
    <2>2. QED BY <2>1, OrderKept
  <1>2. ASSUME NEW t \in ExitThreads, Spawn(t) PROVE OrderInv'
    <2>1. Same /\ InHandler' = InHandler /\ (Quiet' => Quiet)
      BY <1>2 DEF Spawn, GoOn, TypeOK, PlaceInv, InHandler, Quiet, Exiting
    <2>2. QED BY <2>1, OrderKept
  <1>3. ASSUME NEW t \in ExitThreads, NEW f \in Handlers, AtExit(t, f) PROVE OrderInv'
    <2>1. Same /\ InHandler' = InHandler /\ (Quiet' => Quiet)
      BY <1>3 DEF AtExit, GoOn, TypeOK, InHandler, Quiet, Exiting
    <2>2. QED BY <2>1, OrderKept
  <1>4. ASSUME NEW t \in ExitThreads, AtExitLock(t) PROVE OrderInv'
    <2>1. Same /\ InHandler' = InHandler /\ Quiet
      BY <1>4, QuietHandlers
         DEF AtExitLock, GoOn, TypeOK, InHandler, Quiet, Exiting
    <2>2. QED BY <2>1, OrderKept
  <1>5. ASSUME NEW t \in ExitThreads, CallExit(t) PROVE OrderInv'
    <2>1. Same /\ InHandler' = InHandler /\ (Quiet' => Quiet)
      BY <1>5 DEF CallExit, GoOn, TypeOK, InHandler, Quiet, Exiting
    <2>2. QED BY <2>1, OrderKept
  <1>6. ASSUME NEW t \in ExitThreads, ExitLock(t) PROVE OrderInv'
    <2>1. Quiet /\ ~InHandler
      BY <1>6, QuietHandlers DEF ExitLock
    <2>2. Same /\ InHandler' = InHandler
      BY <1>6, <2>1 DEF ExitLock, GoOn, TypeOK, InHandler, Quiet, Exiting
    <2>3. QED BY <2>1, <2>2, OrderKept
  <1>7. CASE UNCHANGED exitVars
    <2>1. Same /\ InHandler' = InHandler /\ (Quiet' => Quiet)
      BY <1>7 DEF exitVars, InHandler, Quiet, Exiting
    <2>2. QED BY <2>1, OrderKept
  <1>8. ASSUME NEW t \in ExitThreads, _Exit(t) PROVE OrderInv'
    <2>1. Same /\ InHandler' = InHandler /\ (Quiet' => Quiet)
      BY <1>8 DEF _Exit, InHandler, Quiet, Exiting
    <2>2. QED BY <2>1, OrderKept
  <1>9. QED
    BY <1>1, <1>2, <1>3, <1>4, <1>5, <1>6, <1>7, <1>8, ConstructInOrder,
       LinkInOrder, ReturnInOrder, LoopInOrder, FinalizeInOrder DEF ExitNext, ExitRun

-----------------------------------------------------------------------------
\* Nothing has been called when the process starts.
LEMMA InitInv == ExitInit => ExitInv
  <1> SUFFICES ASSUME ExitInit PROVE ExitInv
    OBVIOUS
  <1>1. Len(InitTable) \in Nat /\ Len(FiniTable) \in Nat
    BY Tables, LenProperties
  <1>2. TypeOK
    <2>1. place \in [ExitThreads -> Places] /\ entry \in [ExitThreads -> Handlers \cup {Null}]
      BY DEF ExitInit, Places
    <2>2. ctx \in [ExitThreads -> Contexts]
      BY DEF ExitInit, Contexts
    <2>3. at_exit_list \in Seq(Fns) /\ registered \in Seq(Fns) /\ log \in Seq(Fns)
      BY EmptySeq DEF ExitInit
    <2>4. ctor \in 1 .. Len(InitTable) + 1 /\ dtor \in 0 .. Len(FiniTable)
      BY <1>1 DEF ExitInit
    <2>5. lock \in SUBSET ExitThreads /\ unflushed \in BOOLEAN /\ ended \in BOOLEAN
      BY DEF ExitInit
    <2>6. QED
      BY <2>1, <2>2, <2>3, <2>4, <2>5 DEF TypeOK
  <1>3. LockInv /\ EndInv
    BY DEF ExitInit, LockInv, Exiting, EndInv
  <1>4. PlaceInv
    BY ExitAssumption DEF ExitInit, PlaceInv
  <1>5. Quiet /\ ~InHandler
    BY DEF ExitInit, Quiet, Exiting, InHandler
  <1>6. Reverse(<<>>) = <<>>
    <2>1. Reverse(<<>>) \in Seq(Fns) /\ Len(Reverse(<<>>)) = 0
      BY EmptySeq, ReverseSeq
    <2>2. QED
      BY <2>1, EmptySeq
  <1>7. Called(InitTable)[ctor - 1] = <<>>
    BY Tables, CalledSteps DEF ExitInit
  <1> DEFINE r == Reverse(Called(FiniTable)[Len(FiniTable)])
  <1>8. Remaining = <<>> \o r /\ Schedule(ctor - 1) = (<<>> \o <<>>) \o r
    BY <1>5, <1>6, <1>7 DEF ExitInit, Remaining, Schedule
  <1>9. r \in Seq(Fns) /\ <<>> \in Seq(Fns)
    BY <1>2, Sequences, EmptySeq
  <1> HIDE DEF r
  <1>10. log \o Remaining = Schedule(ctor - 1)
    BY <1>8, <1>9, ConcatEmptySeq DEF ExitInit
  <1>11. OrderInv
    BY <1>6, <1>7, <1>10 DEF ExitInit, OrderInv
  <1>12. QED
    BY <1>2, <1>3, <1>4, <1>11 DEF ExitInv

\* The state is always in its types, the mutex with the thread that links or
\* exits, and the calls made and left are the schedule.
THEOREM ExitInvariant == ExitSpec => []ExitInv
  <1>1. ASSUME ExitInv, [ExitNext]_exitVars PROVE ExitInv'
    BY <1>1, StepTypeOK, StepLockInv, StepPlaceInv, StepEndInv, StepOrderInv
       DEF ExitInv
  <1>2. QED
    BY <1>1, InitInv, PTL DEF ExitSpec

\* Constructors, registered functions and destructors are called in the
\* documented order, each once, and all of them before the process ends, for
\* any tables and any threads that register and exit meanwhile.
THEOREM CallsAreInOrder == ExitSpec => []CallsInOrder
  <1>1. ExitInv => CallsInOrder
    <2> SUFFICES ASSUME ExitInv PROVE CallsInOrder
      OBVIOUS
    <2> DEFINE n == ctor - 1
    <2>1. Len(InitTable) \in Nat /\ n \in 0 .. Len(InitTable)
      BY Tables, LenProperties DEF ExitInv, TypeOK
    <2>2. log \o Remaining = Schedule(n)
      BY DEF ExitInv, OrderInv
    <2>3. log \in Seq(Fns) /\ Remaining \in Seq(Fns)
      <3>1. (IF InHandler THEN Tail(at_exit_list) ELSE at_exit_list) \in Seq(Fns)
        BY HeadTailProperties DEF ExitInv, TypeOK, PlaceInv, InHandler
      <3>2. QED
        BY <3>1, Sequences, ConcatProperties DEF ExitInv, TypeOK, Remaining
    <2>4. IsPrefix(log, Schedule(n))
      BY <2>2, <2>3, PrefixOfConcat
    <2>5. ASSUME ended PROVE log = Schedule(n)
      <3>1. at_exit_list = <<>> /\ dtor = 0 /\ ~InHandler
        BY <2>5 DEF ExitInv, EndInv, PlaceInv, InHandler
      <3>2. Called(FiniTable)[dtor] = <<>>
        BY <3>1, Tables, CalledSteps
      <3>3. Reverse(<<>>) = <<>>
        <4>1. Reverse(<<>>) \in Seq(Fns) /\ Len(Reverse(<<>>)) = 0
          BY EmptySeq, ReverseSeq
        <4>2. QED
          BY <4>1, EmptySeq
      <3>4. Remaining = <<>>
        BY <3>1, <3>2, <3>3 DEF Remaining
      <3>5. QED
        BY <2>2, <2>3, <3>4, ConcatEmptySeq
    <2> HIDE DEF n
    <2>6. QED
      BY <2>1, <2>4, <2>5 DEF CallsInOrder
  <1>2. QED
    BY <1>1, ExitInvariant, PTL

\* What the handlers and destructors print has been flushed when the process
\* ends, whoever called exit.
THEOREM OutputIsFlushed == ExitSpec => []OutputFlushed
  <1>1. ExitInv => OutputFlushed
    BY DEF ExitInv, EndInv, OutputFlushed
  <1>2. QED
    BY <1>1, ExitInvariant, PTL
=============================================================================
