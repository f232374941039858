---------------------------- MODULE MCComponents ---------------------------
(* For TLC, the components whose instances are small: the page allocators, *)
(* the clock, input, and the functions that keep no state between calls.   *)
(* A behaviour is one of one of them, the subject; the others stay in an   *)
(* initial state.                                                          *)
EXTENDS PageAlloc, RustPages, Clock, InFile, Division, Calendar, Printf, MCNumbers,
        Strings, MathBits, Once

VARIABLE subject

CONSTANTS t1, t2, t3, t4

MCInit ==
  /\ subject \in {"pages", "borrowed pages", "clock", "input", "division",
               "calendar", "printf", "numbers", "strings", "math", "once"}
  /\ PagesInit /\ RustPagesInit /\ ClockInit /\ InInit /\ DivInit /\ CalendarInit
  /\ PrintfInit /\ NumbersInit /\ StringsInit /\ MathInit /\ OnceInit
  /\ subject # "pages" => arena.break = 2 * PageUnits
  /\ subject # "borrowed pages" => syscalls = "mmap" /\ bufAt = PageUnits
  /\ subject # "clock" => backend = "x86_64" /\ now = 0
  /\ subject # "strings" => \A x \in Addresses : memory[x] = 0

MCNext ==
  /\ UNCHANGED subject
  /\ \/ /\ subject = "pages" /\ PagesNext
        /\ UNCHANGED <<rustPageVars, clockVars, inVars, divVars, calendarVars,
                       printfVars, numberVars, stringVars, mathVars, onceVars>>
     \/ /\ subject = "borrowed pages" /\ RustPagesNext
        /\ UNCHANGED <<pageVars, clockVars, inVars, divVars, calendarVars,
                       printfVars, numberVars, stringVars, mathVars, onceVars>>
     \/ /\ subject = "clock" /\ ClockNext
        /\ UNCHANGED <<pageVars, rustPageVars, inVars, divVars, calendarVars,
                       printfVars, numberVars, stringVars, mathVars, onceVars>>
     \/ /\ subject = "input" /\ InNext
        /\ UNCHANGED <<pageVars, rustPageVars, clockVars, divVars, calendarVars,
                       printfVars, numberVars, stringVars, mathVars, onceVars>>
     \/ /\ subject = "division" /\ DivNext
        /\ UNCHANGED <<pageVars, rustPageVars, clockVars, inVars, calendarVars,
                       printfVars, numberVars, stringVars, mathVars, onceVars>>
     \/ /\ subject = "calendar" /\ CalendarNext
        /\ UNCHANGED <<pageVars, rustPageVars, clockVars, inVars, divVars,
                       printfVars, numberVars, stringVars, mathVars, onceVars>>
     \/ /\ subject = "printf" /\ PrintfNext
        /\ UNCHANGED <<pageVars, rustPageVars, clockVars, inVars, divVars,
                       calendarVars, numberVars, stringVars, mathVars, onceVars>>
     \/ /\ subject = "numbers" /\ NumbersNext
        /\ UNCHANGED <<pageVars, rustPageVars, clockVars, inVars, divVars,
                       calendarVars, printfVars, stringVars, mathVars, onceVars>>
     \/ /\ subject = "strings" /\ StringsNext
        /\ UNCHANGED <<pageVars, rustPageVars, clockVars, inVars, divVars,
                       calendarVars, printfVars, numberVars, mathVars, onceVars>>
     \/ /\ subject = "math" /\ MathNext
        /\ UNCHANGED <<pageVars, rustPageVars, clockVars, inVars, divVars,
                       calendarVars, printfVars, numberVars, stringVars, onceVars>>
     \/ /\ subject = "once" /\ OnceNext
        /\ UNCHANGED <<pageVars, rustPageVars, clockVars, inVars, divVars,
                       calendarVars, printfVars, numberVars, stringVars, mathVars>>

mcVars ==
  <<subject, pageVars, rustPageVars, clockVars, inVars, divVars, calendarVars,
    printfVars, numberVars, stringVars, mathVars, onceVars>>

\* The fairness is that of FairOnceSpec.
MCSpec ==
  /\ MCInit
  /\ [][MCNext]_mcVars
  /\ \A t \in Threads : WF_onceVars(Run(t))

-----------------------------------------------------------------------------
(* Pages of four units: a break at the start, at the end and on the border  *)
(* of a page.                                                               *)
Breaks == {PageUnits - 3, 2 * PageUnits - 1, 2 * PageUnits}

(* Division: words of five bits.                                            *)
FiveBits == {1, 2, 4, 8, 16}

(* Calendar: every day of years around the leap days that are, the ones     *)
(* that are not and the ends of cycles, and of the first and last years of  *)
(* an int; at its first and last second and one in the middle.              *)
Years ==
  {1600} \cup (1699 .. 1701) \cup (1899 .. 1901) \cup (1968 .. 1972)
    \cup (1996 .. 2004) \cup (2099 .. 2101) \cup {2399, 2400, 2401}
    \cup {INT_MAX + 1900, INT_MAX + 1901, INT_MIN + 1899, INT_MIN + 1900}
DaysOfYears ==
  UNION {DayNumber(y, 1, 1) .. DayNumber(y + 1, 1, 1) - 1 : y \in Years}
SomeTimes == {DAY * d + s : d \in DaysOfYears, s \in {0, DAY \div 2 - 1, DAY - 1}}

(* Printf: integers of four to eight bits and a buffer for their digits.    *)
Bits == [char |-> 4, short |-> 5, int |-> 6, long |-> 8]

Piece(f, w, p, l, c, as) ==
  [flags |-> f, width |-> w, precision |-> p, length |-> l, specifier |-> c,
   args |-> as]

\* Fields, each with its argument.
None == << <<>>, <<>> >>
Widths == {None, << <<"4">>, <<>> >>, << <<"1", "0">>, <<>> >>, << <<"*">>, <<-5>> >>}
Precisions ==
  {None, << <<".">>, <<>> >>, << <<".", "0", "3">>, <<>> >>,
   << <<".", "*">>, <<2>> >>, << <<".", "*">>, <<-1>> >>}
FlagsOf(fs) == {<<"%">> \o f : f \in fs}

\* Integers, with every pair of flags that C gives a meaning to.
IntPieces ==
  {Piece(f, w[1], p[1], <<>>, <<v[1]>>, w[2] \o p[2] \o <<v[2]>>) :
     f \in FlagsOf({<<>>, <<"-">>, <<"0">>, <<"+">>, <<" ">>, <<"#">>,
                    <<"-", "0">>, <<"+", "0">>, <<" ", "0">>, <<"#", "0">>,
                    <<"-", "#">>}),
     w \in Widths, p \in Precisions,
     v \in {<<"d", 0>>, <<"d", 5>>, <<"d", -5>>, <<"d", 20>>, <<"x", 0>>,
            <<"x", 22>>, <<"o", 9>>, <<"b", 5>>}}

\* Integers of every size, with values that a smaller type cuts off.
LongPieces ==
  {Piece(<<"%">>, w[1], <<>>, l, <<v[1]>>, w[2] \o <<v[2]>>) :
     w \in {None, << <<"*">>, <<6>> >>},
     l \in {<<"h">>, <<"h", "h">>, <<"l">>, <<"l", "l">>, <<"z">>},
     v \in {<<"d", 200>>, <<"d", -32>>, <<"u", -1>>, <<"x", 200>>}}

OtherPieces ==
  {Piece(f, w[1], p[1], <<>>, <<v[1]>>, w[2] \o p[2] \o <<v[2]>>) :
     f \in FlagsOf({<<>>, <<"-">>}), w \in Widths, p \in Precisions,
     v \in {<<"c", "a">>, <<"s", <<"a", "0", "%">> >>, <<"s", <<>> >>, <<"p", 100>>}}

\* Doubles: halves that stay, go up, go up from 0 and carry; what rounds up to a
\* whole number; powers of ten; small and large ones, and small ones for which the
\* estimate of the exponent is too high; and the special ones.
HighPowers == {-3, -2, -1, 2, 3}
LowPowers == {1}
Number(n, d) == [kind |-> "number", neg |-> FALSE, n |-> n, d |-> d]
SomeDoubles ==
  {Number(v[1], v[2]) :
     v \in {<<0, 1>>, <<1, 200>>, <<15, 1000>>, <<25, 1000>>, <<995, 1000>>, <<999, 1000>>,
            <<1, 2>>, <<5, 2>>, <<157, 100>>, <<9996, 1000>>, <<100, 1>>, <<199, 2>>,
            <<12345, 100>>, <<1500, 1>>, <<7, 1000>>, <<10, 1>>, <<99, 10000>>, <<999, 10000>>,
            <<9, 1000>>, <<49, 4>>}}
    \cup {[Number(n, 8) EXCEPT !.neg = TRUE] : n \in {0, 9, 12}}
    \cup {[kind |-> "nan", neg |-> FALSE]}
    \cup {[kind |-> "infinite", neg |-> minus] : minus \in BOOLEAN}
DoublePieces ==
  {Piece(f, w[1], p[1], <<>>, <<c>>, w[2] \o p[2] \o <<v>>) :
     f \in FlagsOf({<<>>, <<"-">>, <<"0">>, <<"+">>, <<" ", "0">>, <<"#">>, <<"#", "-", "+">>,
                    <<"#", "0">>}),
     w \in Widths, p \in Precisions \ {<< <<".", "*">>, <<-1>> >>},
     c \in {"f", "e", "g"}, v \in SomeDoubles}

\* Characters and directives to be put one after the other.
Char(c) == Piece(<<>>, <<>>, <<>>, <<>>, <<c>>, <<>>)
Bricks ==
  {Char("a"), Char("-"), Piece(<<"%">>, <<>>, <<>>, <<>>, <<"%">>, <<>>),
   Piece(<<"%">>, <<"*">>, <<".", "*">>, <<>>, <<"d">>, <<5, 3, -7>>),
   Piece(<<"%">>, <<>>, <<>>, <<>>, <<"s">>, << <<"%", "d">> >>)}

\* Directives that end before their specifier.
Unfinished ==
  {Piece(<<"%">> \o f, w, p, l, <<>>, <<>>) :
     f \in {<<>>, <<"-">>}, w \in {<<>>, <<"3">>}, p \in {<<>>, <<".">>},
     l \in {<<>>, <<"l">>}}

\* Into a FILE, and into buffers that some of the calls fill.
SomeCalls ==
  [maxlen : {100},
   pieces : {<<p>> : p \in IntPieces \cup LongPieces \cup OtherPieces \cup DoublePieces
                             \cup Unfinished}
              \cup (Bricks \X (Bricks \cup Unfinished))]
    \cup [maxlen : {0, 1, 3, 6, 100}, pieces : Bricks \X Bricks \X Bricks]

(* Strings: chars of each sign, and codes that are no chars.                *)
SomeChars == -1 .. 1
SomeCodes == {-1, 0, 1, 255}

(* Math: numbers of each kind and size, for the functions of two.           *)
SomeCorners ==
  {s * SignWeight + u : s \in {0, 1},
     u \in {0, 1, 2, 3, 4, 5, 7, 8, 27, 28, 30, 31, 76, 87, 88, 91, 92, 100, 123, 124, 126}
            \cup 55 .. 73}
SomeShifts == -45 .. 45
=============================================================================
