------------------------------ MODULE Division -----------------------------
(***************************************************************************)
(* The 128-bit divisions of libc/src/crt.c: __udivmodti4 shifts and        *)
(* subtracts, __divmodti4 puts signs around it, and the four functions the *)
(* compiler calls (__udivti3, __umodti3, __divti3, __modti3) take one of   *)
(* the two results.  An operand is a word, a number below 2 * TopBit; its  *)
(* value as an int128_t is Value(x).                                       *)
(*                                                                         *)
(* pc is "idle", "start" at the entry of __udivmodti4, "loop" at the top   *)
(* of its loop, "done" when the results are in quot and num, and "trap"    *)
(* after a division of integers by zero.                                   *)
(***************************************************************************)
EXTENDS Integers

CONSTANTS
  Powers,   \* the words with one bit set: 1, 2, 4 ... in the code to 2^127
  TopBit    \* the highest of them

ASSUME WordAssumption ==
  /\ Powers \subseteq Nat \ {0}
  /\ {1, TopBit} \subseteq Powers
  /\ \A p \in Powers : p = 1 \/ (p % 2 = 0 /\ p \div 2 \in Powers)

VARIABLES
  a, b, signed,          \* the operands of the call, and which of the two it is
  num, den, qbit, quot,  \* the variables of __udivmodti4
  pc

divVars == <<a, b, signed, num, den, qbit, quot, pc>>

Word == 0 .. 2 * TopBit - 1

Negative(x) == signed /\ x >= TopBit
Value(x) == IF Negative(x) THEN x - 2 * TopBit ELSE x

\* -x on words.  In C, -x overflows for the least int128_t; the build wraps.
Minus(x) == IF x = 0 THEN 0 ELSE 2 * TopBit - x
Magnitude(x) == IF Negative(x) THEN Minus(x) ELSE x

DivInit ==
  /\ a = 0 /\ b = 0 /\ signed = FALSE
  /\ num = 0 /\ den = 0 /\ qbit = 0 /\ quot = 0
  /\ pc = "idle"

\* __divmodti4 (s) or __udivmodti4 with the operands x and y.
DivCall(x, y, s) ==
  /\ pc = "idle"
  /\ a' = x /\ b' = y /\ signed' = s
  /\ num' = Magnitude(x)'
  /\ den' = Magnitude(y)'
  /\ qbit' = 1 /\ quot' = 0
  /\ pc' = "start"

Trap ==
  /\ pc = "start"
  /\ den = 0
  /\ pc' = "trap"
  /\ UNCHANGED <<a, b, signed, num, den, qbit, quot>>

\* Faulty: shifts the divisor one place short of the top.
NormalizeShort ==
  /\ pc = "start"
  /\ den # 0
  /\ \E p \in Powers :
       /\ den * p \in TopBit \div 2 .. TopBit - 1
       /\ den' = den * p
       /\ qbit' = p
  /\ pc' = "loop"
  /\ UNCHANGED <<a, b, signed, num, quot>>

\* den and qbit are shifted left by clz128(den), which moves the highest bit
\* of den to the top.
Normalize ==
  /\ pc = "start"
  /\ den # 0
  /\ \E p \in Powers :
       /\ den * p \in TopBit .. 2 * TopBit - 1
       /\ den' = den * p
       /\ qbit' = p
  /\ pc' = "loop"
  /\ UNCHANGED <<a, b, signed, num, quot>>

\* Faulty: an equal remainder is not subtracted.
SubtractSmaller ==
  /\ pc = "loop"
  /\ qbit # 0
  /\ IF den < num
       THEN num' = num - den /\ quot' = quot + qbit
       ELSE UNCHANGED <<num, quot>>
  /\ den' = den \div 2
  /\ qbit' = qbit \div 2
  /\ UNCHANGED <<a, b, signed, pc>>

\* One turn of the loop.
Subtract ==
  /\ pc = "loop"
  /\ qbit # 0
  /\ IF den <= num
       THEN num' = num - den /\ quot' = quot + qbit
       ELSE UNCHANGED <<num, quot>>
  /\ den' = den \div 2
  /\ qbit' = qbit \div 2
  /\ UNCHANGED <<a, b, signed, pc>>

\* Faulty: gives the remainder the sign of the divisor.
FinishBySecond ==
  /\ pc = "loop"
  /\ qbit = 0
  /\ quot' = IF Negative(a) # Negative(b) THEN Minus(quot) ELSE quot
  /\ num' = IF Negative(b) THEN Minus(num) ELSE num
  /\ pc' = "done"
  /\ UNCHANGED <<a, b, signed, den, qbit>>

\* The loop is over; __divmodti4 puts the signs back.
Finish ==
  /\ pc = "loop"
  /\ qbit = 0
  /\ quot' = IF Negative(a) # Negative(b) THEN Minus(quot) ELSE quot
  /\ num' = IF Negative(a) THEN Minus(num) ELSE num
  /\ pc' = "done"
  /\ UNCHANGED <<a, b, signed, den, qbit>>

DivNext ==
  \/ \E x, y \in Word, s \in BOOLEAN : DivCall(x, y, s)
  \/ Trap \/ Normalize \/ Subtract \/ Finish

DivSpec == DivInit /\ [][DivNext]_divVars

-----------------------------------------------------------------------------
(* Properties.                                                             *)

\* The quotient that does not exist: the least number divided by -1.
Overflows == signed /\ a = TopBit /\ b = 2 * TopBit - 1

Absolute(x) == IF x < 0 THEN -x ELSE x

\* The results are those of C: the quotient is truncated towards zero and the
\* remainder has the sign of the dividend, for operands of any size and sign;
\* only the overflowing division wraps around, with remainder 0.
DividesTruncating ==
  pc = "done" =>
    /\ b # 0
    /\ IF Overflows
         THEN quot = TopBit /\ num = 0
         ELSE /\ Value(a) = Value(quot) * Value(b) + Value(num)
              /\ Absolute(Value(num)) < Absolute(Value(b))
              /\ num # 0 => Negative(num) = Negative(a)

\* What the loop keeps: with the quotient so far and what is left the dividend
\* is whole, the shifted divisor follows the bit, the rest is below twice the
\* divisor, and nothing overflows a word.
LoopInvariant ==
  pc = "loop" =>
    /\ quot * Magnitude(b) + num = Magnitude(a)
    /\ {num, den, quot} \subseteq Word
    /\ qbit # 0 => den = Magnitude(b) * qbit /\ num < 2 * den
    /\ qbit = 0 => num < Magnitude(b)
=============================================================================
