------------------------------ MODULE Strings ------------------------------
(***************************************************************************)
(* libc/src/string.c: one call on a small memory of chars, which are       *)
(* signed.  An address is an index of the memory; a loop of the code is a  *)
(* function of the address or the offset it has come to, any number.       *)
(***************************************************************************)
EXTENDS Integers, FiniteSetsExt, SequencesExt

CONSTANTS
  Addresses,    \* 1 .. n, the memory
  CharValues,   \* the chars it may hold, 0 among them
  CharCodes     \* ints passed for a character

ASSUME StringsAssumption ==
  /\ Cardinality(Addresses) \in Nat /\ Addresses = 1 .. Cardinality(Addresses)
  /\ 0 \in CharValues /\ CharValues \subseteq -128 .. 127 /\ CharCodes \subseteq Int

VARIABLES
  memory,     \* as the call finds and leaves it
  before,     \* history: as the call found it
  called,     \* the function and its arguments
  returned

stringVars == <<memory, before, called, returned>>

NULL == 0
Outside == -1     \* what a read before the memory may lead to

ToChar(c) == ((c + 128) % 256) - 128
Unsigned(c) == c % 256

-----------------------------------------------------------------------------
strlen(b, str) ==
  LET end[s \in Nat] == IF b[s] = 0 THEN s ELSE end[s + 1]
  IN end[str] - str

CopyChar(b, d, s) == [b EXCEPT ![d] = b[s]]

\* Bytes of b copied one after the other, at the offsets that order gives.
CopyBytes(b, dest, src, order) ==
  LET copied[k \in 0 .. Len(order)] ==
        IF k = 0 THEN b
        ELSE CopyChar(copied[k - 1], dest + order[k], src + order[k])
  IN copied[Len(order)]
Forward(len) == [i \in 1 .. len |-> i - 1]
Backward(len) == [i \in 1 .. len |-> len - i]

memcpy(b, dest, src, len) == CopyBytes(b, dest, src, Forward(len))

\* Faulty: copies forward whichever side the overlap is.
MoveForward(b, dest, src, len) == CopyBytes(b, dest, src, Forward(len))

memmove(b, dest, src, len) ==
  CopyBytes(b, dest, src, IF src < dest /\ src + len > dest
                            THEN Backward(len) ELSE Forward(len))

memset(b, dest, c, len) ==
  [a \in Addresses |-> IF a \in dest .. dest + len - 1 THEN ToChar(c) ELSE b[a]]

strcpy(b, dest, src) == memcpy(b, dest, src, strlen(b, src) + 1)
strcat(b, dest, src) == strcpy(b, dest + strlen(b, dest), src)

\* -1, 0 or 1, comparing chars, and so with their signs.
memcmp(b, v1, v2, len) ==
  LET from[i \in Nat] ==
        IF i = len THEN 0
        ELSE IF b[v1 + i] < b[v2 + i] THEN -1
        ELSE IF b[v1 + i] > b[v2 + i] THEN 1 ELSE from[i + 1]
  IN from[0]

\* A difference of unsigned chars.
strcmp(b, s1, s2) ==
  LET from[i \in Nat] ==
        IF b[s1 + i] # 0 /\ b[s1 + i] = b[s2 + i] THEN from[i + 1]
        ELSE Unsigned(b[s1 + i]) - Unsigned(b[s2 + i])
  IN from[0]
strncmp(b, s1, s2, n) ==
  LET from[i \in Nat] ==
        IF i = n THEN 0
        ELSE IF b[s1 + i] # 0 /\ b[s1 + i] = b[s2 + i] THEN from[i + 1]
        ELSE Unsigned(b[s1 + i]) - Unsigned(b[s2 + i])
  IN from[0]

\* c is compared as the int it is.
strchr(b, str, c) ==
  LET from[s \in Nat] ==
        IF b[s] = c THEN s ELSE IF b[s] = 0 THEN NULL ELSE from[s + 1]
  IN from[str]

\* Starts before the terminator; with an empty string that is before the
\* string, where the loop does not stop.
strrchr(b, s, c) ==
  LET down[sr \in Nat] ==
        IF sr = 0 THEN Outside
        ELSE IF b[sr] = c THEN sr ELSE IF sr = s THEN NULL ELSE down[sr - 1]
  IN down[s + strlen(b, s) - 1]

\* The pointer never advances.
memchr(b, ptr, c, len) == IF len > 0 /\ b[ptr] = c THEN ptr ELSE NULL

strstr(b, str, substr) ==
  LET len == strlen(b, substr)
      from[s \in Nat] ==
        IF b[s] = 0 THEN NULL
        ELSE IF strncmp(b, s, substr, len) = 0 THEN s ELSE from[s + 1]
  IN from[str]

-----------------------------------------------------------------------------
StringsInit ==
  /\ memory \in [Addresses -> CharValues]
  /\ before = memory /\ called = <<"none">> /\ returned = NULL

StringsCall(call, mem, ret) ==
  called' = call /\ memory' = mem /\ returned' = ret /\ UNCHANGED before

\* Arguments C allows: a string is terminated, blocks and copies fit.
IsString(b, a) == \E e \in Addresses : e >= a /\ b[e] = 0
Fits(a, len) == a + len - 1 \in Addresses \cup {0}
Lengths == 0 .. Cardinality(Addresses)
Apart(d, s, len) == d + len <= s \/ s + len <= d

OfBlocks ==
  \E d, s \in Addresses, len \in Lengths :
    /\ Fits(d, len) /\ Fits(s, len)
    /\ \/ Apart(d, s, len)
            /\ StringsCall(<<"memcpy", d, s, len>>, memcpy(memory, d, s, len), d)
       \/ StringsCall(<<"memmove", d, s, len>>, memmove(memory, d, s, len), d)
       \/ StringsCall(<<"memcmp", d, s, len>>, memory, memcmp(memory, d, s, len))
       \/ \E c \in CharCodes :
            /\ s = d
            /\ \/ StringsCall(<<"memset", d, c, len>>, memset(memory, d, c, len), d)
               \/ StringsCall(<<"memchr", d, c, len>>, memory, memchr(memory, d, c, len))

OfStrings ==
  \E s \in Addresses :
    /\ IsString(memory, s)
    /\ \/ StringsCall(<<"strlen", s>>, memory, strlen(memory, s))
       \/ \E c \in CharCodes :
            \/ StringsCall(<<"strchr", s, c>>, memory, strchr(memory, s, c))
            \/ StringsCall(<<"strrchr", s, c>>, memory, strrchr(memory, s, c))
       \/ \E t \in Addresses :
            /\ IsString(memory, t)
            /\ \/ StringsCall(<<"strcmp", s, t>>, memory, strcmp(memory, s, t))
               \/ StringsCall(<<"strstr", s, t>>, memory, strstr(memory, s, t))
               \/ \E n \in Lengths :
                    StringsCall(<<"strncmp", s, t, n>>, memory, strncmp(memory, s, t, n))
       \/ \E d \in Addresses :
            LET len == strlen(memory, s) + 1 IN
            \/ /\ Fits(d, len) /\ Apart(d, s, len)
               /\ StringsCall(<<"strcpy", d, s>>, strcpy(memory, d, s), d)
            \/ LET e == d + strlen(memory, d) IN
               /\ IsString(memory, d) /\ Fits(e, len) /\ Apart(e, s, len)
               /\ StringsCall(<<"strcat", d, s>>, strcat(memory, d, s), d)

\* One call.
StringsNext == called = <<"none">> /\ (OfBlocks \/ OfStrings)

StringsSpec == StringsInit /\ [][StringsNext]_stringVars

-----------------------------------------------------------------------------
(* What C says of a call on the memory b.                                  *)

\* The bytes of a block and of the string at a, as unsigned chars.
Block(b, a, len) == [i \in 1 .. len |-> Unsigned(b[a + i - 1])]
EndOf(b, a) == Min({e \in Addresses : e >= a /\ b[e] = 0})
StringAt(b, a) == Block(b, a, EndOf(b, a) - a)

\* Memory after a copy of what was at src.
Copied(b, dest, src, len) ==
  [a \in Addresses |-> IF a \in dest .. dest + len - 1 THEN b[src + a - dest] ELSE b[a]]

\* Two sequences of bytes differ in the sign of r.
Ordered(r, s, t) ==
  LET differing == {i \in 1 .. Len(s) : i > Len(t) \/ s[i] # t[i]}
      i == Min(differing)
  IN IF s = t THEN r = 0
     ELSE IF differing = {} THEN r < 0
     ELSE IF i > Len(t) THEN r > 0
     ELSE IF s[i] < t[i] THEN r < 0 ELSE r > 0

FirstOf(places) == IF places = {} THEN NULL ELSE Min(places)
LastOf(places) == IF places = {} THEN NULL ELSE Max(places)
Holding(b, c, a, len) == {p \in a .. a + len - 1 : Unsigned(b[p]) = Unsigned(c)}

Changing == {"memcpy", "memmove", "strcpy", "strcat", "memset"}

CopiesAsInC(b, f, x, y, z, mem) ==
  /\ f \in {"memcpy", "memmove"} => mem = Copied(b, x, y, z)
  /\ f = "strcpy" => mem = Copied(b, x, y, Len(StringAt(b, y)) + 1)
  /\ f = "strcat" =>
       mem = Copied(b, x + Len(StringAt(b, x)), y, Len(StringAt(b, y)) + 1)
  /\ f = "memset" => \A a \in Addresses :
       IF a \in x .. x + z - 1 THEN Unsigned(mem[a]) = Unsigned(y) ELSE mem[a] = b[a]
  /\ f \notin Changing => mem = b

ComparesAsInC(b, f, x, y, z, ret) ==
  /\ f = "strcmp" => Ordered(ret, StringAt(b, x), StringAt(b, y))
  /\ f = "strncmp" =>
       LET head(s) == SubSeq(s, 1, Min({Len(s), z}))
       IN Ordered(ret, head(StringAt(b, x)), head(StringAt(b, y)))
  /\ f = "memcmp" =>
       LET s == Block(b, x, z)  t == Block(b, y, z)
           i == FirstOf({j \in 1 .. z : s[j] # t[j]})
       IN /\ ret = 0 <=> s = t
          /\ i = 0 \/ (s[i] < 128) = (t[i] < 128) => Ordered(ret, s, t)

FindsAsInC(b, f, x, y, z, ret) ==
  /\ f \in Changing => ret = x
  /\ f = "strlen" => ret = Len(StringAt(b, x))
  /\ f = "strchr" /\ y = ToChar(y) =>
       ret = FirstOf(Holding(b, y, x, Len(StringAt(b, x)) + 1))
  /\ f = "strrchr" /\ y = ToChar(y) /\ y # 0 /\ StringAt(b, x) # <<>> =>
       ret = LastOf(Holding(b, y, x, Len(StringAt(b, x))))
  /\ f = "memchr" /\ y = ToChar(y) /\ (z <= 1 \/ ret # NULL) =>
       ret = FirstOf(Holding(b, y, x, z))
  /\ f = "strstr" =>
       LET s == StringAt(b, x)  t == StringAt(b, y)
       IN s # <<>> \/ t # <<>> =>
            ret = FirstOf({p \in x .. x + Len(s) - Len(t) : Block(b, p, Len(t)) = t})

\* Copies arrive as they were before the call, also over themselves, and change
\* nothing else; comparisons tell what is equal and order by unsigned chars; searches
\* find the first or the last place there is.  Where the code does not follow C is
\* left out: the order of blocks that first differ in the sign of a char, codes that
\* are no chars, strrchr on an empty string or for the terminator, memchr that finds
\* nothing in more than one char, and strstr of an empty string in another.
StringsAsInC ==
  LET f == called[1]  x == called[2]  y == called[3]  z == called[4] IN
  /\ CopiesAsInC(before, f, x, y, z, memory)
  /\ ComparesAsInC(before, f, x, y, z, returned)
  /\ FindsAsInC(before, f, x, y, z, returned)
=============================================================================
