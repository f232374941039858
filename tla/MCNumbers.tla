----------------------------- MODULE MCNumbers -----------------------------
(* For TLC, texts: every one of up to four characters, and longer ones     *)
(* with more digits than are used, zeros in front of them, and exponents   *)
(* on either side of every limit; the digits that are dropped are enough   *)
(* for an infinity in the last ones.                                       *)
EXTENDS Numbers, SequencesExt

Letters == {"0", "3", ".", "e", "-", "7", " "}
Joined(ws) == FlattenSeq(ws)
SomeTexts ==
  UNION {[1 .. n -> Letters] : n \in 0 .. 4}
    \cup {Joined(ws) :
            ws \in {<<>>, <<" ", "tab", "-">>, <<"+">>}
                 \X {<<>>, <<"0">>, <<"0", "4">>, <<"5", "0", "7">>,
                     <<"9", "8", "7", "6">>, <<"9", "8", "7", "6", "5", "4">>}
                 \X {<<>>, <<".">>, <<".", "0", "2">>, <<".", "7", "5", "3">>}
                 \X {<<>>, <<"e">>, <<"e", "-">>, <<"e", "+", "1", "2">>,
                     <<"e", "4">>, <<"e", "-", "1", "3">>, <<"e", "9">>,
                     <<"e", "1", "6">>, <<"e", "-", "1", "9">>, <<"e", "x">>}}
    \cup {<<"0", ".", "0", "0", "0", "2">>}
    \cup {<<"0", "0", "0", "1">> \o [i \in 1 .. 9 |-> "0"] \o e :
            e \in {<<>>, <<".">>, <<"e", "4">>, <<"e", "-", "1">>}}
=============================================================================
