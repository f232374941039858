----------------------------- MODULE MCOutFile ------------------------------
(* A small instance of OutFile for TLC: a buffer of three bytes, and a job *)
(* or two for every operation, most of which overrun it.                   *)
EXTENDS OutFile

CONSTANTS t1, t2

Job(op, size, text) == [op |-> op, size |-> size, text |-> text]

Putc   == Job("fputc", 1, <<<<"a">>>>)
Puts   == Job("fputs", 1, <<<<"a", "a">>, <<"newline">>>>)
Empty  == Job("fputs", 1, <<<<>>, <<"newline">>>>)
Bytes  == Job("fwrite", 1, <<<<"a", "newline", "a">>>>)
Pairs  == Job("fwrite", 2, <<<<"a", "a", "newline", "a">>>>)
Format == Job("printf", 1, <<<<"a">>, <<"newline">>, <<"NUL">>>>)
Pieces == Job("write_fmt", 1, <<<<"a", "a">>, <<"newline">>>>)
Flush  == Job("fflush", 1, <<>>)

AllJobs == {Putc, Puts, Empty, Bytes, Pairs, Format, Pieces, Flush}
=============================================================================
