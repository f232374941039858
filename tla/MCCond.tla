------------------------------- MODULE MCCond -------------------------------
(* Small instances of Cond for TLC.                                        *)
EXTENDS Cond, TLC

CONSTANTS t1, t2, t3

TwoThreads   == {t1, t2}
ThreeThreads == {t1, t2, t3}

\* The threads run the same code, so they are interchangeable in the
\* invariants.
Symmetry == Permutations(Threads)
=============================================================================
