------------------------------- MODULE MCOnce -------------------------------
(* Small instances of Once for TLC.                                        *)
EXTENDS Once

CONSTANTS t1, t2, t3, t4

FourThreads == {t1, t2, t3, t4}
=============================================================================
