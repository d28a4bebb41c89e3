------------------------------ MODULE MCRWLock ------------------------------
(* RWLock with three threads, for TLC.  They are not symmetric: one of them *)
(* may be a recursive reader.                                               *)
EXTENDS RWLock

CONSTANTS t1, t2, t3
=============================================================================
