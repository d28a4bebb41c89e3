---------------------------- MODULE MCMultiplexer ----------------------------
(* Multiplexer for TLC; calls are not bounded.  Requests are compared with  *)
(* each other only, and the properties are safety properties: they may be   *)
(* permuted.                                                                *)
EXTENDS Multiplexer, TLC

CONSTANTS r1, r2

Symmetry == Permutations(Requests)
=============================================================================
