----------------------------- MODULE MCWorkQueue -----------------------------
(* WorkQueue with two queues and a client that owns a static package and a  *)
(* dynamic one, for TLC.                                                    *)
EXTENDS WorkQueue, TLC

CONSTANTS c1, s1, d1, q1, q2

OneClient == (s1 :> c1) @@ (d1 :> c1)
OneClientIDs == (s1 :> 1) @@ (d1 :> 2)
=============================================================================
