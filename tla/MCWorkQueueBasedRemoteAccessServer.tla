----------------- MODULE MCWorkQueueBasedRemoteAccessServer -----------------
(* WorkQueueBasedRemoteAccessServer for TLC; calls are not bounded. *)
EXTENDS WorkQueueBasedRemoteAccessServer

CONSTANTS c1, c2, r1, r2, r3
=============================================================================
