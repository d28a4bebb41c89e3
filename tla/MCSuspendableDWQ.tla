-------------------------- MODULE MCSuspendableDWQ --------------------------
(* SuspendableDWQ for TLC: the calls are not bounded. *)
EXTENDS SuspendableDWQ
=============================================================================
