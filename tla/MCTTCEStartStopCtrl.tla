------------------------ MODULE MCTTCEStartStopCtrl ------------------------
(* TTCEStartStopCtrl with a few clients for TLC; calls are not bounded. *)
EXTENDS TTCEStartStopCtrl

CONSTANTS c1, c2
=============================================================================
