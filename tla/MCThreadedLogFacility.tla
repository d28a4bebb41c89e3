------------------------- MODULE MCThreadedLogFacility -------------------------
(* Two limited messages and one error; room for one limited message;        *)
(* counters that saturate at 2.                                             *)
EXTENDS ThreadedLogFacility, TLC

CONSTANTS debug, info, error, c1, c2

MCMessages == {debug, info, error}
MCLimited == {debug, info}
MCClients == {c1, c2}
=============================================================================
