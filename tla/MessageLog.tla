------------------------------ MODULE MessageLog ------------------------------
(***************************************************************************)
(* What a log facility promises (Logger.hpp, ThreadedLogFacility.hpp):     *)
(* accepted messages are written in the order of acceptance; the number of *)
(* limited messages on their way is bounded; no message is lost silently,  *)
(* for a loss is forgotten only when a report about losses is written; and *)
(* a flush returns when nothing is on its way.                             *)
(***************************************************************************)
EXTENDS Naturals, Sequences, FiniteSets

CONSTANTS
  Messages, \* messages
  Limited,  \* those that are subject to the limit (debug, OK, info, warning)
  Capacity, \* the limit
  Clients   \* threads that flush

VARIABLES
  pending,  \* messages on their way
  untold,   \* kinds of losses that no report has told of
  written,  \* number of messages and reports that have been written
  flushing  \* clients that wait for a flush

vars == <<pending, untold, written, flushing>>

OnTheirWay(s) == {m \in Limited : \E i \in 1 .. Len(s) : s[i] = m}

Init == pending = <<>> /\ untold = {} /\ written = 0 /\ flushing = {}

Accept(m) ==
  /\ m \in Limited => Cardinality(OnTheirWay(pending)) < Capacity
  /\ pending' = Append(pending, m)
  /\ UNCHANGED <<untold, written, flushing>>

(* Only limited messages are refused, and only at the limit. *)
Refuse ==
  /\ Cardinality(OnTheirWay(pending)) = Capacity
  /\ untold' = untold \cup {"message"}
  /\ UNCHANGED <<pending, written, flushing>>

(* A message could not be created, e.g. without memory. *)
NotCreated ==
  /\ untold' = untold \cup {"creation"}
  /\ UNCHANGED <<pending, written, flushing>>

(* The first message is written, or its loss is remembered. *)
Process ==
  /\ pending # <<>>
  /\ pending' = Tail(pending)
  /\ \/ written' = written + 1 /\ UNCHANGED untold
     \/ untold' = untold \cup {"message"} /\ UNCHANGED written
  /\ UNCHANGED flushing

(* A report is written.  Losses that happened in the meantime remain. *)
Report(k) ==
  /\ k \in untold
  /\ written' = written + 1
  /\ untold' \in {untold, untold \ {k}}
  /\ UNCHANGED <<pending, flushing>>

(* A report is lost, and that is another loss to report. *)
ReportLost(k) ==
  /\ k \in untold
  /\ untold' \in {untold \cup {"message"}, (untold \ {k}) \cup {"message"}}
  /\ UNCHANGED <<pending, written, flushing>>

Flush(c) ==
  /\ flushing' = flushing \cup {c}
  /\ UNCHANGED <<pending, untold, written>>

FlushReturns(c) ==
  /\ pending = <<>> /\ "creation" \notin untold
  /\ flushing' = flushing \ {c}
  /\ UNCHANGED <<pending, untold, written>>

Next ==
  \/ \E m \in Messages : Accept(m)
  \/ Refuse \/ NotCreated \/ Process
  \/ \E k \in {"message", "creation"} : Report(k) \/ ReportLost(k)
  \/ \E c \in Clients : Flush(c) \/ FlushReturns(c)

Spec == Init /\ [][Next]_vars
=============================================================================
