-------------------------- MODULE DeferredExecutor --------------------------
(***************************************************************************)
(* What DeferredWorkQueue.hpp promises: one package runs at a time; normal *)
(* packages run in FIFO order (except for those inserted at the head); a   *)
(* deferred package does not run before its time, the one most far in the  *)
(* past runs first, and packages with equal times run in the order in      *)
(* which they were accepted.                                               *)
(***************************************************************************)
EXTENDS Sequences, Integers, FiniteSets

CONSTANTS Normal,     \* the normal packages
          Deferred,   \* the deferred packages
          Times,      \* the points in time
          None        \* "no package"

VARIABLES pending,    \* accepted normal packages, in order of execution
          timed,      \* accepted deferred packages, in order of acceptance
          due,        \* the time of each deferred package
          running,    \* the package that runs, or None
          now         \* the clock

executorVars == <<pending, timed, due, running, now>>

Elements(s) == {s[i] : i \in 1 .. Len(s)}

(* s without the elements of S: its j-th element is the kept element of s  *)
(* that has j - 1 kept ones in front of it.                                *)
Kept(s, S) == {i \in 1 .. Len(s) : s[i] \notin S}
Without(s, S) ==
  LET Place(j) == CHOOSE i \in Kept(s, S) : Cardinality(Kept(s, S) \cap (1 .. i)) = j
  IN  [j \in 1 .. Cardinality(Kept(s, S)) |-> s[Place(j)]]

Init ==
  /\ pending = <<>>
  /\ timed = <<>>
  /\ due \in [Deferred -> Times]
  /\ running = None
  /\ now \in Times

Accept(p) ==
  /\ p \notin Elements(pending)
  /\ pending' \in {Append(pending, p), <<p>> \o pending}
  /\ UNCHANGED <<timed, due, running, now>>

(* The time of a package is fixed while it is pending. *)
SetDue(p, t) ==
  /\ p \notin Elements(timed)
  /\ due' = [due EXCEPT ![p] = t]
  /\ UNCHANGED <<pending, timed, running, now>>

AcceptDeferred(p, t) ==
  /\ p \notin Elements(timed)
  /\ due' = [due EXCEPT ![p] = t]
  /\ timed' = Append(timed, p)
  /\ UNCHANGED <<pending, running, now>>

Withdraw(S) ==
  /\ pending' = Without(pending, S)
  /\ timed' = Without(timed, S)
  /\ UNCHANGED <<due, running, now>>

Start ==
  /\ running = None
  /\ pending # <<>>
  /\ running' = Head(pending)
  /\ pending' = Tail(pending)
  /\ UNCHANGED <<timed, due, now>>

StartDeferred(i) ==
  /\ running = None
  /\ due[timed[i]] <= now
  /\ \A j \in 1 .. i - 1 : due[timed[j]] > due[timed[i]]
  /\ \A j \in i + 1 .. Len(timed) : due[timed[j]] >= due[timed[i]]
  /\ running' = timed[i]
  /\ timed' = Without(timed, {timed[i]})
  /\ UNCHANGED <<pending, due, now>>

End ==
  /\ running # None
  /\ running' = None
  /\ UNCHANGED <<pending, timed, due, now>>

Tick == now' \in {t \in Times : t > now} /\ UNCHANGED <<pending, timed, due, running>>

Next ==
  \/ \E p \in Normal : Accept(p)
  \/ \E p \in Deferred, t \in Times : SetDue(p, t) \/ AcceptDeferred(p, t)
  \/ \E S \in SUBSET (Normal \cup Deferred) : Withdraw(S)
  \/ \E i \in 1 .. Len(timed) : StartDeferred(i)
  \/ Start \/ End \/ Tick

Spec == Init /\ [][Next]_executorVars
=============================================================================
