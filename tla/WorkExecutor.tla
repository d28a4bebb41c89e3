---------------------------- MODULE WorkExecutor ----------------------------
(***************************************************************************)
(* What a set of work queues promises the owners of work packages: every   *)
(* queue runs one work package at a time, in the order in which it         *)
(* accepted them except for those inserted at its head; every acceptance   *)
(* is followed by at most one execution; a package is pending in no more   *)
(* than one queue, and while it runs it can only be accepted by the queue  *)
(* that runs it.  WorkQueue implements this specification.                 *)
(***************************************************************************)
EXTENDS Sequences, Integers

CONSTANTS Queues,     \* the work queues
          Packages,   \* the work packages
          None        \* "no work package"

VARIABLES pending,    \* the packages each queue has accepted, in order
          running     \* the package each queue is executing, or None

executorVars == <<pending, running>>

PendingIn(q) == {pending[q][i] : i \in 1 .. Len(pending[q])}

(* p may be accepted by q. *)
Acceptable(q, p) ==
  \A r \in Queues : p \notin PendingIn(r) /\ (r # q => running[r] # p)

Init ==
  /\ pending = [q \in Queues |-> <<>>]
  /\ running = [q \in Queues |-> None]

Accept(q, p) ==
  /\ Acceptable(q, p)
  /\ pending' = [pending EXCEPT ![q] = Append(@, p)]
  /\ UNCHANGED running

AcceptAtHead(q, p) ==
  /\ Acceptable(q, p)
  /\ pending' = [pending EXCEPT ![q] = <<p>> \o @]
  /\ UNCHANGED running

(* Taken back before execution; the order of the others is kept. *)
Withdraw(q, i) ==
  /\ i \in 1 .. Len(pending[q])
  /\ pending' = [pending EXCEPT
                  ![q] = [j \in 1 .. Len(@) - 1 |-> IF j < i THEN @[j] ELSE @[j + 1]]]
  /\ UNCHANGED running

Start(q) ==
  /\ running[q] = None
  /\ pending[q] # <<>>
  /\ running' = [running EXCEPT ![q] = Head(pending[q])]
  /\ pending' = [pending EXCEPT ![q] = Tail(@)]

End(q) ==
  /\ running[q] # None
  /\ running' = [running EXCEPT ![q] = None]
  /\ UNCHANGED pending

Next ==
  \E q \in Queues :
    \/ \E p \in Packages : Accept(q, p) \/ AcceptAtHead(q, p)
    \/ \E i \in 1 .. Len(pending[q]) : Withdraw(q, i)
    \/ Start(q)
    \/ End(q)

Spec == Init /\ [][Next]_executorVars
=============================================================================
