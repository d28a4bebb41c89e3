------------------------ MODULE MCDeferredWorkQueue ------------------------
(* DeferredWorkQueue with a few clients and packages, for TLC. *)
EXTENDS DeferredWorkQueue, TLC

CONSTANTS c1, c2, n1, x1, x2

(* n1 is a normal package, x1 and x2 are deferred ones. *)
TwoClients == (n1 :> c1) @@ (x1 :> c1) @@ (x2 :> c2)
TwoClientsIDs == (n1 :> 1) @@ (x1 :> 2) @@ (x2 :> 1)

OneClient == (n1 :> c1) @@ (x1 :> c1) @@ (x2 :> c1)
OneClientIDs == (n1 :> 1) @@ (x1 :> 2) @@ (x2 :> 1)
=============================================================================
