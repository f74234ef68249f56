------------------------------ MODULE MCTenant ------------------------------
(* Instances of Tenant for TLC. *)
EXTENDS Tenant, TLC

CONSTANTS k1, k2, t1, t2, e1, e2, e3, e4, e5

(* e1, e2 and e5 share a key, where e5 has the rows of e2 the other way     *)
(* round; e3 has a key that begins with it, e4 has none.                    *)
Forth == t1 :> 1 @@ t2 :> 2
Back == t1 :> 2 @@ t2 :> 1
Announcements ==
  e1 :> [key |-> k1, targets |-> {t1}, place |-> Forth, print |-> 1, ordered |-> FALSE] @@
  e2 :> [key |-> k1, targets |-> {t1, t2}, place |-> Forth, print |-> 2, ordered |-> TRUE] @@
  e3 :> [key |-> k2, targets |-> {t1, t2}, place |-> Forth, print |-> 2, ordered |-> TRUE] @@
  e4 :> [key |-> None, targets |-> {t2}, place |-> Forth, print |-> 1, ordered |-> TRUE] @@
  e5 :> [key |-> k1, targets |-> {t1, t2}, place |-> Back, print |-> 2, ordered |-> TRUE]

Prefixes == k1 :> {k2} @@ k2 :> {}

TenantSymmetry ==
  Permutations(Requests) \cup Permutations(Residents) \cup Permutations(Houses)
=============================================================================
