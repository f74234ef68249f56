----------------------------- MODULE MCSessions -----------------------------
(* Instances of Sessions for TLC. *)
EXTENDS Sessions, TLC

SessionSymmetry == Permutations(Requests) \cup Permutations(Sessions)
=============================================================================
