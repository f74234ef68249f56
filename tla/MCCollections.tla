--------------------------- MODULE MCCollections ---------------------------
(* Instances of Collections for TLC. *)
EXTENDS Collections, TLC

CollectionSymmetry ==
  Permutations(Sessions) \cup Permutations(Routes) \cup Permutations(Houses)
    \cup Permutations(Handlers)
=============================================================================
