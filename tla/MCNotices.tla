----------------------------- MODULE MCNotices -----------------------------
(* Instances of Notices for TLC. *)
EXTENDS Notices, TLC

CONSTANTS k1, t1, e1

(* collectionSubmitted: its payload has a collectionId, then a status, and  *)
(* jsonb returns the shorter key first.                                     *)
Announcement ==
  e1 :> [key |-> k1, targets |-> {t1}, place |-> t1 :> 1, print |-> 1, ordered |-> FALSE]

NoPrefixes == k1 :> {}
=============================================================================
