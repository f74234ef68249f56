----------------------------- MODULE MCDelivery -----------------------------
(* Instances of Delivery for TLC. *)
EXTENDS Delivery

CONSTANTS n1, n2, p1, p2

OnlyTelegram == [n \in Notifications |-> "TELEGRAM"]
InAppFirst == [n \in Notifications |-> IF n = n1 THEN "IN_APP" ELSE "TELEGRAM"]
=============================================================================
