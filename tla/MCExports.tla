----------------------------- MODULE MCExports -----------------------------
(* Instances of Exports for TLC. *)
EXTENDS Exports

CONSTANTS plain, pdf, dated, sorted, a1, a2, w1, w2

(* A request without a date range is stored as it is asked for; the filters *)
(* of one with a range come back with their keys in another order.          *)
Formats == [r \in Requests |-> IF r = pdf THEN "PDF" ELSE "CSV"]
JsonbOrder == [r \in Requests |-> IF r = dated THEN sorted ELSE r]
=============================================================================
