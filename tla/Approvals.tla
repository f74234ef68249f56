----------------------------- MODULE Approvals -----------------------------
(***************************************************************************)
(* Expense approvals: apps/api/src/modules/approvals, together with the    *)
(* finance requests they gate.  requestApprovals and decideApproval are    *)
(* SERIALIZABLE and write what they decide on, so each is one action: all  *)
(* that a concurrent READ COMMITTED update could add to it is a row that   *)
(* the same two actions reach in the other order.                          *)
(***************************************************************************)
EXTENDS Finance

(* updatePolicy *)
UpdatePolicy(p) ==
  /\ policy # p
  /\ policy' = p
  /\ UNCHANGED <<accounts, categories, txns, ledger, collections, approvals,
                 archiving, req>>

(* requestApprovals; rows that exist, even cancelled ones, are a replay.   *)
(* "approvers" are the eligible memberships, "read" is the policy that the *)
(* service read before the transaction began and may have been replaced.   *)
RequestApprovals(t, approvers, read) ==
  /\ txns[t].status = "VALIDATED"
  /\ txns[t].type = "EXPENSE"
  /\ ~(read.auto /\ txns[t].amount <= read.threshold)
  /\ \A p \in Approvers : approvals[t][p] = "none"
  /\ Cardinality(approvers) >= read.required
  /\ approvals' = [approvals EXCEPT ![t] =
       [p \in Approvers |-> IF p \in approvers THEN "PENDING" ELSE "none"]]
  /\ UNCHANGED <<accounts, categories, txns, ledger, collections, policy,
                 archiving, req>>

(* decideApproval with APPROVED: the transaction's status is not read. *)
Approve(t, p) ==
  /\ approvals[t][p] = "PENDING"
  /\ approvals' = [approvals EXCEPT ![t][p] = "APPROVED"]
  /\ UNCHANGED <<accounts, categories, txns, ledger, collections, policy,
                 archiving, req>>

(* decideApproval with REJECTED: both rows change, or neither. *)
RejectApproval(t, p) ==
  /\ approvals[t][p] = "PENDING"
  /\ txns[t].status = "VALIDATED"
  /\ approvals' = [approvals EXCEPT ![t][p] = "REJECTED"]
  /\ txns' = [txns EXCEPT ![t].status = "REJECTED"]
  /\ req' = Updated({t})
  /\ UNCHANGED <<accounts, categories, ledger, collections, policy, archiving>>

(* cancelApproval *)
CancelApproval(t, p) ==
  /\ approvals[t][p] = "PENDING"
  /\ approvals' = [approvals EXCEPT ![t][p] = "CANCELLED"]
  /\ UNCHANGED <<accounts, categories, txns, ledger, collections, policy,
                 archiving, req>>

(* The collections module validates a submitted collection. *)
CollectionValidated(c) ==
  /\ collections[c].status = "SUBMITTED"
  /\ collections' = [collections EXCEPT ![c].status = "VALIDATED"]
  /\ UNCHANGED <<accounts, categories, txns, ledger, policy, approvals,
                 archiving, req>>

Init ==
  /\ FinanceInit
  /\ policy \in Policies
  /\ approvals = [t \in Txns |-> [p \in Approvers |-> "none"]]
  /\ collections \in [Collections -> {[status |-> "SUBMITTED", mode |-> h.mode,
                                       total |-> h.total, paid |-> h.paid] :
                                      h \in Harvests}]

ApprovalNext ==
  \/ \E p \in Policies : UpdatePolicy(p)
  \/ \E t \in Txns :
       \/ \E approvers \in SUBSET Approvers, read \in Policies :
            RequestApprovals(t, approvers, read)
       \/ \E p \in Approvers :
            \/ Approve(t, p)
            \/ RejectApproval(t, p)
            \/ CancelApproval(t, p)

Next ==
  \/ FinanceNext
  \/ ApprovalNext
  \/ \E c \in Collections : CollectionValidated(c)

Spec == Init /\ [][Next]_vars
=============================================================================
