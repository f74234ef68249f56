----------------------------- MODULE MCFinance -----------------------------
(* Instances of Approvals (and so of Finance) for TLC. *)
EXTENDS Approvals, TLC

CONSTANTS a1, a2, t1, t2, t3, k1, k2, c1, r1, r2, p1, p2

Draft(type, a, n, k) == [type |-> type, account |-> a, amount |-> n, key |-> k]

ExpenseDrafts == {Draft("INCOME", a1, 3, None), Draft("EXPENSE", a1, 1, None),
                  Draft("EXPENSE", a1, 2, None)}
(* A draft that has the key of the collection, and one that its post may give *)
(* it.                                                                       *)
CollectionDrafts == {Draft("INCOME", a1, 1, None), Draft("INCOME", a1, 1, k1)}
(* Bounds: expenses, which no draft of this run is, keep their category, and *)
(* only the default account is archived.                                     *)
OnlyIncomeChanges == categories["EXPENSE"] = "active" /\ archiving[a2] = "none"

OverdraftDrafts == {Draft("INCOME", a1, 1, None), Draft("EXPENSE", a1, 1, None)}

AutoApproved == {[auto |-> TRUE, threshold |-> 9, required |-> 1]}
ApprovalPolicies == {[auto |-> TRUE, threshold |-> 1, required |-> 1],
                     [auto |-> FALSE, threshold |-> 0, required |-> 2]}

NoHarvest == {}
(* Totals of each mode: as the items say, not as they say, counted, empty. *)
SomeHarvests == {[mode |-> "PER_HOUSE", total |-> 2, paid |-> 2],
                 [mode |-> "PER_HOUSE", total |-> 2, paid |-> 1],
                 [mode |-> "BULK_TOTAL", total |-> 1, paid |-> 0],
                 [mode |-> "BULK_TOTAL", total |-> 0, paid |-> 0]}

NoCollectionKey == [c \in {} |-> k1]
CollectionKeys == c1 :> k1

RequestSymmetry == Permutations(Requests)
TxnSymmetry == Permutations(Txns)
ApproverSymmetry == Permutations(Approvers)
ExpenseSymmetry == RequestSymmetry \cup TxnSymmetry \cup ApproverSymmetry
CashSymmetry == RequestSymmetry \cup TxnSymmetry
=============================================================================
