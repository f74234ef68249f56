\* Approvals are requested, decided and cancelled, and the policy changes,
\* while an expense is posted.
SPECIFICATION Spec
CONSTANTS
  a1 = a1  a2 = a2  t1 = t1  t2 = t2  t3 = t3  k1 = k1  k2 = k2
  c1 = c1  r1 = r1  r2 = r2  p1 = p1  p2 = p2
  None = None
  Accounts = {a1}
  MainAccount = a1
  Txns = {t1, t2}
  Collections = {}
  Requests = {r1}
  Approvers = {p1, p2}
  Keys = {}
  CollectionKey <- NoCollectionKey
  Commands <- ExpenseDrafts
  Policies <- ApprovalPolicies
  Harvests <- NoHarvest
  MaxAttempts = 2
SYMMETRY ExpenseSymmetry
INVARIANT RejectionIsFinal
INVARIANT PostedExpensesWereApproved
\* The transaction ids run out: the system may stop.
CHECK_DEADLOCK FALSE
