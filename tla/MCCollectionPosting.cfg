\* The hook and the endpoint post one validated collection, into the
\* default account or a named one.
SPECIFICATION Spec
CONSTANTS
  a1 = a1  a2 = a2  t1 = t1  t2 = t2  t3 = t3  k1 = k1  k2 = k2
  c1 = c1  r1 = r1  r2 = r2  p1 = p1  p2 = p2
  None = None
  Accounts = {a1, a2}
  MainAccount = a1
  Txns = {t1, t2}
  Collections = {c1}
  Requests = {r1, r2}
  Approvers = {}
  Keys = {k1}
  CollectionKey <- CollectionKeys
  Commands <- CollectionDrafts
  Policies <- AutoApproved
  Harvests <- SomeHarvests
  MaxAttempts = 1
CONSTRAINT OnlyIncomeChanges
SYMMETRY CashSymmetry
INVARIANT CollectionBookedAsValidated
INVARIANT NoSharedKeyOrSource
PROPERTY SuccessMeansPosted
\* The transaction ids run out: the system may stop.
CHECK_DEADLOCK FALSE
