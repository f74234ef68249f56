\* Two posts race for a balance that covers one of them, while drafts,
\* rejections and the account change under them.
SPECIFICATION Spec
CONSTANTS
  a1 = a1  a2 = a2  t1 = t1  t2 = t2  t3 = t3  k1 = k1  k2 = k2
  c1 = c1  r1 = r1  r2 = r2  p1 = p1  p2 = p2
  None = None
  Accounts = {a1}
  MainAccount = a1
  Txns = {t1, t2, t3}
  Collections = {}
  Requests = {r1, r2}
  Approvers = {}
  Keys = {}
  CollectionKey <- NoCollectionKey
  Commands <- OverdraftDrafts
  Policies <- AutoApproved
  Harvests <- NoHarvest
  MaxAttempts = 1
SYMMETRY CashSymmetry
INVARIANT BooksBalance
INVARIANT PostedIffBooked
PROPERTY AppendOnly
PROPERTY LedgerIsACashBook
\* The transaction ids run out: the system may stop.
CHECK_DEADLOCK FALSE
