\* Three overlapping handlers on one session.
SPECIFICATION Spec
CONSTANTS
  None = None
  Sessions = {s1}
  Routes = {rt1}
  Houses = {x1, x2}
  Amounts = {1}
  Handlers = {h1, h2, h3}
SYMMETRY CollectionSymmetry
CHECK_DEADLOCK FALSE
PROPERTY FrozenUnderReview
PROPERTY CancelledForGood
INVARIANT TotalsMatchItems
INVARIANT ReviewedIsReady
