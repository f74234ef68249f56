\* Two deliveries at a time of two messages, which end a conversation that
\* earlier messages began, or go on with it.
SPECIFICATION FairSpec
CONSTANTS
  None = None
  Accounts = {a1}
  Houses = {x1}
  Webhooks = {w1, w2}
  MaxUpdates = 2
  MaxFlows = 2
  MaxFaults = 1
INVARIANT HandledOnce
INVARIANT OneDraftPerFlow
INVARIANT HouseRecordedOnce
PROPERTY UpdatesAreSettled
\* The updates run out: the system may stop.
CHECK_DEADLOCK FALSE
