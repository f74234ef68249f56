\* Two passes overlap on the events of two notifications, which are retried,
\* cancelled and settled by hand at the same time.  No symmetry: liveness.
SPECIFICATION FairSpec
CONSTANTS
  n1 = n1  n2 = n2  p1 = p1  p2 = p2
  Notifications = {n1, n2}
  Channel <- OnlyTelegram
  Processes = {p1, p2}
  Limit = 2
  Window = 3
  MaxEvents = 2
  MaxMessages = 1
  MaxFaults = 1
INVARIANT PendingHasEvent
INVARIANT ProcessedMeansDelivered
PROPERTY FinalIsFinal
PROPERTY ClaimsEnd
PROPERTY PendingIsAttempted
