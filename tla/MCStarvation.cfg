\* An in-app notification's event stays in the window of every pass.
SPECIFICATION FairSpec
CONSTANTS
  n1 = n1  n2 = n2  p1 = p1  p2 = p2
  Notifications = {n1, n2}
  Channel <- InAppFirst
  Processes = {p1}
  Limit = 1
  Window = 1
  MaxEvents = 2
  MaxMessages = 1
  MaxFaults = 0
PROPERTY PendingIsAttempted
