\* An event is announced twice under one key.
SPECIFICATION Spec
CONSTANTS
  None = None
  k1 = k1  t1 = t1  e1 = e1
  Requests = {r1, r2}
  Keys = {k1}
  Under <- NoPrefixes
  Long = {}
  Targets = {t1}
  Commands = {e1}
  Command <- Announcement
PROPERTY DuplicatesAreReplayed
CHECK_DEADLOCK FALSE
