\* Two sign-ins of a browser whose requests overlap in pairs; two refreshes of a
\* session, and one lost answer, failed call or change of the membership.
SPECIFICATION Spec
CONSTANTS
  None = None
  Sessions = {s1, s2}
  Requests = {q1, q2}
  Kinds = {"proxy", "session", "refresh", "logout"}
  OlderMatch = {TRUE, FALSE}
  MaxRotations = 2
  MaxFaults = 1
SYMMETRY SessionSymmetry
CHECK_DEADLOCK FALSE
INVARIANT OneWinner
INVARIANT LogoutEndsSession
PROPERTY RevokedForGood
