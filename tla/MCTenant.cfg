\* Two requests at a time in each component.  Sets of different components share
\* their elements, so that the symmetry is that of one component.
SPECIFICATION Spec
CONSTANTS
  None = None
  Requests = {q1, q2}
  Areas = {a1}
  Houses = {h1, h2}
  Residents = {x1, x2}
  Members = {m1, m2}
  Telegrams = {h1, h2}
  Codes = {q1, q2}
  Users = {owner, deputy, u1}
  Roles = {y1, y2}
  SuperAdmin = super
  Permissions = {manage, p1}
  Manage = manage
  Owner = owner
  Deputy = deputy
  Office = y1
  MaxRequests = 2
  Posts = {h1, h2}
  Suffixes = 2
  Visitors = {x1, x2}
  Reactions = {like}
  Images = {x1, x2}
  MaxFaults = 1
  k1 = k1  k2 = k2  t1 = t1  t2 = t2  e1 = e1  e2 = e2  e3 = e3  e4 = e4  e5 = e5
  Keys = {k1, k2}
  Under <- Prefixes
  Long = {k2}
  Targets = {t1, t2}
  Commands = {e1, e2, e3, e4, e5}
  Command <- Announcements
  Accounts = {h1, h2}
  Amounts = {1}
  MaxEntries = 2
  MaxDay = 2
SYMMETRY TenantSymmetry
\* The requests run out: the system may stop.
CHECK_DEADLOCK FALSE
INVARIANT TypeOK
INVARIANT OccupancyIsDerived
INVARIANT ArchivedIsVacant
INVARIANT OneAccountEach
INVARIANT AuthorityIsHandedOn
INVARIANT RolesAreOneReplacement
INVARIANT CountMirrorsRows
INVARIANT ImagesAndFiles
INVARIANT NotifiedOnce
INVARIANT ReportsHold
PROPERTY DisabledStaysDisabled
