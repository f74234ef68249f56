\* A post is deleted, and another gets its title.
SPECIFICATION Spec
CONSTANTS
  None = None
  Posts = {p1, p2}
  Suffixes = 2
  Visitors = {v1}
  Reactions = {like}
  Requests = {r1}
CHECK_DEADLOCK FALSE
INVARIANT FreeSlugIsFree
