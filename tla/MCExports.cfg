\* Two requests and a pass build the exports of a CSV request and of one in
\* another format; one fault.  No symmetry: liveness.
SPECIFICATION FairSpec
CONSTANTS
  plain = plain  pdf = pdf  dated = dated  sorted = sorted
  a1 = a1  a2 = a2  w1 = w1  w2 = w2
  None = None
  Requests = {plain, pdf}
  Format <- Formats
  Reordered <- JsonbOrder
  Keys = {k1}
  Clients = {a1, a2}
  Workers = {w1}
  Limit = 2
  MaxExports = 2
  MaxFaults = 1
INVARIANT FileIffBuilt
PROPERTY ExpiredIsFinal
PROPERTY QueuedIsBuilt
