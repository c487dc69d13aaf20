SPECIFICATION Spec
CONSTANTS
  Contacts = {c1}
  Visits = {v1, v2}
  Reports = {h1}
  Urls = {u1, u2, u3}
  MaxLinkStats = 2
  MaxRuns = 1
  MaxEvents = 3
SYMMETRY Symmetry
INVARIANT PromiseKept
CHECK_DEADLOCK FALSE
