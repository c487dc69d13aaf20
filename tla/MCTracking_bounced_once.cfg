SPECIFICATION Spec
CONSTANTS
  Contacts = {c1}
  Visits = {v1, v2}
  Reports = {h1, h2}
  Urls = {u1, u2, u3}
  MaxLinkStats = 2
  MaxRuns = 2
  MaxEvents = 3
SYMMETRY Symmetry
INVARIANT BouncedOnce
CHECK_DEADLOCK FALSE
