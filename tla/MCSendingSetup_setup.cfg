SPECIFICATION Spec
CONSTANTS
  Servers = {s1, s2}
  Requests = {r1, r2}
  Callers = {r1, r2}
  Admins = {r1, r2}
  Instances = {i1, i2}
  Values = {v1, v2}
  FromEnv = v1
  Reverify = 0
  MaxTime = 1
  MaxEvents = 4
SYMMETRY Symmetry
INVARIANT OneDefault
INVARIANT WorkersFollowSettings
PROPERTY ReleasedByRecords
CHECK_DEADLOCK FALSE
