SPECIFICATION Spec
CONSTANTS
  Emails = {e1, e2}
  Lists = {l1}
  Clerks = {k1}
  Kinds = {"create", "update", "delete", "dropList", "resync"}
  MaxEvents = 2
  Imports = {i1}
  Users = {u1, u2}
  Cells = {e1, e2}
  Rows = 2
  Concurrency = 2
INVARIANT VerdictMatchesFile
INVARIANT ImportComplete
INVARIANT CountsRight
PROPERTY ImportSettles
CHECK_DEADLOCK FALSE
