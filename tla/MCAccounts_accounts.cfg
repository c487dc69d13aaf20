SPECIFICATION Spec
CONSTANTS
  Users = {a, b}
  Founder = a
  Procs = {p, q}
  MaxEvents = 6
SYMMETRY Symmetry
INVARIANT AdminKept
INVARIANT EndedStaysEnded
INVARIANT NobodyLockedOut
INVARIANT NothingLeft
CHECK_DEADLOCK FALSE
