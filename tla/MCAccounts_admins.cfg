SPECIFICATION Spec
CONSTANTS
  Users = {a, b}
  Founder = a
  Procs = {p, q}
  MaxEvents = 6
SYMMETRY Symmetry
INVARIANT AlwaysAnAdmin
CHECK_DEADLOCK FALSE
