SPECIFICATION Spec
CONSTANTS
  Contacts = {c1, c2}
  Requests = {r1}
  Singles = {}
  MonthlyLimit = 2
  Concurrency = 1
  MaxRetries = 0
  MaxPolls = 1
  MaxTasks = 2
  MaxEvents = 3
SYMMETRY Symmetry
INVARIANT GivesBackWhatItReserved
CHECK_DEADLOCK FALSE
