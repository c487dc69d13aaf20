SPECIFICATION Spec
CONSTANTS
  Contacts = {c1, c2}
  Requests = {r1, r2}
  Singles = {s1}
  MonthlyLimit = 2
  Concurrency = 2
  MaxRetries = 1
  MaxPolls = 1
  MaxTasks = 3
  MaxEvents = 3
INVARIANT BilledWithinQuota
INVARIANT UploadedOnce
INVARIANT DoneMeansApplied
INVARIANT QuotaMatchesBilling
PROPERTY EveryVerificationEnds
CHECK_DEADLOCK FALSE
