SPECIFICATION Spec
CONSTANTS
  Contacts = {c1}
  Requests = {r1}
  Hooks = {}
  Operations = {"start", "schedule", "unschedule"}
  Environment = {"fault"}
  Concurrency = 1
  BatchSize = 1
  MaxAttempts = 1
  MaxErrors = 2
  MaxStalled = 1
  MaxRuns = 2
  MaxStalls = 1
  MaxVersions = 1
  MaxHooks = 0
SYMMETRY Symmetry
INVARIANT SentNotOverstated
