SPECIFICATION Spec
CONSTANTS
  Contacts = {c1, c2}
  Requests = {r1}
  Hooks = {}
  Operations = {"start"}
  Environment = {"audience"}
  Concurrency = 1
  BatchSize = 2
  MaxAttempts = 1
  MaxErrors = 2
  MaxStalled = 1
  MaxRuns = 2
  MaxStalls = 1
  MaxVersions = 1
  MaxHooks = 0
SYMMETRY Symmetry
INVARIANT OneRunAtATime
