SPECIFICATION Spec
CONSTANTS
  Contacts = {c1, c2}
  Requests = {r1}
  Hooks = {h1}
  Operations = {"start"}
  Environment = {"webhook"}
  Concurrency = 1
  BatchSize = 1
  MaxAttempts = 1
  MaxErrors = 2
  MaxStalled = 1
  MaxRuns = 1
  MaxStalls = 1
  MaxVersions = 1
  MaxHooks = 1
SYMMETRY Symmetry
INVARIANT CompletedMeansAllEnded
