SPECIFICATION Spec
CONSTANTS
  Contacts = {c1, c2}
  Requests = {r1}
  Hooks = {}
  Operations = {"start", "pause", "resume", "remove"}
  Environment = {"smtp"}
  Concurrency = 2
  BatchSize = 1
  MaxAttempts = 1
  MaxErrors = 2
  MaxStalled = 1
  MaxRuns = 1
  MaxStalls = 1
  MaxVersions = 1
  MaxHooks = 0
SYMMETRY Symmetry
INVARIANT LogTellsTruth
INVARIANT CountersMatchLogs
INVARIANT NobodyLeftBehind
INVARIANT CompletedMeansAllEnded
