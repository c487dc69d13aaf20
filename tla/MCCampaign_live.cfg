SPECIFICATION FairSpec
CONSTANTS
  Contacts = {c1, c2}
  Requests = {r1}
  Hooks = {}
  Operations = {"start", "pause", "remove"}
  Environment = {}
  Concurrency = 1
  BatchSize = 1
  MaxAttempts = 2
  MaxErrors = 1
  MaxStalled = 1
  MaxRuns = 1
  MaxStalls = 1
  MaxVersions = 1
  MaxHooks = 0
INVARIANT AutoPauseArmed
INVARIANT PauseLatency
PROPERTY SendingEnds
PROPERTY JobsDrain
PROPERTY ImplementsFairDelivery
