SPECIFICATION Spec
CONSTANTS
  Posts = {p1, p2}
  Emails = {e1}
  HourlyLimit = 1
  Attempts = 2
  Concurrency = 2
  MaxEvents = 2
INVARIANT MailsMatchFate
INVARIANT OnePerWindow
INVARIANT StatsAddUp
PROPERTY SubmissionSettles
CHECK_DEADLOCK FALSE
