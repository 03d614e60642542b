\* Two web threads that analyse and retry beside a worker, with a kill.
CONSTANTS
  Attachments = {a1}
  Handlers = {h1, h2}
  Workers = {w1}
  Operations = {"analyze", "retry"}
  AiJobStatuses = {"RUNNING"}
  Limit = 2
  NoAttachment = none
  MaxJobs = 2
  MaxRetries = 2
  MaxIncidents = 0
  MaxCrashes = 1
SPECIFICATION Spec
INVARIANT RunningHasRunner
PROPERTY RunsEnd
CHECK_DEADLOCK FALSE
