\* Two requests for the analysis of one attachment.
CONSTANTS
  Attachments = {a1}
  Handlers = {h1, h2}
  Workers = {}
  Operations = {"analyze"}
  AiJobStatuses = {"RUNNING"}
  Limit = 2
  NoAttachment = none
  MaxJobs = 2
  MaxRetries = 1
  MaxIncidents = 2
  MaxCrashes = 0
SPECIFICATION Spec
INVARIANT NoDuplicateActiveJob
CHECK_DEADLOCK FALSE
