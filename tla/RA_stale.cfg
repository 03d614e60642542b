\* A retry inside a web request beside one batch worker.
CONSTANTS
  Attachments = {a1}
  Handlers = {h1}
  Workers = {w1}
  Operations = {"analyze", "retry"}
  AiJobStatuses = {"RUNNING"}
  Limit = 2
  NoAttachment = none
  MaxJobs = 2
  MaxRetries = 1
  MaxIncidents = 2
  MaxCrashes = 0
SPECIFICATION Spec
PROPERTY OnlyQueuedIsProcessed
CHECK_DEADLOCK FALSE
