\* A request for analysis and a deletion of the attachment.
CONSTANTS
  Attachments = {a1}
  Handlers = {h1, h2}
  Workers = {}
  Operations = {"analyze", "dropAttachment"}
  AiJobStatuses = {"RUNNING"}
  Limit = 2
  NoAttachment = none
  MaxJobs = 2
  MaxRetries = 1
  MaxIncidents = 2
  MaxCrashes = 0
SPECIFICATION Spec
INVARIANT DeletedNotAnalysed
CHECK_DEADLOCK FALSE
