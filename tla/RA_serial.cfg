\* One web thread, one worker: the promise of the analysis is kept, across crashes.
CONSTANTS
  Attachments = {a1, a2}
  Handlers = {h1}
  Workers = {w1}
  Operations = {"analyze", "attach", "dropAttachment", "dropReport", "setStatus"}
  AiJobStatuses = {"QUEUED", "RUNNING"}
  Limit = 2
  NoAttachment = none
  MaxJobs = 3
  MaxRetries = 0
  MaxIncidents = 2
  MaxCrashes = 2
SPECIFICATION Spec
INVARIANTS TypeOK NoDuplicateActiveJob DeletedNotAnalysed AtMostOneIncident
PROPERTY ImplementsPromise
CHECK_DEADLOCK FALSE
