\* The deployment: one administrator at a time and the one worker of the timer.
CONSTANTS
  Models = {m1, m2}
  Handlers = {h1}
  Workers = {w1}
  Limit = 2
  NoRun = none
  MaxBatches = 3
  MaxCrashes = 2
SPECIFICATION Spec
INVARIANTS BatchSummarisesRuns OneBatchPerChoice
PROPERTY BatchEnds
CHECK_DEADLOCK FALSE
