\* Two workers on the same batches (one run by hand beside the timer's).
CONSTANTS
  Models = {m1, m2}
  Handlers = {h1}
  Workers = {w1, w2}
  Limit = 2
  NoRun = none
  MaxBatches = 2
  MaxCrashes = 1
SPECIFICATION Spec
INVARIANTS TypeOK NoRunForgotten
SYMMETRY Interchangeable
CHECK_DEADLOCK FALSE
