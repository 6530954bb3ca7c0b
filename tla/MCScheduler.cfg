SPECIFICATION Spec
CONSTANTS
  Targets = {t1, t2}
  Goroutines = {g1, g2, g3}
  Workers = 2
  Interval = 1
  RetryBase = 1
  RetryMax = 2
  MaxFailures = 2
  Adds = TRUE
  ScanNows = TRUE
SYMMETRY Interchangeable
INVARIANTS TypeOK WorkersBounded GroupCounts StopWaitsForSweeps
\* A stopped scheduler has nothing left to do.
CHECK_DEADLOCK FALSE
