SPECIFICATION FairSpec
CONSTANTS
  Targets = {t1, t2}
  Goroutines = {g1, g2}
  Workers = 1
  Interval = 1
  RetryBase = 1
  RetryMax = 2
  MaxFailures = 2
  Adds = FALSE
  ScanNows = FALSE
PROPERTIES RegisteredIsScanned RemovedGoesQuiet StopTerminates
\* A stopped scheduler has nothing left to do.
CHECK_DEADLOCK FALSE
