\* f1 is below the minimum severity, so that only its resolution goes.  A window
\* closes at three events, so that it may hold the opening and the resolution of f2
\* when the opening comes again.
SPECIFICATION FairSpec
CONSTANTS
  f1 = f1
  f2 = f2
  Fingerprints = {f1, f2}
  Minor = {f1}
  Channels = {c1, c2}
  MaxBatch = 3
  Retries = 2
  MaxChanges <- MCMaxChanges
INVARIANTS TypeOK NothingStranded BatchesAreBounded CloseIsFinal EventsLeaveOnce
PROPERTIES OnlyExcusedEventsDropped PendingIsSettled
\* Changes stop at MaxChanges.
CHECK_DEADLOCK FALSE
