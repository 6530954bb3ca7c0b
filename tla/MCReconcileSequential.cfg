SPECIFICATION Spec
CONSTANTS
  Fingerprints = {f1, f2}
  Malformed = Malformed
  NoRecord = NoRecord
  Scanners = {s1}
  Operators = {o1}
  ResolveAfter = 2
  Isolated = TRUE
  MaxScans = 4
  MaxReport = 2
  MaxFailures = 1
  Crashes = TRUE
INVARIANTS TypeOK NewsMatchesStore ResolvedIsLongUnseen
PROPERTIES ImplementsLifecycle NewsIsStored StatusIsOperators
\* The scans stop at MaxScans.
CHECK_DEADLOCK FALSE
