SPECIFICATION Spec
CONSTANTS
  Fingerprints = {f1}
  Malformed = Malformed
  NoRecord = NoRecord
  Scanners = {s1}
  Operators = {o1}
  ResolveAfter = 2
  Isolated = FALSE
  MaxScans = 2
  MaxReport = 1
  MaxFailures = 0
  Crashes = FALSE
PROPERTY SuppressedIsOperators
\* The scans stop at MaxScans.
CHECK_DEADLOCK FALSE
