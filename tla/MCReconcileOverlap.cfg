SPECIFICATION Spec
CONSTANTS
  Fingerprints = {f1}
  Malformed = Malformed
  NoRecord = NoRecord
  Scanners = {s1, s2}
  Operators = {o1}
  ResolveAfter = 2
  Isolated = FALSE
  MaxScans = 4
  MaxReport = 1
  MaxFailures = 1
  Crashes = TRUE
SYMMETRY Interchangeable
INVARIANTS ResolvedIsEarned StoredIsTold
PROPERTIES IdentityIsStable
\* The scans stop at MaxScans.
CHECK_DEADLOCK FALSE
