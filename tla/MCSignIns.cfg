SPECIFICATION Spec
CONSTANTS
  u1 = u1
  u2 = u2
  a1 = a1
  a2 = a2
  c1 = c1
  c2 = c2
  Users = {u1, u2}
  Addresses = {a1, a2}
  Countries = {c1, c2}
  NoCountry = NoCountry
  NoAddress = NoAddress
  Logs <- SmallLogs
  TravelWindow = 2
  SprayWindow = 2
  SprayMinFailures = 3
  SprayMinAccounts = 2
INVARIANTS TypeOK HopsAreExact SpraysAreExact
\* The checks are over when every group is judged.
CHECK_DEADLOCK FALSE
