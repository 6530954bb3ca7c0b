SPECIFICATION FairSpec
CONSTANTS
  d1 = d1
  d2 = d2
  d3 = d3
  k1 = k1
  s1 = s1
  s2 = s2
  Targets = {d1, d2, d3}
  Scans = {s1, s2}
  Keys = {k1}
  NoKey = NoKey
  CredsOf <- TwoDomainsOfOne
  ScanTimeout = 2
  Margin = 5
  DefaultLife = 8
  Grants <- SomeGrants
  MaxRevocations = 1
INVARIANTS TypeOK TokenOutlivesScan
PROPERTY EventuallyClean
