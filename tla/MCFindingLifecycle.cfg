\* Two findings that share the Tell step; two misses resolve, the module's value.
SPECIFICATION FairSpec
CONSTANTS
  Fingerprints = {f1, f2}
  ResolveAfter = 2
INVARIANTS TypeOK NewsMatchesFinding
PROPERTY UnreportedSettles
