\* The roles cannot be read in two scans: what they would show is resolved.
SPECIFICATION Spec
CONSTANTS
  ana = ana
  bo = bo
  cy = cy
  app = app
  crm = crm
  login = login
  hop = hop
  Providers = {"m365"}
  Users = {ana, bo, cy}
  Apps = {app, crm}
  Incidents = {login, hop}
  Postures <- MCPostures
  Fallible = {"roles"}
  MaxTroubles = 1
  ResolveAfter = 2
  AdminSprawlThreshold = 1
INVARIANT NothingResolvedWhileTrue
