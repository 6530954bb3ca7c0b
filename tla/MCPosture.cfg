\* Both clouds.  In each scan the tenant changes once between two calls, or one
\* call fails: an essential one, a noted one, or DNS.
SPECIFICATION Spec
CONSTANTS
  ana = ana
  bo = bo
  cy = cy
  app = app
  crm = crm
  login = login
  hop = hop
  Providers = {"m365", "gws"}
  Users = {ana, bo, cy}
  Apps = {app, crm}
  Incidents = {login, hop}
  Postures <- MCPostures
  Fallible = {"users", "roles", "dns"}
  MaxTroubles = 1
  ResolveAfter = 2
  AdminSprawlThreshold = 1
INVARIANTS TypeOK ReadProblemsStayOpen SettlesOnTenant
