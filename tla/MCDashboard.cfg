SPECIFICATION Spec
CONSTANTS
  t1 = t1
  t2 = t2
  r1 = r1
  r2 = r2
  team = team
  odd = odd
  Targets = {t1, t2}
  NoTarget = NoTarget
  Requests = {r1, r2}
  Keys = {team, odd}
  NoKey = NoKey
  Junk = Junk
  TierOf <- Tiers
  Free = "free"
  TierLimits <- Limits
  GenericFree = 2
  Channels <- Included
  ChatChannels = {"slack"}
  MaxCrashes = 1
  MaxFailures = 1
SYMMETRY Alike
INVARIANTS TypeOK SavedIsRunning KeyInForceIsStored LimitOverrunIsBounded
PROPERTY RestartKeepsChoices
