CONSTANTS
  s1 = s1
  s2 = s2
  NoServer = NoServer
  Servers <- MCServers
  Scripts <- MCScripts
  MaxRedirects = 2
  MaxViews = 1
  MaxCrashes = 1
SPECIFICATION Spec
INVARIANTS OwnAnswer EffectsMatchAnswer RedirectReachesLeader
PROPERTY Returns
CHECK_DEADLOCK FALSE
