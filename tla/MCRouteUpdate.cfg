\* Replacements, deletions and every failure, the uncompensable ones apart.
SPECIFICATION FairSpec
CONSTANTS
  Callers = {c1, c2}
  Chars = {"/", "a", "b", "?", " "}
  MaxRoutes = 3
  MaxPathLen = 4
  o1 = o1
  o2 = o2
  self = self
  deep = deep
  Origins <- MCOrigins
  PathOrigins <- MCPathOrigins
  SelfOrigin = self
  Requests <- MCRequests
  Urls <- MCUrls
  NoRoute = NoRoute
  NoTable <- MCNoTable
  NoCaller = NoCaller
  FaultSets <- MCFaultSets
\* A deleted domain is at rest for good.
CHECK_DEADLOCK FALSE
INVARIANTS TypeOK Routable OldOrNew AgreeAtRest DeletedIsUnrouted
PROPERTIES SQLiteFollowsCloudflare LockComesFree
