SPECIFICATION FairSpec
CONSTANTS
  a = a
  b = b
  u = u
  s = s
  r1 = r1
  r2 = r2
  Ids <- TwoIds
  Urls <- OneUrl
  Scopes <- TwoScopes
  Requests <- TwoRequests
  MaxManagers = 2
  MaxEdits = 1
INVARIANTS
  CachedIffServing
  ServesRecordAsResolved
  StopLeavesOnlyEvicted
PROPERTIES
  StopCompletes
CHECK_DEADLOCK FALSE
