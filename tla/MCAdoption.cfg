SPECIFICATION MCSpec
CHECK_DEADLOCK FALSE
CONSTANTS
  p1 = p1
  p2 = p2
  p3 = p3
  Procs = {p1, p2, p3}
  MaxDepth = 2
  MaxCrashes = 2
  Profiles <- MCProfiles
  Payload <- MCPayload
  Seeds <- MCSeeds
  Config = "config"
  Synced <- MCSynced
  Previews <- MCPreviews
  MaxPackage = 2
  MaxEdits = 1
  MaxInstalls = 2
INVARIANTS
  Exclusive
  RecoveryAccepted

  
