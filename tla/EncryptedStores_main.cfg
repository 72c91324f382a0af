SPECIFICATION Spec
CONSTANTS
  p1 = p1
  p2 = p2
  connections = connections
  providers = providers
  rec = rec
  right = right
  wrong = wrong
  Procs <- TwoProcs
  Stores <- BothStores
  Locked <- OnlyConnections
  Records <- OneRecord
  Passphrases <- TwoPassphrases
  MaxKeys = 2
  MaxSalts = 2
SYMMETRY Symmetry
INVARIANT MemoryMatchesDisk
INVARIANT KeyIsRecoverable
INVARIANT LockFollowsStore
