SPECIFICATION GroupSpec
CONSTANTS
  Parts = {"keys"}
  Person = {1, 2}
  Creator = 1
  Thread = {t1, t2}
  NoGroup = NoGroup
  NoKey = NoKey
  MaxEpoch = 1
  MaxMessages = 2
  Replica = {1}
  Founder = 1
  MaxReplicaEpoch = 1
  MaxUpdates = 0
INVARIANTS MessageKeysUnique
CHECK_DEADLOCK FALSE
