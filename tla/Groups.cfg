SPECIFICATION GroupSpec
CONSTANTS
  Parts = {"keys", "replicas"}
  Person = {1, 2}
  Creator = 1
  Thread = {t1}
  NoGroup = NoGroup
  NoKey = NoKey
  MaxEpoch = 4
  MaxMessages = 3
  Replica = {1, 2, 3}
  Founder = 2
  MaxReplicaEpoch = 5
  MaxUpdates = 4
INVARIANTS OnlyMembersRead MessageKeysUnique KeysContinue LineageSound
PROPERTIES EpochsNeverDecrease
CHECK_DEADLOCK FALSE
