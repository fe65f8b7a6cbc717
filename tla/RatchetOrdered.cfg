SPECIFICATION FairSpec
CONSTANTS
  Initiator = Initiator
  Responder = Responder
  Nil = Nil
  MaxSkippedKeys = 3
  MaxSends = 3
  Window = 3
  CrossChain = FALSE
  MaxDups = 0
  MaxLosses = 1
INVARIANTS
  TypeOK
  NoDecryptFailure
PROPERTIES
  EventuallyDecrypted
CHECK_DEADLOCK FALSE
