SPECIFICATION Spec
CONSTANTS
  Initiator = Initiator
  Responder = Responder
  Nil = Nil
  MaxSkippedKeys = 1
  MaxSends = 3
  Window = 3
  CrossChain = TRUE
  MaxDups = 1
  MaxLosses = 1
INVARIANTS
  SkippedKeysBounded
  NoKeyReuse
  ForwardSecrecy
CHECK_DEADLOCK FALSE
