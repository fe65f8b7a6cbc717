\* A candidate that leaves before its election is confirmed.
SPECIFICATION Spec
CONSTANTS
  Call = {1}
  Group = {1}
  Ident = {1, 2, 3}
  Self = 2
  MinSFU = 2
  MaxParticipants = 3
  Thread = {"t"}
  MaxOps = 5
PROPERTY ElectedIsConnected
CHECK_DEADLOCK FALSE
