SPECIFICATION Spec
CONSTANTS
  Key <- MCKey  Val <- MCVal  PeerInfo <- MCPeerInfo  Scopes <- MCScopes
  Contact = {1, 2}  Envelope = {1, 2}  Group = {1, 2}  Limits = {0, 1, 2}
  Source = {"dht", "mdns"}  Keep = {0, 1, 2}  Cutoff = {0, 1}  Time = {1, 2}
  PrefetchSize = 100  MaxMessages = 2
INVARIANT KeySpaceSound
PROPERTIES BadgerImplements MemoryImplements
CHECK_DEADLOCK FALSE
