\* The peer layer: finding contacts, tracking them, the address book, the
\* node and the reputation of peers.
SPECIFICATION Spec
CONSTANTS
  Contact = {1}
  Peer = {1, 2}
  Addr = {1, 2}
  Name = {"ann", "bob"}
  Caller = {"x", "y"}
  MaxCalls = 2
  Home <- MCHome
  MaxOps = 3
  MaxObjects = 3
  PubKey = {1, 2, 3}
  BookAddr = {1}
  MaxPeers = 2
  BookTime = 1
  MaxChanges = 5
  BootstrapPeers = {1}
  Enough = 2
  FewPeers = 1
  PruneLevels <- MCPruneLevels
  MaxReconnects = 1
  FreeDisconnects = 0
  StartsAgain = FALSE
  MaxChurn = 2
  MaxChecks = 1
  MaxStarts = 2
  MaxKeys = 2
  Self = 1
  Worker = {"v", "w"}
  Responses = {50}
  Adjustments <- MCAdjustments
  HoursPerWeek = 1
  MaxAttestations = 1
  MinHours = 1
  ExpiryTime = 1
  MaxEvents = 2
  MaxAtts = 2
  MaxTime = 2
INVARIANTS
  CacheMatchesStore
  AddrsBelongToPeer
  NodeSound
  ReputationSound
PROPERTIES
  CallsReturn
  PresenceCatchesUp
  BookKept
  EventuallyAdvertised
CHECK_DEADLOCK FALSE
