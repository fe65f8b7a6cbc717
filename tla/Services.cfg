\* Broadcast channels, public groups, group calls, identity documents, message
\* history, device synchronisation, fan-out and codecs.
SPECIFICATION Spec
CONSTANTS
  Channel = {1, 2}
  Subscriber = {1, 2}
  MaxPosts = 3
  MaxClock = 2
  MaxOps = 2
  Member = {1, 2}
  Creator = 1
  Reader = {"r", "s"}
  Limit = 2
  Window = 2
  Durations = {1, 2}
  Word = 16
  Start = 3
  MaxNow = 6
  MaxCalls = 4
  Call = {1, 2}
  Group = {1}
  Ident = {1, 2, 3}
  Self = 2
  MinSFU = 2
  MaxParticipants = 3
  Thread = {"t", "u"}
  MaxCallOps = 5
  Device = {1, 2}
  First = 1
  Day = 1
  SPKRotation = 1
  SPKOverlap = 1
  CheckEvery = 1
  SequenceWord = 3
  MaxDocs = 3
  MaxDays = 3
  User = {1, 2}
  Stranger = 9
  MaxSent = 2
  MaxSeconds = 2
  MaxAdds = 3
  MaxCopies = 4
  Contact = {1, 2}
  Asker = 1
  Main = "t"
  PayloadSizes = {16}
  MaxHandled = 3
  Recipient = {1, 2, 3}
  SymmetricFrom = 3
  MaxSends = 3
  Name = {"opus", "PCMU", "PCMA", "VP9", "VP8", "other"}
  Payload = {96, 300}
  MaxLines = 3
INVARIANTS
  ChannelsSound
  ModerationHolds
  GroupCallsSound
  DocumentsSound
  HistorySound
  SyncSound
  FanoutSound
  CodecsAgreed
PROPERTY ForwarderReplaced
CHECK_DEADLOCK FALSE
