SPECIFICATION FairSpec
CONSTANTS
  s1 = s1
  NoMsg = NoMsg
  Stream = {c1, c2}
  Msg <- Messages
  MaxMessagesPerTarget = 3
  MaxMessageSize = 2
  MaxTotalBytesPerTarget = 4
  DefaultTTL = 1
  DepositRateLimit = 1
  HourLength = 1
  Second = 2
  PrefetchSize = 2
  MaxTime = 3
  MaxDeposits = 4
  MaxRestarts = 1
INVARIANTS AcceptedRetained QuotasHold
 
CHECK_DEADLOCK FALSE
