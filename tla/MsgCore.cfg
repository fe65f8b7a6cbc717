SPECIFICATION FairSpec
CONSTANTS
  a = a  b = b  c = c  d = d  x = x  y = y  NoMessage = NoMessage
  Incoming = {a, b, c, d}  Forged = {b}  Direct = {d}  Outgoing = {x, y}
  Traffic = {{a, b, c}, {d, x, y}}  Nonces <- OneDraw
  SubCap = 2  ChanCap = 1  EventCap = 1
  MaxStarts = 1  MaxCrashes = 1  MaxTime = 1
INVARIANTS StopLeavesNothing SentHistory
PROPERTIES ReceivedHandled StopReturns
CHECK_DEADLOCK FALSE
