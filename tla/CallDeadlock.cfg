SPECIFICATION FairSpec
CONSTANTS
  p = p  q = q  t1 = t1  t2 = t2  cleaner = cleaner
  l1 = l1  l2 = l2  r1 = r1  r2 = r2
  NoCall = NoCall  NoPeer = NoPeer  NoSession = NoSession  Free = Free
  Thread = {t1}  Cleaner = cleaner  Peer = {p, q}
  LocalCall = {l1}  RemoteCall = {r1}  Repeated = {}
  Ops <- RunningOps
  OfferTimeout = 1  MaxTime = 3
PROPERTY OffersExpire
CHECK_DEADLOCK FALSE
