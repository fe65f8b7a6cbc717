SPECIFICATION Spec
CONSTANTS
  p = p  q = q  t1 = t1  t2 = t2  cleaner = cleaner
  l1 = l1  l2 = l2  r1 = r1  r2 = r2
  NoCall = NoCall  NoPeer = NoPeer  NoSession = NoSession  Free = Free
  Thread <- MCThreads  Cleaner = cleaner  Peer = {p}
  LocalCall = {l1}  RemoteCall = {r1, r2}  Repeated = {r2}
  Ops <- AllOps
  OfferTimeout = 1  MaxTime = 2
SYMMETRY Symmetry
INVARIANT CallsAgree
PROPERTY StatesAdvance
CHECK_DEADLOCK FALSE
