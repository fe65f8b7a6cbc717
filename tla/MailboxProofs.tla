---------------------------- MODULE MailboxProofs ----------------------------
(***************************************************************************)
(* Proofs about Mailbox, for any messages, streams, limits and clocks:     *)
(*   - the rate limit is exceeded by no more than the other streams, in    *)
(*     every behaviour (RateLimited);                                      *)
(*   - the count quota holds (Quotas) and what was stored is retained      *)
(*     (Retained), but for the keys and metadata a cleanup of more items   *)
(*     than a Badger iterator reads ahead takes for expired messages: the  *)
(*     histories overrun and lost, which only such items enter.            *)
(***************************************************************************)
EXTENDS Mailbox, FiniteSetTheorems, TLAPS

-----------------------------------------------------------------------------
(* The inductive invariants *)

Pair == Sender \X Target
PairOf(m) == <<m.sender, m.target>>

\* Deposits of p counted this hour.
Count(p) == IF p \in DOMAIN rate /\ rate[p].bucket = Hour THEN rate[p].count ELSE 0

\* Streams between isRateLimited and incrementRateLimit, and those of them that
\* have stored their message.
Passed(p) == {c \in Stream : pc[c] \in {"store", "stored"} /\ PairOf(req[c]) = p}
Storing(p) == {c \in Stream : pc[c] = "stored" /\ PairOf(req[c]) = p}

\* Every stream that passed the check will at most count once more.
Within(p) ==
  /\ accepts[p] <= Count(p) + Cardinality(Storing(p))
  /\ Count(p) + Cardinality(Passed(p)) <= DepositRateLimit + Cardinality(Stream) - 1

RateInv ==
  /\ \A p \in DOMAIN rate : rate[p].bucket <= Hour
  /\ \A p \in Pair : Within(p)

RInv == TypeOK /\ RateInv

\* A message that is still due is in the store, with an expiry less than a
\* second short of what it was accepted for.
RetainInv ==
  \A m \in Msg :
    accepted[m] - (Second - 1) >= now /\ m \notin acked /\ Key(m) \notin evicted \cup overrun =>
      Key(m) \in DOMAIN box /\ box[Key(m)].expires >= accepted[m] - (Second - 1)

-----------------------------------------------------------------------------
(* Arithmetic of hours and positions *)

LEMMA DivBounds ==
  ASSUME NEW a \in Nat, NEW h \in Nat \ {0}
  PROVE  /\ a \div h \in Nat
         /\ h * (a \div h) <= a /\ a < h * (a \div h) + h
OBVIOUS

LEMMA DivMonotone ==
  ASSUME NEW a \in Nat, NEW b \in Nat, NEW h \in Nat \ {0}, a <= b
  PROVE  a \div h <= b \div h
<1>1. PICK q \in Nat : q = a \div h
  BY DivBounds
<1>2. PICK r \in Nat : r = b \div h
  BY DivBounds
<1>3. h * q <= a /\ b < h * r + h
  BY <1>1, <1>2, DivBounds
<1>4. SUFFICES ASSUME r + 1 <= q PROVE FALSE
  BY <1>1, <1>2
<1>5. h * (r + 1) <= h * q
  BY <1>4
<1>6. h * (r + 1) = h * r + h
  OBVIOUS
<1>7. h * q \in Nat /\ h * r \in Nat
  OBVIOUS
<1> QED BY <1>3, <1>5, <1>6, <1>7

LEMMA UnixBounds ==
  ASSUME NEW a \in Nat
  PROVE  Unix(a) \in Nat /\ Unix(a) >= a - (Second - 1)
<1>1. Second \in Nat \ {0}
  BY ConfigAssumption
<1>2. a % Second \in Nat /\ a % Second < Second /\ a % Second <= a
  BY <1>1
<1> QED BY <1>1, <1>2 DEF Unix

LEMMA HourType ==
  ASSUME NEW a \in Nat, NEW b \in Nat, a <= b
  PROVE  /\ a \div (Second * HourLength) \in Nat
         /\ a \div (Second * HourLength) <= b \div (Second * HourLength)
<1>1. Second * HourLength \in Nat \ {0}
  <2>1. \A x, y \in Nat \ {0} : x * y \in Nat \ {0}
    OBVIOUS
  <2> QED BY <2>1, ConfigAssumption
<1> QED BY <1>1, DivBounds, DivMonotone

-----------------------------------------------------------------------------
(* Maps and keys *)

LEMMA Keys ==
  /\ \A m \in Msg : Key(m) \in Nat \X Nat /\ m.target \in Target /\ m.sender \in Sender
  /\ \A m, n \in Msg : Key(m) = Key(n) => m = n
BY MsgAssumption DEF Key, Target, Sender

LEMMA FiniteStore ==
  ASSUME TypeOK
  PROVE  /\ IsFiniteSet(DOMAIN box) /\ IsFiniteSet(DOMAIN meta)
         /\ Cardinality(DOMAIN box) \in Nat /\ Cardinality(DOMAIN meta) \in Nat
         /\ DOMAIN box \subseteq Nat \X Nat
<1>1. IsFiniteSet({Key(m) : m \in Msg}) /\ IsFiniteSet({m.target : m \in Msg})
  <2>1. ASSUME NEW f, f = [m \in Msg |-> f[m]] PROVE IsFiniteSet({f[m] : m \in Msg})
    <3>1. f \in Surjection(Msg, {f[m] : m \in Msg})
      BY <2>1 DEF Surjection
    <3> QED BY <3>1, FS_Surjection, MsgAssumption
  <2>2. IsFiniteSet({[n \in Msg |-> Key(n)][m] : m \in Msg})
        /\ IsFiniteSet({[n \in Msg |-> n.target][m] : m \in Msg})
    BY <2>1
  <2> QED BY <2>2
<1>2. IsFiniteSet(DOMAIN box) /\ IsFiniteSet(DOMAIN meta)
  BY <1>1, FS_Subset DEF TypeOK, Target
<1>3. DOMAIN box \subseteq Nat \X Nat
  BY Keys DEF TypeOK
<1> QED BY <1>2, <1>3, FS_CardinalityType

-----------------------------------------------------------------------------
(* Types *)

LEMMA InitTypes == Init => TypeOK
BY MsgAssumption, ConfigAssumption DEF Init, TypeOK, Target, Sender

LEMMA NextTypes == TypeOK /\ [Next]_vars => TypeOK'
<1> SUFFICES ASSUME TypeOK, [Next]_vars PROVE TypeOK'
  OBVIOUS
<1> USE MsgAssumption, ConfigAssumption
<1> DEFINE BoxOK == DOMAIN box \subseteq {Key(m) : m \in Msg} /\ \A k \in DOMAIN box : box[k] \in [expires : Nat]
           MetaOK == DOMAIN meta \subseteq Target /\ \A t \in DOMAIN meta : meta[t] \in [count : Nat, bytes : Nat]
           RateOK == DOMAIN rate \subseteq Sender \X Target
                     /\ \A p \in DOMAIN rate : rate[p] \in [count : Nat, bucket : Nat]
           HandlerOK == /\ pc \in [Stream -> {"idle", "check", "store", "stored"}]
                        /\ req \in [Stream -> Msg \cup {NoMsg}]
                        /\ \A c \in Stream : pc[c] = "idle" <=> req[c] = NoMsg
           ClockOK == now \in Nat /\ deposits \in Nat /\ restarts \in Nat
           GhostOK == /\ accepted \in [Msg -> Nat] /\ acked \subseteq Msg
                      /\ lost \in [Target -> Nat] /\ accepts \in [Sender \X Target -> Nat]
<1>1. BoxOK /\ MetaOK /\ RateOK /\ HandlerOK /\ ClockOK /\ GhostOK
  BY DEF TypeOK
<1>2. BoxOK' /\ MetaOK' /\ RateOK' /\ HandlerOK' /\ ClockOK' /\ GhostOK' => TypeOK'
  BY DEF TypeOK
<1>3. /\ box' = box => BoxOK'
      /\ meta' = meta => MetaOK'
      /\ rate' = rate => RateOK'
      /\ pc' = pc /\ req' = req => HandlerOK'
      /\ UNCHANGED <<now, deposits, restarts>> => ClockOK'
      /\ UNCHANGED <<accepted, acked, lost, accepts>> => GhostOK'
  BY <1>1
<1>4. ASSUME NEW S, S \subseteq DOMAIN box, box' = Restrict(box, S) PROVE BoxOK'
  BY <1>1, <1>4 DEF Restrict
<1>5. ASSUME NEW c \in Stream, Close(c) PROVE HandlerOK'
  BY <1>1, <1>5 DEF Close, Goto
<1>6. ASSUME NEW c \in Stream, pc[c] # "idle"
      PROVE  req[c] \in Msg /\ req[c].target \in Target /\ req[c].sender \in Sender
             /\ Key(req[c]) \in {Key(m) : m \in Msg} /\ req[c].size \in Nat
  BY <1>1, <1>6, Keys
<1>7. Hour \in Nat
  <2>1. now \in Nat /\ now <= now
    BY <1>1
  <2> QED BY <2>1, HourType DEF Hour
<1> HIDE DEF BoxOK, MetaOK, RateOK, HandlerOK, ClockOK, GhostOK
<1>8. ASSUME NEW c \in Stream, NEW m \in Msg, OpenDeposit(c, m) PROVE TypeOK'
  <2>1. HandlerOK'
    BY <1>1, <1>8 DEF OpenDeposit, Goto, HandlerOK
  <2>2. ClockOK'
    BY <1>1, <1>8 DEF OpenDeposit, ClockOK
  <2> QED BY <1>2, <1>3, <1>8, <2>1, <2>2 DEF OpenDeposit
<1>9. ASSUME NEW c \in Stream, CheckRate(c) PROVE TypeOK'
  <2>1. CASE Close(c)
    BY <1>2, <1>3, <1>5, <1>9, <2>1 DEF CheckRate
  <2>2. CASE Goto(c, "store") /\ UNCHANGED req
    <3>1. HandlerOK'
      BY <1>1, <1>9, <2>2 DEF CheckRate, Goto, HandlerOK
    <3> QED BY <1>2, <1>3, <1>9, <3>1 DEF CheckRate
  <2> QED BY <1>9, <2>1, <2>2 DEF CheckRate
<1>10. ASSUME NEW c \in Stream, Store(c) PROVE TypeOK'
  <2>1. req[c] \in Msg /\ req[c].target \in Target /\ req[c].sender \in Sender
        /\ Key(req[c]) \in {Key(m) : m \in Msg} /\ req[c].size \in Nat
    BY <1>6, <1>10 DEF Store
  <2>2. expiresAt \in Nat /\ Unix(expiresAt) \in Nat
    <3>1. expiresAt \in Nat
      BY <1>1 DEF ClockOK, expiresAt
    <3> QED BY <3>1, UnixBounds
  <2>3. BoxOK'
    <3> DEFINE r == Restrict(box, DOMAIN box \ checkQuota(req[c].target))
    <3>1. box' = Put(r, Key(req[c]), [expires |-> Unix(expiresAt)])
      BY <1>10 DEF Store, StoreMessage
    <3>2. DOMAIN r \subseteq DOMAIN box /\ \A k \in DOMAIN r : r[k] = box[k]
      BY DEF Restrict
    <3> HIDE DEF r
    <3>3. DOMAIN box' = DOMAIN r \cup {Key(req[c])}
          /\ box'[Key(req[c])] = [expires |-> Unix(expiresAt)]
          /\ \A k \in DOMAIN r : k # Key(req[c]) => box'[k] = r[k]
      BY <3>1 DEF Put
    <3> QED BY <1>1, <2>1, <2>2, <3>2, <3>3 DEF BoxOK
  <2>4. MetaOK'
    <3> DEFINE t == req[c].target
               old == IF HasMeta(t) THEN meta[t] ELSE [count |-> 0, bytes |-> 0]
               new == [count |-> old.count + 1, bytes |-> old.bytes + req[c].size]
    <3>1. meta' = Put(meta, t, new)
      BY <1>10 DEF Store, StoreMessage, updateMetadata
    <3>2. old \in [count : Nat, bytes : Nat]
      BY <1>1 DEF MetaOK, HasMeta
    <3> HIDE DEF old
    <3>3. new \in [count : Nat, bytes : Nat]
      BY <2>1, <3>2
    <3> HIDE DEF new
    <3>4. DOMAIN meta' = DOMAIN meta \cup {t} /\ meta'[t] = new
          /\ \A u \in DOMAIN meta : u # t => meta'[u] = meta[u]
      BY <3>1 DEF Put
    <3> QED BY <1>1, <2>1, <3>3, <3>4 DEF MetaOK
  <2>5. HandlerOK'
    BY <1>1, <1>10 DEF Store, Goto, HandlerOK
  <2>6. GhostOK'
    BY <1>1, <1>10, <2>1, <2>2 DEF Store, GhostOK
  <2> QED BY <1>2, <1>3, <1>10, <2>3, <2>4, <2>5, <2>6 DEF Store
<1>11. ASSUME NEW c \in Stream, StoreRejected(c) PROVE TypeOK'
  BY <1>2, <1>3, <1>5, <1>11 DEF StoreRejected
<1>12. ASSUME NEW c \in Stream, StoreFails(c) PROVE TypeOK'
  <2>1. BoxOK'
    BY <1>4, <1>12 DEF StoreFails, DeleteMessages
  <2> QED BY <1>2, <1>3, <1>5, <1>12, <2>1 DEF StoreFails
<1>13. ASSUME NEW c \in Stream, Finish(c) PROVE TypeOK'
  <2> DEFINE p == <<req[c].sender, req[c].target>>
             n == IF p \in DOMAIN rate /\ rate[p].bucket = Hour THEN rate[p].count ELSE 0
             new == [count |-> n + 1, bucket |-> Hour]
  <2>1. p \in Sender \X Target
    BY <1>6, <1>13 DEF Finish
  <2>2. n \in Nat
    BY <1>1 DEF RateOK
  <2>3. rate' = Put(rate, p, new)
    BY <1>13 DEF Finish, incrementRateLimit
  <2> HIDE DEF n
  <2>4. new \in [count : Nat, bucket : Nat]
    BY <1>7, <2>2
  <2> HIDE DEF new, p
  <2>5. DOMAIN rate' = DOMAIN rate \cup {p} /\ rate'[p] = new
        /\ \A u \in DOMAIN rate : u # p => rate'[u] = rate[u]
    BY <2>3 DEF Put
  <2>6. RateOK'
    BY <1>1, <2>1, <2>4, <2>5 DEF RateOK
  <2> QED BY <1>2, <1>3, <1>5, <1>13, <2>6 DEF Finish
<1>14. ASSUME NEW t \in Target, Retrieve(t) PROVE TypeOK'
  BY <1>2, <1>3, <1>14 DEF Retrieve
<1>15. ASSUME NEW t \in Target, Acknowledge(t) PROVE TypeOK'
  <2>1. BoxOK'
    BY <1>4, <1>15 DEF Acknowledge, DeleteMessages
  <2>2. GhostOK'
    BY <1>1, <1>15 DEF Acknowledge, GhostOK
  <2> QED BY <1>2, <1>3, <1>15, <2>1, <2>2 DEF Acknowledge
<1>16. CASE CleanupExpired
  <2>1. BoxOK'
    BY <1>4, <1>16 DEF CleanupExpired
  <2>2. MetaOK'
    BY <1>1, <1>16 DEF CleanupExpired, MetaOK, Restrict
  <2>3. \A t \in DOMAIN meta : meta[t].count \in Nat
    BY <1>1 DEF MetaOK
  <2>4. GhostOK'
    BY <1>1, <1>16, <2>3 DEF CleanupExpired, GhostOK
  <2> QED BY <1>2, <1>3, <1>16, <2>1, <2>2, <2>4 DEF CleanupExpired
<1>17. CASE Tick
  <2>1. ClockOK'
    BY <1>1, <1>17 DEF Tick, ClockOK
  <2>2. GhostOK'
    BY <1>1, <1>17 DEF Tick, GhostOK
  <2> QED BY <1>2, <1>3, <1>17, <2>1, <2>2 DEF Tick
<1>18. CASE Restart
  <2>1. HandlerOK' /\ RateOK'
    BY <1>18 DEF Restart, HandlerOK, RateOK
  <2>2. ClockOK' /\ GhostOK'
    BY <1>1, <1>18 DEF Restart, ClockOK, GhostOK
  <2> QED BY <1>2, <1>3, <1>18, <2>1, <2>2 DEF Restart
<1>19. CASE UNCHANGED vars
  BY <1>2, <1>3, <1>19 DEF vars
<1> QED BY <1>8, <1>9, <1>10, <1>11, <1>12, <1>13, <1>14, <1>15, <1>16, <1>17, <1>18, <1>19
        DEF Next, Handler

-----------------------------------------------------------------------------
(* The rate limit *)

LEMMA Streams ==
  ASSUME NEW S \in SUBSET Stream
  PROVE  IsFiniteSet(S) /\ Cardinality(S) \in Nat /\ Cardinality(S) <= Cardinality(Stream)
         /\ Cardinality(Stream) \in Nat
BY ConfigAssumption, FS_Subset, FS_CardinalityType

LEMMA InitRate == Init => RateInv
<1> SUFFICES ASSUME Init PROVE RateInv
  OBVIOUS
<1>1. \A p \in Pair : Count(p) = 0 /\ Storing(p) = {} /\ Passed(p) = {} /\ accepts[p] = 0
  BY DEF Init, Count, Storing, Passed, Pair
<1>2. Cardinality({}) = 0 /\ Cardinality(Stream) \in Nat
  BY FS_EmptySet, ConfigAssumption, FS_CardinalityType
<1>3. DOMAIN rate = {}
  BY DEF Init
<1>4. ASSUME NEW p \in Pair PROVE Within(p)
  <2>1. Count(p) = 0 /\ accepts[p] = 0 /\ Cardinality(Storing(p)) = 0 /\ Cardinality(Passed(p)) = 0
    BY <1>1, <1>2
  <2>2. DepositRateLimit \in Nat \ {0}
    BY ConfigAssumption
  <2> QED BY <1>2, <2>1, <2>2 DEF Within
<1> QED BY <1>3, <1>4 DEF RateInv

\* What a step may do to p: nothing is counted, and fewer streams are on their
\* way.
LEMMA RateFrame ==
  ASSUME RInv, TypeOK', rate' = rate, Hour' = Hour,
         NEW p \in Pair, accepts'[p] = accepts[p],
         Storing(p)' = Storing(p), Passed(p)' \subseteq Passed(p)
  PROVE  Within(p)'
<1>1. Passed(p) \in SUBSET Stream /\ Passed(p)' \in SUBSET Stream
  BY DEF Passed
<1>2. Cardinality(Passed(p)') <= Cardinality(Passed(p))
      /\ Cardinality(Passed(p)') \in Nat /\ Cardinality(Passed(p)) \in Nat
      /\ Cardinality(Stream) \in Nat
  BY <1>1, Streams, FS_Subset
<1>3. Count(p)' = Count(p)
  BY DEF Count
<1>4. Count(p) \in Nat
  BY DEF Count, RInv, TypeOK
<1> QED BY <1>2, <1>3, <1>4, ConfigAssumption DEF RInv, RateInv, Within

LEMMA NextRate == RInv /\ [Next]_vars => RateInv'
<1> SUFFICES ASSUME RInv, [Next]_vars PROVE RateInv'
  OBVIOUS
<1> USE ConfigAssumption
<1>1. TypeOK /\ TypeOK' /\ RateInv
  BY NextTypes DEF RInv
<1>2. /\ pc \in [Stream -> {"idle", "check", "store", "stored"}] /\ req \in [Stream -> Msg \cup {NoMsg}]
      /\ \A c \in Stream : pc[c] # "idle" => req[c] \in Msg /\ PairOf(req[c]) \in Pair
      /\ Hour \in Nat /\ now \in Nat
      /\ \A p \in Pair : Count(p) \in Nat
      /\ \A p \in DOMAIN rate : p \in Pair /\ rate[p].bucket \in Nat /\ rate[p].count \in Nat
      /\ accepts \in [Pair -> Nat]
  <2>1. Hour \in Nat /\ now \in Nat
    <3>1. now \in Nat /\ now <= now
      BY <1>1 DEF TypeOK
    <3> QED BY <3>1, HourType DEF Hour
  <2>2. \A c \in Stream : pc[c] # "idle" => req[c] \in Msg /\ PairOf(req[c]) \in Pair
    BY <1>1, Keys DEF TypeOK, PairOf, Pair
  <2> QED BY <1>1, <2>1, <2>2 DEF TypeOK, Pair, Count
<1>3. ASSUME rate' = rate, Hour' = Hour, accepts' = accepts,
             \A p \in Pair : Storing(p)' = Storing(p) /\ Passed(p)' \subseteq Passed(p)
      PROVE  RateInv'
  <2>1. \A p \in DOMAIN rate' : rate'[p].bucket <= Hour'
    BY <1>1, <1>3 DEF RateInv
  <2>2. \A p \in Pair : Within(p)'
    BY <1>1, <1>3, RateFrame DEF RInv
  <2> QED BY <2>1, <2>2 DEF RateInv
<1>4. ASSUME NEW c \in Stream, pc[c] \in {"idle", "check", "store"}, Close(c),
             rate' = rate, now' = now, accepts' = accepts
      PROVE  RateInv'
  <2>1. pc' = [pc EXCEPT ![c] = "idle"] /\ req' = [req EXCEPT ![c] = NoMsg]
    BY <1>4 DEF Close, Goto
  <2>2. \A p \in Pair : Storing(p)' = Storing(p) /\ Passed(p)' \subseteq Passed(p)
    BY <1>2, <1>4, <2>1 DEF Storing, Passed
  <2> QED BY <1>3, <1>4, <2>2 DEF Hour
<1>5. ASSUME NEW c \in Stream, NEW m \in Msg, OpenDeposit(c, m) PROVE RateInv'
  <2>1. \A p \in Pair : Storing(p)' = Storing(p) /\ Passed(p)' \subseteq Passed(p)
    BY <1>2, <1>5 DEF Storing, Passed, OpenDeposit, Goto
  <2> QED BY <1>3, <1>5, <2>1 DEF Hour, OpenDeposit
<1>6. ASSUME NEW c \in Stream, CheckRate(c) PROVE RateInv'
  <2>1. CASE Close(c)
    BY <1>4, <1>6, <2>1 DEF CheckRate
  <2>2. CASE Goto(c, "store") /\ UNCHANGED req /\ ~isRateLimited(PairOf(req[c]))
    <3>0. PICK q : q = PairOf(req[c])
      OBVIOUS
    <3>1. pc[c] = "check" /\ q \in Pair /\ pc' = [pc EXCEPT ![c] = "store"] /\ req' = req
          /\ rate' = rate /\ now' = now /\ accepts' = accepts /\ Hour' = Hour
      BY <1>2, <1>6, <2>2, <3>0 DEF CheckRate, Goto, Hour
    <3>2. \A p \in Pair : Storing(p)' = Storing(p) /\ Count(p)' = Count(p)
      BY <1>2, <3>1 DEF Storing, Count
    <3>3. \A p \in Pair : p # q => Passed(p)' = Passed(p)
      BY <1>2, <3>0, <3>1 DEF Passed
    <3>4. Count(q) <= DepositRateLimit - 1
      BY <1>2, <2>2, <3>0, <3>1 DEF isRateLimited, Count
    <3>5. Passed(q)' \in SUBSET Stream
      BY DEF Passed
    <3>6. Cardinality(Passed(q)') <= Cardinality(Stream) /\ Cardinality(Passed(q)') \in Nat
          /\ Cardinality(Stream) \in Nat
      BY <3>5, Streams
    <3>7. Count(q)' + Cardinality(Passed(q)') <= DepositRateLimit + Cardinality(Stream) - 1
      BY <1>2, <3>1, <3>2, <3>4, <3>6
    <3>8. ASSUME NEW p \in Pair PROVE Within(p)'
      <4>1. Within(p)
        BY <1>1 DEF RateInv
      <4> QED BY <3>1, <3>2, <3>3, <3>7, <4>1 DEF Within
    <3> QED BY <1>1, <3>1, <3>8 DEF RateInv
  <2> QED BY <1>6, <2>1, <2>2 DEF CheckRate, PairOf
<1>7. ASSUME NEW c \in Stream, Store(c) PROVE RateInv'
  <2>0. PICK q : q = PairOf(req[c])
    OBVIOUS
  <2>1. pc[c] = "store" /\ q \in Pair /\ pc' = [pc EXCEPT ![c] = "stored"] /\ req' = req
        /\ rate' = rate /\ now' = now /\ Hour' = Hour
        /\ accepts' = [accepts EXCEPT ![q] = @ + 1]
    BY <1>2, <1>7, <2>0 DEF Store, Goto, Hour, PairOf
  <2>2. \A p \in Pair : Passed(p)' = Passed(p) /\ Count(p)' = Count(p)
    BY <1>2, <2>1 DEF Passed, Count
  <2>3. \A p \in Pair : p # q => Storing(p)' = Storing(p) /\ accepts'[p] = accepts[p]
    BY <1>2, <2>0, <2>1 DEF Storing
  <2>4. Storing(q)' = Storing(q) \cup {c} /\ c \notin Storing(q) /\ Storing(q) \in SUBSET Stream
    BY <1>2, <2>0, <2>1 DEF Storing
  <2>5. Cardinality(Storing(q)') = Cardinality(Storing(q)) + 1 /\ Cardinality(Storing(q)) \in Nat
    BY <2>4, Streams, FS_AddElement
  <2>6. accepts'[q] = accepts[q] + 1 /\ accepts[q] \in Nat /\ Count(q) \in Nat
    BY <1>2, <2>1
  <2>7. accepts[q] <= Count(q) + Cardinality(Storing(q))
    BY <1>1, <2>1 DEF RateInv, Within
  <2>8. accepts'[q] <= Count(q)' + Cardinality(Storing(q)')
    BY <2>1, <2>2, <2>5, <2>6, <2>7
  <2>9. ASSUME NEW p \in Pair PROVE Within(p)'
    <3>1. Within(p)
      BY <1>1 DEF RateInv
    <3> QED BY <2>2, <2>3, <2>8, <3>1 DEF Within
  <2> QED BY <1>1, <2>1, <2>9 DEF RateInv
<1>8. ASSUME NEW c \in Stream, StoreRejected(c) \/ StoreFails(c) PROVE RateInv'
  BY <1>4, <1>8 DEF StoreRejected, StoreFails
<1>9. ASSUME NEW c \in Stream, Finish(c) PROVE RateInv'
  <2>0. PICK q : q = PairOf(req[c])
    OBVIOUS
  <2>1. pc[c] = "stored" /\ q \in Pair /\ pc' = [pc EXCEPT ![c] = "idle"]
        /\ req' = [req EXCEPT ![c] = NoMsg]
        /\ now' = now /\ Hour' = Hour /\ accepts' = accepts
        /\ rate' = incrementRateLimit(q)
    BY <1>2, <1>9, <2>0 DEF Finish, Close, Goto, Hour, PairOf
  <2>2. rate' = Put(rate, q, [count |-> Count(q) + 1, bucket |-> Hour])
    BY <2>1 DEF incrementRateLimit, Count
  <2>3. /\ DOMAIN rate' = DOMAIN rate \cup {q}
        /\ rate'[q] = [count |-> Count(q) + 1, bucket |-> Hour]
        /\ \A p \in DOMAIN rate : p # q => rate'[p] = rate[p]
    BY <2>2 DEF Put
  <2>4. Count(q)' = Count(q) + 1 /\ \A p \in Pair : p # q => Count(p)' = Count(p)
    <3>1. Count(q)' = rate'[q].count
      BY <2>1, <2>3 DEF Count
    <3>2. ASSUME NEW p \in Pair, p # q PROVE Count(p)' = Count(p)
      BY <2>1, <2>3, <3>2 DEF Count
    <3> QED BY <2>3, <3>1, <3>2
  <2>5. \A p \in Pair : p # q => Storing(p)' = Storing(p) /\ Passed(p)' = Passed(p)
    BY <1>2, <2>0, <2>1 DEF Storing, Passed
  <2>6. /\ Storing(q)' = Storing(q) \ {c} /\ c \in Storing(q) /\ Storing(q) \in SUBSET Stream
        /\ Passed(q)' = Passed(q) \ {c} /\ c \in Passed(q) /\ Passed(q) \in SUBSET Stream
    <3>1. c \in Storing(q) /\ Storing(q) \in SUBSET Stream /\ c \in Passed(q) /\ Passed(q) \in SUBSET Stream
      BY <2>0, <2>1 DEF Storing, Passed
    <3>2. pc'[c] = "idle" /\ \A d \in Stream \ {c} : pc'[d] = pc[d] /\ req'[d] = req[d]
      BY <1>2, <2>1
    <3>3. Storing(q)' = Storing(q) \ {c}
      BY <3>2 DEF Storing
    <3>4. Passed(q)' = Passed(q) \ {c}
      BY <3>2 DEF Passed
    <3> QED BY <3>1, <3>3, <3>4
  <2>7. /\ Cardinality(Storing(q)') = Cardinality(Storing(q)) - 1 /\ Cardinality(Storing(q)) \in Nat
        /\ Cardinality(Passed(q)') = Cardinality(Passed(q)) - 1 /\ Cardinality(Passed(q)) \in Nat
        /\ Cardinality(Stream) \in Nat
    BY <2>6, Streams, FS_RemoveElement, ZenonT(40)
  <2>8. /\ accepts[q] <= Count(q) + Cardinality(Storing(q))
        /\ Count(q) + Cardinality(Passed(q)) <= DepositRateLimit + Cardinality(Stream) - 1
        /\ accepts[q] \in Nat /\ Count(q) \in Nat
    BY <1>1, <1>2, <2>1 DEF RateInv, Within
  <2>9. Within(q)'
    <3>1. accepts'[q] <= Count(q)' + Cardinality(Storing(q)')
      BY <2>1, <2>4, <2>7, <2>8
    <3>2. Count(q)' + Cardinality(Passed(q)') <= DepositRateLimit + Cardinality(Stream) - 1
      BY <2>1, <2>4, <2>7, <2>8
    <3> QED BY <3>1, <3>2 DEF Within
  <2>10. \A p \in DOMAIN rate' : rate'[p].bucket <= Hour'
    BY <1>1, <1>2, <2>1, <2>3 DEF RateInv
  <2>11. ASSUME NEW p \in Pair, p # q PROVE Within(p)'
    BY <1>1, <2>1, <2>4, <2>5, <2>11 DEF RateInv, Within
  <2> QED BY <2>9, <2>10, <2>11 DEF RateInv
<1>10. CASE UNCHANGED <<rate, pc, req, now, accepts>>
  <2>1. \A p \in Pair : Storing(p)' = Storing(p) /\ Passed(p)' \subseteq Passed(p)
    BY <1>10 DEF Storing, Passed
  <2> QED BY <1>3, <1>10, <2>1 DEF Hour
<1>11. CASE Tick
  <2>1. now' = now + 1 /\ rate' = rate /\ pc' = pc /\ req' = req
        /\ accepts' = IF Hour' = Hour THEN accepts ELSE [p \in DOMAIN accepts |-> 0]
    BY <1>11 DEF Tick, Hour
  <2>2. \A p \in Pair : Storing(p)' = Storing(p) /\ Passed(p)' = Passed(p)
    BY <2>1 DEF Storing, Passed
  <2>3. CASE Hour' = Hour
    BY <1>3, <2>1, <2>2, <2>3
  <2>4. CASE Hour' # Hour
    <3>1. Hour <= Hour' /\ Hour' \in Nat
      <4>1. Hour' = (now + 1) \div (Second * HourLength) /\ now + 1 \in Nat /\ now <= now + 1
        BY <1>2, <2>1 DEF Hour
      <4> QED BY <1>2, <4>1, HourType DEF Hour
    <3>2. Hour < Hour'
      BY <1>2, <2>4, <3>1
    <3>3. \A p \in DOMAIN rate' : rate'[p].bucket <= Hour' /\ rate'[p].bucket # Hour'
      <4> SUFFICES ASSUME NEW p \in DOMAIN rate PROVE rate[p].bucket <= Hour' /\ rate[p].bucket # Hour'
        BY <2>1
      <4>1. rate[p].bucket <= Hour /\ rate[p].bucket \in Nat
        BY <1>1, <1>2 DEF RateInv
      <4> QED BY <1>2, <3>1, <3>2, <4>1
    <3>4. \A p \in Pair : Count(p)' = 0
      BY <3>3 DEF Count
    <3>5. \A p \in Pair : accepts'[p] = 0
      BY <1>2, <2>1, <2>4
    <3>6. ASSUME NEW p \in Pair PROVE Within(p)'
      <4>1. Storing(p) \in SUBSET Stream /\ Passed(p) \in SUBSET Stream
        BY DEF Storing, Passed
      <4>2. Cardinality(Storing(p)) \in Nat /\ Cardinality(Passed(p)) \in Nat
            /\ Cardinality(Passed(p)) <= Cardinality(Stream) /\ Cardinality(Stream) \in Nat
        BY <4>1, Streams
      <4> QED BY <2>2, <3>4, <3>5, <4>2 DEF Within
    <3> QED BY <3>3, <3>6 DEF RateInv
  <2> QED BY <2>3, <2>4
<1>12. CASE Restart
  <2>1. \A p \in Pair : Count(p)' = 0 /\ Storing(p)' = {} /\ Passed(p)' = {} /\ accepts'[p] = 0
    BY <1>2, <1>12 DEF Restart, Count, Storing, Passed
  <2>2. Cardinality({}) = 0 /\ Cardinality(Stream) \in Nat
    BY FS_EmptySet, FS_CardinalityType
  <2>3. DOMAIN rate' = {}
    BY <1>12 DEF Restart
  <2>4. \A p \in Pair : Within(p)'
    BY <2>1, <2>2 DEF Within
  <2> QED BY <2>3, <2>4 DEF RateInv
<1>13. ASSUME NEW t \in Target, Retrieve(t) \/ Acknowledge(t) PROVE RateInv'
  BY <1>10, <1>13 DEF Retrieve, Acknowledge
<1>14. CASE CleanupExpired \/ UNCHANGED vars
  BY <1>10, <1>14 DEF CleanupExpired, vars
<1> QED BY <1>5, <1>6, <1>7, <1>8, <1>9, <1>11, <1>12, <1>13, <1>14 DEF Next, Handler

\* In every state the handlers, maps and histories have their types, and streams pass the
\* rate limit by what isRateLimited and incrementRateLimit can miss.
THEOREM RateInvariant == Spec => []RInv
<1>1. RInv /\ [Next]_vars => RInv'
  BY NextTypes, NextRate DEF RInv
<1> QED BY InitTypes, InitRate, <1>1, PTL DEF Spec, RInv

\* RateLimitWithSlack for any number of streams, senders and targets, whatever the store does
\* and the clock shows: between check and count no more can slip in than there are streams.
THEOREM RateLimited == Spec => []RateLimitWithSlack
<1>1. RInv => RateLimitWithSlack
  <2> SUFFICES ASSUME RInv, NEW p \in DOMAIN accepts
               PROVE  accepts[p] <= DepositRateLimit + Cardinality(Stream) - 1
    BY DEF RateLimitWithSlack
  <2>1. p \in Pair /\ accepts[p] \in Nat /\ Count(p) \in Nat
    BY DEF RInv, TypeOK, Pair, Count
  <2>2. Storing(p) \subseteq Passed(p) /\ Passed(p) \in SUBSET Stream /\ Storing(p) \in SUBSET Stream
    BY DEF Storing, Passed
  <2>3. Cardinality(Storing(p)) <= Cardinality(Passed(p)) /\ Cardinality(Storing(p)) \in Nat
        /\ Cardinality(Passed(p)) \in Nat /\ Cardinality(Stream) \in Nat
    BY <2>2, Streams, FS_Subset
  <2>4. accepts[p] <= Count(p) + Cardinality(Storing(p))
        /\ Count(p) + Cardinality(Passed(p)) <= DepositRateLimit + Cardinality(Stream) - 1
    BY <2>1 DEF RInv, RateInv, Within
  <2> QED BY <2>1, <2>3, <2>4, ConfigAssumption
<1> QED BY <1>1, RateInvariant, PTL

-----------------------------------------------------------------------------
(* Cleanup *)

LEMMA Positions ==
  ASSUME TypeOK
  PROVE  /\ \A k \in DOMAIN box : MessagePosition(k) \in 1..Cardinality(DOMAIN box)
         /\ \A k, l \in DOMAIN box : MessagePosition(k) = MessagePosition(l) => k = l
         /\ \A t \in DOMAIN meta : MetaPosition(t) \in Nat /\ MetaPosition(t) > Cardinality(DOMAIN box)
<1> DEFINE Before(k) == {j \in DOMAIN box : KeyBefore(j, k)}
<1>1. IsFiniteSet(DOMAIN box) /\ Cardinality(DOMAIN box) \in Nat /\ DOMAIN box \subseteq Nat \X Nat
      /\ IsFiniteSet(DOMAIN meta)
  BY FiniteStore
<1>2. \A k, l \in DOMAIN box :
        /\ ~KeyBefore(k, k)
        /\ k # l => KeyBefore(k, l) \/ KeyBefore(l, k)
        /\ KeyBefore(k, l) => \A j \in DOMAIN box : KeyBefore(j, k) => KeyBefore(j, l)
  <2>1. ASSUME NEW k \in Nat \X Nat, NEW l \in Nat \X Nat
        PROVE  /\ ~KeyBefore(k, k)
               /\ k # l => KeyBefore(k, l) \/ KeyBefore(l, k)
    BY DEF KeyBefore
  <2>2. ASSUME NEW k \in Nat \X Nat, NEW l \in Nat \X Nat, NEW j \in Nat \X Nat,
               KeyBefore(k, l), KeyBefore(j, k)
        PROVE  KeyBefore(j, l)
    BY <2>2 DEF KeyBefore
  <2> QED BY <1>1, <2>1, <2>2
<1>3. ASSUME NEW k \in DOMAIN box
      PROVE  /\ Before(k) \subseteq DOMAIN box /\ k \notin Before(k)
             /\ IsFiniteSet(Before(k)) /\ Cardinality(Before(k)) \in Nat
             /\ Cardinality(Before(k)) < Cardinality(DOMAIN box)
             /\ MessagePosition(k) = 1 + Cardinality(Before(k))
  <2>1. Before(k) \subseteq DOMAIN box /\ k \notin Before(k)
    BY <1>2
  <2>2. IsFiniteSet(Before(k)) /\ Cardinality(Before(k)) <= Cardinality(DOMAIN box)
        /\ (Cardinality(Before(k)) = Cardinality(DOMAIN box) => Before(k) = DOMAIN box)
    BY <1>1, <2>1, FS_Subset
  <2>3. Cardinality(Before(k)) \in Nat
    BY <2>2, FS_CardinalityType
  <2>4. MessagePosition(k) = 1 + Cardinality(Before(k))
    BY DEF MessagePosition
  <2> QED BY <1>1, <2>1, <2>2, <2>3, <2>4
<1>4. ASSUME NEW k \in DOMAIN box, NEW l \in DOMAIN box, KeyBefore(k, l)
      PROVE  Cardinality(Before(k)) < Cardinality(Before(l))
  <2>1. Before(k) \subseteq Before(l) /\ k \in Before(l) /\ k \notin Before(k)
    BY <1>2, <1>4
  <2>2. Cardinality(Before(k)) <= Cardinality(Before(l))
        /\ (Cardinality(Before(k)) = Cardinality(Before(l)) => Before(k) = Before(l))
    BY <1>3, <2>1, FS_Subset
  <2>3. Before(k) # Before(l)
    BY <2>1
  <2> HIDE DEF Before
  <2> QED BY <1>3, <2>2, <2>3
<1> HIDE DEF Before
<1>5. \A k \in DOMAIN box : MessagePosition(k) \in 1..Cardinality(DOMAIN box)
  BY <1>1, <1>3
<1>6. ASSUME NEW k \in DOMAIN box, NEW l \in DOMAIN box, MessagePosition(k) = MessagePosition(l), k # l
      PROVE  FALSE
  <2>1. Cardinality(Before(k)) = Cardinality(Before(l))
    BY <1>3, <1>6
  <2> QED BY <1>2, <1>3, <1>4, <1>6, <2>1
<1>7. ASSUME NEW t \in DOMAIN meta
      PROVE  MetaPosition(t) \in Nat /\ MetaPosition(t) > Cardinality(DOMAIN box)
  <2>1. IsFiniteSet({u \in DOMAIN meta : u < t})
    BY <1>1, FS_Subset
  <2>2. Cardinality({u \in DOMAIN meta : u < t}) \in Nat
    BY <2>1, FS_CardinalityType
  <2> QED BY <1>1, <2>2 DEF MetaPosition
<1> QED BY <1>5, <1>6, <1>7

\* A buffer names the item it was taken for, or one PrefetchSize or more on.
LEMMA Recycled ==
  ASSUME TypeOK, NEW e \in DOMAIN box
  PROVE  \/ RecycledTo(MessagePosition(e)) = MessagePosition(e)
         \/ MessagePosition(e) + PrefetchSize <= RecycledTo(MessagePosition(e))
<1> USE ConfigAssumption
<1>1. PICK n \in Nat : n = Cardinality(DOMAIN box)
  BY FiniteStore
<1>2. PICK d \in Nat : d = Cardinality(DOMAIN meta)
  BY FiniteStore
<1>3. PICK i \in 1..n : i = MessagePosition(e)
  BY <1>1, Positions
<1>4. PICK r \in Nat : r = ItemsRead /\ n <= r
  <2>1. ItemsRead = IF n + d < PrefetchSize + n THEN n + d ELSE PrefetchSize + n
    BY <1>1, <1>2 DEF ItemsRead
  <2> QED BY <2>1
<1>5. r - i \in Nat
  BY <1>3, <1>4
<1>6. PICK q \in Nat : q = (r - i) \div PrefetchSize
  BY <1>5, DivBounds
<1>7. RecycledTo(i) = i + PrefetchSize * q
  BY <1>4, <1>6 DEF RecycledTo
<1>8. CASE q = 0
  BY <1>3, <1>7, <1>8
<1>9. CASE q >= 1
  <2>1. PrefetchSize * q >= PrefetchSize /\ PrefetchSize * q \in Nat
    BY <1>9
  <2> QED BY <1>3, <1>7, <2>1
<1> QED BY <1>8, <1>9

\* Cleanup removes expired messages and items exposed to recycled buffers, and
\* nothing else.
LEMMA CleanupEffect ==
  ASSUME TypeOK, CleanupExpired
  PROVE  /\ DOMAIN box' \subseteq DOMAIN box
         /\ \A k \in DOMAIN box' : box'[k] = box[k]
         /\ \A k \in DOMAIN box \ DOMAIN box' : Expired(box[k]) \/ Exposed(MessagePosition(k))
         /\ DOMAIN meta' \subseteq DOMAIN meta
         /\ \A t \in DOMAIN meta' : meta'[t] = meta[t]
         /\ \A t \in DOMAIN meta \ DOMAIN meta' : Exposed(MetaPosition(t))
<1>1. /\ box' = Restrict(box, {k \in DOMAIN box : MessagePosition(k) \notin Collected})
      /\ meta' = Restrict(meta, {t \in DOMAIN meta : MetaPosition(t) \notin Collected})
  BY DEF CleanupExpired
<1>2. /\ DOMAIN box' = {k \in DOMAIN box : MessagePosition(k) \notin Collected}
      /\ \A k \in DOMAIN box' : box'[k] = box[k]
  BY <1>1 DEF Restrict
<1>3. /\ DOMAIN meta' = {t \in DOMAIN meta : MetaPosition(t) \notin Collected}
      /\ \A t \in DOMAIN meta' : meta'[t] = meta[t]
  BY <1>1 DEF Restrict
<1>4. ASSUME NEW k \in DOMAIN box, MessagePosition(k) \in Collected
      PROVE  Expired(box[k]) \/ Exposed(MessagePosition(k))
  <2>1. PICK e \in DOMAIN box : Expired(box[e]) /\ MessagePosition(k) = RecycledTo(MessagePosition(e))
    BY <1>4 DEF Collected
  <2>2. CASE MessagePosition(k) = MessagePosition(e)
    <3>1. k = e
      BY <2>2, Positions
    <3> QED BY <2>1, <3>1
  <2>3. CASE MessagePosition(e) + PrefetchSize <= MessagePosition(k)
    BY <2>1, <2>3 DEF Exposed
  <2> QED BY <2>1, <2>2, <2>3, Recycled
<1>5. ASSUME NEW t \in DOMAIN meta, MetaPosition(t) \in Collected PROVE Exposed(MetaPosition(t))
  <2>1. PICK e \in DOMAIN box : Expired(box[e]) /\ MetaPosition(t) = RecycledTo(MessagePosition(e))
    BY <1>5 DEF Collected
  <2>2. PICK n \in Nat : n = Cardinality(DOMAIN box)
    BY FiniteStore
  <2>3. MessagePosition(e) \in 1..n /\ MetaPosition(t) \in Nat /\ MetaPosition(t) > n
    BY <2>2, Positions
  <2>4. MetaPosition(t) # MessagePosition(e)
    BY <2>3
  <2>5. MessagePosition(e) + PrefetchSize <= MetaPosition(t)
    BY <2>1, <2>4, Recycled
  <2> QED BY <2>1, <2>5 DEF Exposed
<1> QED BY <1>2, <1>3, <1>4, <1>5

-----------------------------------------------------------------------------
(* The count quota *)

\* What is stored for t may shrink, and what its metadata counts may move to lost.
LEMMA QuotaFrame ==
  ASSUME TypeOK, TypeOK', CountQuota, DOMAIN box' \subseteq DOMAIN box, DOMAIN meta' \subseteq DOMAIN meta,
         \A t \in DOMAIN meta' : meta'[t] = meta[t],
         \A t \in Target : IF t \in DOMAIN meta \ DOMAIN meta' THEN lost'[t] = lost[t] + meta[t].count
                                                            ELSE lost'[t] = lost[t]
  PROVE  CountQuota'
<1> SUFFICES ASSUME NEW t \in Target
             PROVE  /\ Cardinality(KeysOf(t)') <= (IF HasMeta(t)' THEN meta'[t].count ELSE 0) + lost'[t]
                    /\ HasMeta(t)' => meta'[t].count <= CountLimit
  BY DEF CountQuota, Stored, CountLimit
<1>1. KeysOf(t)' \subseteq KeysOf(t) /\ KeysOf(t) \subseteq DOMAIN box
  BY DEF KeysOf
<1>2. IsFiniteSet(KeysOf(t)) /\ IsFiniteSet(KeysOf(t)')
      /\ Cardinality(KeysOf(t)') <= Cardinality(KeysOf(t))
  BY <1>1, FiniteStore, FS_Subset
<1>3. Cardinality(KeysOf(t)) \in Nat /\ Cardinality(KeysOf(t)') \in Nat /\ lost[t] \in Nat /\ lost'[t] \in Nat
  BY <1>2, FS_CardinalityType DEF TypeOK
<1>4. HasMeta(t) => meta[t].count \in Nat
  BY DEF HasMeta, TypeOK
<1>5. /\ Cardinality(KeysOf(t)) <= (IF HasMeta(t) THEN meta[t].count ELSE 0) + lost[t]
      /\ HasMeta(t) => meta[t].count <= CountLimit
  BY DEF CountQuota, Stored
<1>6. CASE HasMeta(t)'
  <2>1. HasMeta(t) /\ meta'[t] = meta[t] /\ lost'[t] = lost[t]
    BY <1>6 DEF HasMeta
  <2> QED BY <1>2, <1>3, <1>4, <1>5, <1>6, <2>1
<1>7. CASE ~HasMeta(t)' /\ HasMeta(t)
  <2>1. lost'[t] = lost[t] + meta[t].count
    BY <1>7 DEF HasMeta
  <2> QED BY <1>2, <1>3, <1>4, <1>5, <1>7, <2>1
<1>8. CASE ~HasMeta(t)' /\ ~HasMeta(t)
  <2>1. lost'[t] = lost[t]
    BY <1>8 DEF HasMeta
  <2> QED BY <1>2, <1>3, <1>5, <1>8, <2>1
<1> QED BY <1>6, <1>7, <1>8

\* What StoreMessage does to the two maps.
LEMMA StoreEffect ==
  ASSUME TypeOK, NEW m \in Msg, StoreMessage(m)
  PROVE  /\ DOMAIN box' = (DOMAIN box \ checkQuota(m.target)) \cup {Key(m)}
         /\ box'[Key(m)] = [expires |-> Unix(expiresAt)]
         /\ \A k \in DOMAIN box' : k # Key(m) => box'[k] = box[k]
         /\ DOMAIN meta' = DOMAIN meta \cup {m.target}
         /\ \A t \in DOMAIN meta : t # m.target => meta'[t] = meta[t]
         /\ meta'[m.target].count = (IF HasMeta(m.target) THEN meta[m.target].count ELSE 0) + 1
<1>1. PICK r : r = Restrict(box, DOMAIN box \ checkQuota(m.target))
  OBVIOUS
<1>2. DOMAIN r = DOMAIN box \ checkQuota(m.target) /\ \A k \in DOMAIN r : r[k] = box[k]
  BY <1>1 DEF Restrict
<1>3. box' = Put(r, Key(m), [expires |-> Unix(expiresAt)])
  BY <1>1 DEF StoreMessage
<1>4. /\ DOMAIN box' = DOMAIN r \cup {Key(m)} /\ box'[Key(m)] = [expires |-> Unix(expiresAt)]
      /\ \A k \in DOMAIN r : k # Key(m) => box'[k] = r[k]
  BY <1>3 DEF Put
<1>5. PICK old : old = IF HasMeta(m.target) THEN meta[m.target] ELSE [count |-> 0, bytes |-> 0]
  OBVIOUS
<1>6. meta' = Put(meta, m.target, [count |-> old.count + 1, bytes |-> old.bytes + m.size])
  BY <1>5 DEF StoreMessage, updateMetadata
<1>7. /\ DOMAIN meta' = DOMAIN meta \cup {m.target}
      /\ meta'[m.target] = [count |-> old.count + 1, bytes |-> old.bytes + m.size]
      /\ \A t \in DOMAIN meta : t # m.target => meta'[t] = meta[t]
  BY <1>6 DEF Put
<1>8. old.count = IF HasMeta(m.target) THEN meta[m.target].count ELSE 0
  BY <1>5
<1>9. meta'[m.target].count = (IF HasMeta(m.target) THEN meta[m.target].count ELSE 0) + 1
  BY <1>7, <1>8
<1>10. \A k \in DOMAIN box' : k # Key(m) => box'[k] = box[k]
  BY <1>2, <1>4
<1> QED BY <1>2, <1>4, <1>7, <1>9, <1>10

LEMMA StoreQuota ==
  ASSUME TypeOK, CountQuota, lost' = lost,
         NEW m \in Msg, StoreMessage(m), ~CountLimitReached(m.target)
  PROVE  CountQuota'
<1> SUFFICES ASSUME NEW t \in Target
             PROVE  /\ Cardinality(KeysOf(t)') <= (IF HasMeta(t)' THEN meta'[t].count ELSE 0) + lost[t]
                    /\ HasMeta(t)' => meta'[t].count <= CountLimit
  BY DEF CountQuota, Stored, CountLimit
<1>1. /\ Cardinality(KeysOf(t)) <= (IF HasMeta(t) THEN meta[t].count ELSE 0) + lost[t]
      /\ HasMeta(t) => meta[t].count <= CountLimit /\ meta[t].count \in Nat
      /\ lost[t] \in Nat
  BY DEF CountQuota, Stored, TypeOK, HasMeta
<1>2. KeysOf(t) \subseteq DOMAIN box
  BY DEF KeysOf
<1>3. IsFiniteSet(KeysOf(t)) /\ Cardinality(KeysOf(t)) \in Nat
  BY <1>2, FiniteStore, FS_Subset, FS_CardinalityType
<1>4. CASE t = m.target
  <2>1. KeysOf(t)' \subseteq KeysOf(t) \cup {Key(m)}
    BY StoreEffect DEF KeysOf
  <2>2. IsFiniteSet(KeysOf(t) \cup {Key(m)}) /\ Cardinality(KeysOf(t) \cup {Key(m)}) <= Cardinality(KeysOf(t)) + 1
        /\ Cardinality(KeysOf(t) \cup {Key(m)}) \in Nat
    <3>1. IsFiniteSet(KeysOf(t) \cup {Key(m)}) /\ Cardinality(KeysOf(t) \cup {Key(m)}) =
            IF Key(m) \in KeysOf(t) THEN Cardinality(KeysOf(t)) ELSE Cardinality(KeysOf(t)) + 1
      BY <1>3, FS_AddElement
    <3> QED BY <1>3, <3>1
  <2>3. Cardinality(KeysOf(t)') <= Cardinality(KeysOf(t)) + 1 /\ Cardinality(KeysOf(t)') \in Nat
    <3>1. IsFiniteSet(KeysOf(t)') /\ Cardinality(KeysOf(t)') <= Cardinality(KeysOf(t) \cup {Key(m)})
      BY <2>1, <2>2, FS_Subset
    <3>2. Cardinality(KeysOf(t)') \in Nat
      BY <3>1, FS_CardinalityType
    <3> QED BY <1>3, <2>2, <3>1, <3>2
  <2>4. HasMeta(t)' /\ meta'[t].count = (IF HasMeta(t) THEN meta[t].count ELSE 0) + 1
    BY <1>4, StoreEffect DEF HasMeta
  <2>5. CASE HasMeta(t)
    <3>1. ~(meta[t].count >= MaxMessagesPerTarget)
      BY <1>4, <2>5 DEF CountLimitReached
    <3> QED BY <1>1, <1>3, <2>3, <2>4, <2>5, <3>1, ConfigAssumption DEF CountLimit
  <2>6. CASE ~HasMeta(t)
    BY <1>1, <1>3, <2>3, <2>4, <2>6, ConfigAssumption DEF CountLimit
  <2> QED BY <2>5, <2>6
<1>5. CASE t # m.target
  <2>1. KeysOf(t)' \subseteq KeysOf(t)
    <3>1. Key(m)[1] # t
      BY <1>5 DEF Key
    <3>2. DOMAIN box' \subseteq DOMAIN box \cup {Key(m)}
      BY StoreEffect
    <3> QED BY <3>1, <3>2 DEF KeysOf
  <2>2. IsFiniteSet(KeysOf(t)') /\ Cardinality(KeysOf(t)') <= Cardinality(KeysOf(t))
    BY <1>3, <2>1, FS_Subset
  <2>3. Cardinality(KeysOf(t)') \in Nat
    BY <2>2, FS_CardinalityType
  <2>4. (HasMeta(t)' <=> HasMeta(t)) /\ (HasMeta(t) => meta'[t] = meta[t])
    BY <1>5, StoreEffect DEF HasMeta
  <2>5. CASE HasMeta(t)
    BY <1>1, <1>3, <2>2, <2>3, <2>4, <2>5
  <2>6. CASE ~HasMeta(t)
    BY <1>1, <1>3, <2>2, <2>3, <2>4, <2>6
  <2> QED BY <2>5, <2>6
<1> QED BY <1>4, <1>5

LEMMA NextQuota == TypeOK /\ CountQuota /\ [Next]_vars => CountQuota'
<1> SUFFICES ASSUME TypeOK, CountQuota, [Next]_vars PROVE CountQuota'
  OBVIOUS
<1>0. TypeOK'
  BY NextTypes
<1>1. CASE UNCHANGED <<box, meta, lost>>
  BY <1>0, <1>1, QuotaFrame
<1>2. ASSUME NEW ks, DeleteMessages(ks), meta' = meta, lost' = lost PROVE CountQuota'
  <2>1. DOMAIN box' \subseteq DOMAIN box
    BY <1>2 DEF DeleteMessages, Restrict
  <2> QED BY <1>0, <1>2, <2>1, QuotaFrame
<1>3. ASSUME NEW c \in Stream, Store(c) PROVE CountQuota'
  <2>1. req[c] \in Msg
    BY <1>3 DEF TypeOK, Store
  <2> QED BY <1>3, <2>1, StoreQuota DEF Store
<1>4. CASE CleanupExpired
  <2>1. \A t \in Target : IF t \in DOMAIN meta \ DOMAIN meta' THEN lost'[t] = lost[t] + meta[t].count
                                                            ELSE lost'[t] = lost[t]
    BY <1>4, CleanupEffect DEF CleanupExpired
  <2> QED BY <1>0, <1>4, <2>1, CleanupEffect, QuotaFrame
<1>5. ASSUME NEW c \in Stream, CheckRate(c) \/ StoreRejected(c) \/ Finish(c) PROVE CountQuota'
  BY <1>1, <1>5 DEF CheckRate, StoreRejected, Finish
<1>6. ASSUME NEW c \in Stream, NEW m \in Msg, OpenDeposit(c, m) PROVE CountQuota'
  BY <1>1, <1>6 DEF OpenDeposit
<1>7. ASSUME NEW c \in Stream, StoreFails(c) PROVE CountQuota'
  BY <1>2, <1>7 DEF StoreFails
<1>8. ASSUME NEW t \in Target, Retrieve(t) PROVE CountQuota'
  BY <1>1, <1>8 DEF Retrieve
<1>9. ASSUME NEW t \in Target, Acknowledge(t) PROVE CountQuota'
  BY <1>2, <1>9 DEF Acknowledge
<1>10. CASE Tick \/ Restart \/ UNCHANGED vars
  BY <1>1, <1>10 DEF Tick, Restart, vars
<1> QED BY <1>3, <1>4, <1>5, <1>6, <1>7, <1>8, <1>9, <1>10 DEF Next, Handler

LEMMA InitQuota == Init => CountQuota
<1> SUFFICES ASSUME Init, NEW t \in Target
             PROVE  Cardinality(KeysOf(t)) <= 0 + lost[t] /\ ~HasMeta(t)
  BY DEF CountQuota, Stored
<1>1. KeysOf(t) = {} /\ ~HasMeta(t) /\ lost[t] = 0
  BY DEF Init, KeysOf, HasMeta
<1> QED BY <1>1, FS_EmptySet

\* checkQuota, isRateLimited and updateMetadata keep both limits in every behaviour, for any
\* number of items in the store: a target holds more than its limit only by what its metadata
\* counted when a cleanup took the record for an expired message PrefetchSize or more before it.
THEOREM Quotas == Spec => []QuotasHold
<1>1. TypeOK /\ CountQuota /\ [Next]_vars => CountQuota'
  BY NextQuota
<1>2. RInv => TypeOK
  BY DEF RInv
<1>3. TypeOK /\ CountQuota /\ RateLimitWithSlack => QuotasHold
  BY DEF QuotasHold
<1> QED BY <1>1, <1>2, <1>3, InitQuota, RateInvariant, RateLimited, PTL DEF Spec

-----------------------------------------------------------------------------
(* Retention *)

Kept(m) == Key(m) \in DOMAIN box /\ box[Key(m)].expires >= accepted[m] - (Second - 1)

LEMMA NextRetain == TypeOK /\ RetainInv /\ [Next]_vars => RetainInv'
<1> SUFFICES ASSUME TypeOK, RetainInv, [Next]_vars,
                    NEW n \in Msg, accepted'[n] - (Second - 1) >= now', n \notin acked',
                    Key(n) \notin evicted' \cup overrun'
             PROVE  Kept(n)'
  BY DEF RetainInv, Kept
<1> USE ConfigAssumption
<1>1. accepted[n] - (Second - 1) >= now /\ n \notin acked /\ Key(n) \notin evicted \cup overrun => Kept(n)
  BY DEF RetainInv, Kept
<1>2. accepted \in [Msg -> Nat] /\ now \in Nat
  BY DEF TypeOK
<1>3. CASE UNCHANGED <<box, now, accepted, acked, evicted, overrun>>
  BY <1>1, <1>3 DEF Kept
<1>4. ASSUME NEW c \in Stream, Store(c) PROVE Kept(n)'
  <2>1. PICK m \in Msg : m = req[c]
    BY <1>4 DEF TypeOK, Store
  <2>2. /\ StoreMessage(m) /\ now' = now /\ acked' = acked \ {m}
        /\ accepted' = [accepted EXCEPT ![m] = expiresAt]
        /\ evicted' = (evicted \cup checkQuota(m.target)) \ {Key(m)}
        /\ overrun' = overrun \ {Key(m)}
    BY <1>4, <2>1 DEF Store, StoreMessage
  <2>3. CASE n = m
    <3>1. Key(m) \in DOMAIN box' /\ box'[Key(m)] = [expires |-> Unix(expiresAt)]
      BY <2>2, StoreEffect
    <3>2. expiresAt \in Nat
      BY <1>2 DEF expiresAt
    <3>3. Unix(expiresAt) >= expiresAt - (Second - 1) /\ accepted'[n] = expiresAt
      BY <1>2, <2>2, <2>3, <3>2, UnixBounds
    <3> QED BY <2>3, <3>1, <3>3 DEF Kept
  <2>4. CASE n # m
    <3>1. Key(n) # Key(m)
      BY <2>4, Keys
    <3>2. accepted'[n] = accepted[n] /\ Key(n) \notin evicted \cup overrun /\ Key(n) \notin checkQuota(m.target)
          /\ n \notin acked
      BY <1>2, <2>2, <2>4, <3>1
    <3>3. Key(n) \in DOMAIN box /\ box[Key(n)].expires >= accepted[n] - (Second - 1)
      BY <1>1, <2>2, <3>2 DEF Kept
    <3>4. Key(n) \in DOMAIN box' /\ box'[Key(n)] = box[Key(n)]
      BY <2>2, <3>1, <3>2, <3>3, StoreEffect
    <3> QED BY <3>2, <3>3, <3>4 DEF Kept
  <2> QED BY <2>3, <2>4
<1>5. ASSUME NEW c \in Stream, StoreFails(c) PROVE Kept(n)'
  BY <1>1, <1>5 DEF StoreFails, DeleteMessages, Restrict, Kept
<1>6. ASSUME NEW t \in Target, Acknowledge(t) PROVE Kept(n)'
  BY <1>1, <1>6 DEF Acknowledge, DeleteMessages, Restrict, Kept
<1>7. CASE CleanupExpired
  <2>1. UNCHANGED <<now, accepted, acked, evicted>>
    BY <1>7 DEF CleanupExpired
  <2>2. overrun' = overrun \cup {k \in DOMAIN box \ DOMAIN box' : Exposed(MessagePosition(k))}
    BY <1>7 DEF CleanupExpired
  <2>3. Key(n) \in DOMAIN box /\ box[Key(n)].expires >= accepted[n] - (Second - 1)
        /\ box[Key(n)].expires \in Nat
    BY <1>1, <2>1, <2>2 DEF Kept, TypeOK
  <2>4. ~Expired(box[Key(n)])
    BY <1>2, <2>1, <2>3 DEF Expired
  <2>5. Key(n) \in DOMAIN box'
    BY <1>7, <2>2, <2>3, <2>4, CleanupEffect
  <2>6. box'[Key(n)] = box[Key(n)]
    BY <1>7, <2>5, CleanupEffect
  <2> QED BY <2>1, <2>3, <2>5, <2>6 DEF Kept
<1>8. CASE Tick
  BY <1>1, <1>2, <1>8 DEF Tick, Kept
<1>9. ASSUME NEW c \in Stream, CheckRate(c) \/ StoreRejected(c) \/ Finish(c)
      PROVE  UNCHANGED <<box, now, accepted, acked, evicted, overrun>>
  BY <1>9 DEF CheckRate, StoreRejected, Finish
<1>10. ASSUME NEW c \in Stream, NEW m \in Msg, OpenDeposit(c, m)
       PROVE  UNCHANGED <<box, now, accepted, acked, evicted, overrun>>
  BY <1>10 DEF OpenDeposit
<1>11. ASSUME NEW t \in Target, Retrieve(t) PROVE UNCHANGED <<box, now, accepted, acked, evicted, overrun>>
  BY <1>11 DEF Retrieve
<1>12. CASE Restart \/ UNCHANGED vars
  BY <1>3, <1>12 DEF Restart, vars
<1> QED BY <1>3, <1>4, <1>5, <1>6, <1>7, <1>8, <1>9, <1>10, <1>11, <1>12 DEF Next, Handler

\* What StoreMessage stored is retrievable up to the last second of its lifetime, unless it is
\* acknowledged, evicted or taken by a cleanup for an expired message PrefetchSize or more items
\* before it: no other deposit, failed store, acknowledgment, cleanup or restart takes it.
THEOREM Retained == Spec => []AcceptedRetained
<1>1. Init => RetainInv
  <2> SUFFICES ASSUME Init, NEW m \in Msg PROVE ~(accepted[m] - (Second - 1) >= now)
    BY DEF RetainInv
  <2>1. accepted[m] = 0 /\ now = 1
    BY DEF Init
  <2> QED BY <2>1, ConfigAssumption
<1>2. TypeOK /\ RetainInv /\ [Next]_vars => RetainInv'
  BY NextRetain
<1>3. TypeOK /\ RetainInv => AcceptedRetained
  <2> SUFFICES ASSUME TypeOK, RetainInv, NEW m \in Msg, ~(accepted[m] - (Second - 1) < now), m \notin acked,
                      Key(m) \notin evicted \cup overrun
               PROVE  Key(m) \in ListMessages(m.target)
    BY DEF AcceptedRetained
  <2>1. accepted[m] \in Nat /\ now \in Nat /\ Second \in Nat
    BY ConfigAssumption DEF TypeOK
  <2>2. Key(m) \in DOMAIN box /\ box[Key(m)].expires >= accepted[m] - (Second - 1)
    BY <2>1 DEF RetainInv
  <2>3. box[Key(m)].expires \in Nat
    BY <2>2 DEF TypeOK
  <2>4. ~Expired(box[Key(m)]) /\ Key(m)[1] = m.target
    BY <2>1, <2>2, <2>3 DEF Expired, Key
  <2> QED BY <2>2, <2>4 DEF ListMessages, KeysOf
<1>4. RInv => TypeOK
  BY DEF RInv
<1> QED BY <1>1, <1>2, <1>3, <1>4, RateInvariant, PTL DEF Spec

=============================================================================
