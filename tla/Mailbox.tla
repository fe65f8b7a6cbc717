------------------------------ MODULE Mailbox ------------------------------
(***************************************************************************)
(* A mailbox node: the message store (pkg/mailbox/storage.go), the stream  *)
(* handlers for deposit, retrieval and acknowledgment (deposit.go,         *)
(* retrieval.go) and the cleanup goroutine (manager.go).                   *)
(*                                                                         *)
(* Every libp2p stream is served by its own goroutine.  A deposit checks   *)
(* the rate limit, stores the message and counts it in three critical      *)
(* sections of two different locks, so streams interleave between them;    *)
(* retrieval, acknowledgment and cleanup are one critical section each.    *)
(* An error response is written to a buffer that is never flushed: a       *)
(* rejected client just sees the stream close.                             *)
(*                                                                         *)
(* Targets and message ids are numbers: their order is the order of the    *)
(* hexadecimal Badger keys "mbx:<target>:<id>".  The clock counts ticks,   *)
(* the resolution of time.Now; records and rate buckets keep whole seconds *)
(* of Second ticks each.                                                   *)
(***************************************************************************)
EXTENDS Integers, FiniteSets, FiniteSetsExt, Functions

CONSTANTS
  Stream,                  \* goroutines that may serve a deposit at a time
  Msg,                     \* messages senders deposit, possibly repeatedly
  MaxMessagesPerTarget, MaxMessageSize, MaxTotalBytesPerTarget,
  DefaultTTL, DepositRateLimit,   \* the lifetime is in seconds
  Second,                  \* ticks of the clock in a second (10^9 in the code)
  HourLength,              \* seconds in a rate-limit bucket (3600 in the code)
  PrefetchSize,            \* items a Badger iterator reads ahead (100)
  MaxTime,                 \* bound on the clock
  MaxDeposits,             \* bound on deposit requests
  MaxRestarts,             \* bound on restarts of the node
  NoMsg

Target == {m.target : m \in Msg}
Sender == {m.sender : m \in Msg}

ASSUME MsgAssumption ==
  /\ \A m \in Msg : m.target \in Nat /\ m.id \in Nat /\ m.size \in Nat
  /\ \A m1, m2 \in Msg : m1.target = m2.target /\ m1.id = m2.id => m1 = m2
  /\ IsFiniteSet(Msg) /\ NoMsg \notin Msg
ASSUME ConfigAssumption ==
  /\ IsFiniteSet(Stream)
  /\ MaxMessagesPerTarget \in Nat /\ MaxMessageSize \in Nat
  /\ MaxTotalBytesPerTarget \in Nat /\ DefaultTTL \in Nat
  /\ DepositRateLimit \in Nat \ {0} /\ HourLength \in Nat \ {0}
  /\ PrefetchSize \in Nat \ {0} /\ Second \in Nat \ {0}
ASSUME BoundAssumption == MaxTime \in Nat /\ MaxDeposits \in Nat /\ MaxRestarts \in Nat

VARIABLES
  box,        \* the stored messages: key <<target, id>> to expiry time
  meta,       \* metadata records: target to count and bytes
  rate,       \* dh.rateLimit: <<sender, target>> to count and hour bucket
  pc, req,    \* control point and request of each stream's handler
  held,       \* held[t]: ids a recipient has retrieved and not yet acknowledged
  now,        \* the clock, in ticks
  deposits, restarts,  \* bounded counters
  accepted,   \* history: the tick the last stored copy lives to (0: never stored)
  acked,      \* history: messages deleted by an acknowledgment
  evicted,    \* history: keys of evicted messages
  overrun,    \* history: keys cleanup may have taken for that of a message
              \* PrefetchSize or more positions before them
  lost,       \* history: counts that went with metadata taken in this way
  accepts     \* history: deposits stored this hour since the last restart

vars == <<box, meta, rate, pc, req, held, now, deposits, restarts,
          accepted, acked, evicted, overrun, lost, accepts>>

\* time.Now().Unix() / 3600.
Hour == now \div (Second * HourLength)
Key(m) == <<m.target, m.id>>
KeysOf(t) == {k \in DOMAIN box : k[1] = t}

\* A map with one entry written.
Put(f, k, v) == [x \in DOMAIN f \cup {k} |-> IF x = k THEN v ELSE f[x]]

\* Expiry of a message stored now, and the whole second that is kept of it.
expiresAt == now + DefaultTTL * Second
Unix(t) == t - (t % Second)

\* Mutant of Expired: a message is gone at the very instant it expires.
MutantExpired(r) == r.expires <= now

\* A record is past its ExpiresAt, a whole second, by the clock with all its digits.
Expired(r) == r.expires < now

-----------------------------------------------------------------------------
(* Storage *)

HasMeta(t) == t \in DOMAIN meta

\* Mutant of CountLimitReached: one message too many.
MutantCountLimit(t) == HasMeta(t) /\ meta[t].count > MaxMessagesPerTarget

\* checkQuota: the count limit rejects, the byte limit evicts.
CountLimitReached(t) == HasMeta(t) /\ meta[t].count >= MaxMessagesPerTarget

NeedsEviction(t) ==
  HasMeta(t) /\ meta[t].bytes + MaxMessageSize > MaxTotalBytesPerTarget

\* evictOldest(t, 1): the first key of the target in key order, if there is one.
evictOldest(t) ==
  {k \in KeysOf(t) : \A j \in KeysOf(t) : k[2] <= j[2]}

checkQuota(t) == IF NeedsEviction(t) THEN evictOldest(t) ELSE {}

\* updateMetadata after a store.  Nothing ever takes the count back.
updateMetadata(t, size) ==
  LET old == IF HasMeta(t) THEN meta[t] ELSE [count |-> 0, bytes |-> 0]
  IN  Put(meta, t, [count |-> old.count + 1, bytes |-> old.bytes + size])

StoreMessage(m) ==
  LET gone == checkQuota(m.target)
  IN  /\ box' = Put(Restrict(box, DOMAIN box \ gone), Key(m), [expires |-> Unix(expiresAt)])
      /\ meta' = updateMetadata(m.target, m.size)
      /\ evicted' = (evicted \cup gone) \ {Key(m)}
      /\ overrun' = overrun \ {Key(m)}

ListMessages(t) == {k \in KeysOf(t) : ~Expired(box[k])}

DeleteMessages(ks) == box' = Restrict(box, DOMAIN box \ ks)

-----------------------------------------------------------------------------
(* CleanupExpired keeps the slices returned by item.Key() while it goes on   *)
(* iterating.  A Badger iterator reads PrefetchSize items ahead and recycles *)
(* the item it has passed, key buffer included, for the next one it reads,   *)
(* so a key collected at position i names the key at i + PrefetchSize, i +   *)
(* 2 * PrefetchSize, ... as soon as the iterator has read that far.          *)

KeyBefore(j, k) == j[1] < k[1] \/ (j[1] = k[1] /\ j[2] < k[2])

\* Positions in the scan: the messages by key, then the metadata by target.
MessagePosition(k) == 1 + Cardinality({j \in DOMAIN box : KeyBefore(j, k)})
MetaPosition(t) ==
  1 + Cardinality(DOMAIN box) + Cardinality({u \in DOMAIN meta : u < t})

\* How far the iterator has read when the loop ends.
ItemsRead ==
  LET messages == Cardinality(DOMAIN box)
      items    == messages + Cardinality(DOMAIN meta)
  IN  IF items < PrefetchSize + messages THEN items ELSE PrefetchSize + messages

\* The position whose key the buffer taken at position i holds at the end.
RecycledTo(i) == i + PrefetchSize * ((ItemsRead - i) \div PrefetchSize)


Collected == {RecycledTo(MessagePosition(k)) : k \in {j \in DOMAIN box : Expired(box[j])}}

\* What a recycled buffer can name at all: an item the iterator reads once it
\* is PrefetchSize or more items past an expired message.
Exposed(i) ==
  \E e \in DOMAIN box : Expired(box[e]) /\ MessagePosition(e) + PrefetchSize <= i

CleanupExpired ==
  /\ Collected # {}
  /\ box' = Restrict(box, {k \in DOMAIN box : MessagePosition(k) \notin Collected})
  /\ meta' = Restrict(meta, {t \in DOMAIN meta : MetaPosition(t) \notin Collected})
  /\ overrun' = overrun \cup {k \in DOMAIN box \ DOMAIN box' : Exposed(MessagePosition(k))}
  /\ lost' = [t \in Target |->
       IF t \in DOMAIN meta \ DOMAIN meta' /\ Exposed(MetaPosition(t))
         THEN lost[t] + meta[t].count ELSE lost[t]]
  /\ UNCHANGED <<rate, pc, req, held, now, deposits, restarts,
                 accepted, acked, evicted, accepts>>

-----------------------------------------------------------------------------
(* The deposit handler *)

Init ==
  /\ box = [k \in {} |-> 0] /\ meta = [t \in {} |-> 0] /\ rate = [p \in {} |-> 0]
  /\ pc = [c \in Stream |-> "idle"] /\ req = [c \in Stream |-> NoMsg]
  /\ held = [t \in Target |-> {}]
  /\ now = 1 /\ deposits = 0 /\ restarts = 0
  /\ accepted = [m \in Msg |-> 0]
  /\ acked = {} /\ evicted = {} /\ overrun = {}
  /\ lost = [t \in Target |-> 0]
  /\ accepts = [p \in Sender \X Target |-> 0]

Goto(c, l) == pc' = [pc EXCEPT ![c] = l]

\* Mutant of Close: the request stays with the stream.
MutantClose(c) == Goto(c, "idle") /\ UNCHANGED req

\* The handler gives up: the error response stays in the buffer.
Close(c) == Goto(c, "idle") /\ req' = [req EXCEPT ![c] = NoMsg]

\* The signature is verified only if the envelope names an identity of the
\* length of a key.
validateDepositRequest(m) ==
  /\ m.size <= MaxMessageSize /\ m.signature # "none"
  /\ m.keyed => m.signature = "good"

\* A deposit request has been read and validated.
OpenDeposit(c, m) ==
  /\ pc[c] = "idle" /\ deposits < MaxDeposits
  /\ validateDepositRequest(m)
  /\ Goto(c, "check") /\ req' = [req EXCEPT ![c] = m]
  /\ deposits' = deposits + 1
  /\ UNCHANGED <<box, meta, rate, held, now, restarts, accepted,
                 acked, evicted, overrun, lost, accepts>>

isRateLimited(p) ==
  p \in DOMAIN rate /\ rate[p].bucket = Hour /\ rate[p].count >= DepositRateLimit

CheckRate(c) ==
  /\ pc[c] = "check"
  /\ IF isRateLimited(<<req[c].sender, req[c].target>>)
       THEN Close(c)
       ELSE Goto(c, "store") /\ UNCHANGED req
  /\ UNCHANGED <<box, meta, rate, held, now, deposits, restarts,
                 accepted, acked, evicted, overrun, lost, accepts>>

Store(c) ==
  LET m == req[c] IN
  /\ pc[c] = "store" /\ ~CountLimitReached(m.target)
  /\ StoreMessage(m)
  /\ Goto(c, "stored")
  /\ accepted' = [accepted EXCEPT ![m] = expiresAt]
  /\ acked' = acked \ {m}
  /\ accepts' = [accepts EXCEPT ![<<m.sender, m.target>>] = @ + 1]
  /\ UNCHANGED <<rate, req, held, now, deposits, restarts, lost>>

StoreRejected(c) ==
  /\ pc[c] = "store" /\ CountLimitReached(req[c].target)
  /\ Close(c)
  /\ UNCHANGED <<box, meta, rate, held, now, deposits, restarts,
                 accepted, acked, evicted, overrun, lost, accepts>>

\* The Badger transaction of the store fails after that of the eviction.
StoreFails(c) ==
  LET gone == checkQuota(req[c].target) IN
  /\ pc[c] = "store" /\ ~CountLimitReached(req[c].target)
  /\ DeleteMessages(gone) /\ evicted' = evicted \cup gone
  /\ Close(c)
  /\ UNCHANGED <<meta, rate, held, now, deposits, restarts, accepted,
                 acked, overrun, lost, accepts>>

\* Mutant of incrementRateLimit: a new bucket starts at zero and loses its first deposit.
MutantIncrement(p) ==
  LET n == IF p \in DOMAIN rate /\ rate[p].bucket = Hour THEN rate[p].count + 1 ELSE 0
  IN  Put(rate, p, [count |-> n, bucket |-> Hour])

incrementRateLimit(p) ==
  LET n == IF p \in DOMAIN rate /\ rate[p].bucket = Hour THEN rate[p].count ELSE 0
  IN  Put(rate, p, [count |-> n + 1, bucket |-> Hour])

\* The deposit is counted and answered.
Finish(c) ==
  LET m == req[c] IN
  /\ pc[c] = "stored"
  /\ rate' = incrementRateLimit(<<m.sender, m.target>>)
  /\ Close(c)
  /\ UNCHANGED <<box, meta, held, now, deposits, restarts, accepted, acked,
                 evicted, overrun, lost, accepts>>

-----------------------------------------------------------------------------
(* Retrieval, acknowledgment, the clock and restarts *)

Retrieve(t) ==
  /\ ListMessages(t) # {} /\ held[t] # ListMessages(t)
  /\ held' = [held EXCEPT ![t] = ListMessages(t)]
  /\ UNCHANGED <<box, meta, rate, pc, req, now, deposits, restarts,
                 accepted, acked, evicted, overrun, lost, accepts>>

Acknowledge(t) ==
  /\ held[t] # {}
  /\ DeleteMessages(held[t])
  /\ acked' = acked \cup {m \in Msg : Key(m) \in held[t]}
  /\ held' = [held EXCEPT ![t] = {}]
  /\ UNCHANGED <<meta, rate, pc, req, now, deposits, restarts, accepted, evicted,
                 overrun, lost, accepts>>

Tick ==
  /\ now < MaxTime
  /\ now' = now + 1
  /\ accepts' = IF Hour' = Hour THEN accepts ELSE [p \in DOMAIN accepts |-> 0]
  /\ UNCHANGED <<box, meta, rate, pc, req, held, deposits, restarts, accepted,
                 acked, evicted, overrun, lost>>

\* The process restarts: the store survives, streams and rate limits do not.
Restart ==
  /\ restarts < MaxRestarts
  /\ restarts' = restarts + 1
  /\ rate' = [p \in {} |-> 0]
  /\ pc' = [c \in Stream |-> "idle"] /\ req' = [c \in Stream |-> NoMsg]
  /\ accepts' = [p \in DOMAIN accepts |-> 0]
  /\ UNCHANGED <<box, meta, held, now, deposits, accepted, acked, evicted, overrun, lost>>

Handler(c) == CheckRate(c) \/ Store(c) \/ StoreRejected(c) \/ StoreFails(c) \/ Finish(c)

Next ==
  \/ \E c \in Stream : Handler(c) \/ \E m \in Msg : OpenDeposit(c, m)
  \/ \E t \in Target : Retrieve(t) \/ Acknowledge(t)
  \/ CleanupExpired \/ Tick \/ Restart

Spec == Init /\ [][Next]_vars

\* The cleanup ticker keeps firing and the scheduler runs every handler.
FairSpec ==
  /\ Spec
  /\ WF_vars(CleanupExpired)
  /\ \A c \in Stream : WF_vars(Handler(c))

-----------------------------------------------------------------------------
(* Properties *)

Stored(t) == Cardinality(KeysOf(t))

\* Type correctness of the store, the rate limits, the handlers and the histories.
TypeOK ==
  /\ DOMAIN box \subseteq {Key(m) : m \in Msg}
  /\ \A k \in DOMAIN box : box[k] \in [expires : Nat]
  /\ DOMAIN meta \subseteq Target
  /\ \A t \in DOMAIN meta : meta[t] \in [count : Nat, bytes : Nat]
  /\ DOMAIN rate \subseteq Sender \X Target
  /\ \A p \in DOMAIN rate : rate[p] \in [count : Nat, bucket : Nat]
  /\ pc \in [Stream -> {"idle", "check", "store", "stored"}]
  /\ req \in [Stream -> Msg \cup {NoMsg}]
  /\ \A c \in Stream : pc[c] = "idle" <=> req[c] = NoMsg
  /\ now \in Nat /\ deposits \in Nat /\ restarts \in Nat
  /\ accepted \in [Msg -> Nat] /\ acked \subseteq Msg
  /\ lost \in [Target -> Nat] /\ accepts \in [Sender \X Target -> Nat]

\* What the count of a target's metadata may reach: a limit of zero still lets
\* the first message in, for checkQuota finds no metadata.
CountLimit == IF MaxMessagesPerTarget = 0 THEN 1 ELSE MaxMessagesPerTarget

\* The metadata count that checkQuota trusts never falls below what the store
\* really holds, whatever order deposits, repeated deposits, acknowledgments,
\* evictions and cleanups come in, and concurrent streams never push it past its
\* limit: no target ever exceeds MaxMessagesPerTarget, unless CleanupExpired took
\* its metadata for an expired message PrefetchSize or more items before it.
CountQuota ==
  \A t \in Target :
    /\ Stored(t) <= (IF HasMeta(t) THEN meta[t].count ELSE 0) + lost[t]
    /\ HasMeta(t) => meta[t].count <= CountLimit

\* A message that was stored stays retrievable up to the last second of its
\* lifetime, of which ExpiresAt cuts off the fraction, unless its recipient
\* acknowledged it, the quota evicted it or CleanupExpired took it for an expired
\* message PrefetchSize or more items before it: no other cleanup, no restart,
\* failed store or acknowledgment of other messages removes it.
AcceptedRetained ==
  \A m \in Msg :
    \/ accepted[m] - (Second - 1) < now
    \/ m \in acked
    \/ Key(m) \in evicted \cup overrun
    \/ Key(m) \in ListMessages(m.target)

\* What the check-then-act of isRateLimited and incrementRateLimit does bound:
\* concurrent streams let a sender pass its hourly limit by at most the number of
\* other streams.
RateLimitWithSlack ==
  \A p \in DOMAIN accepts : accepts[p] <= DepositRateLimit + Cardinality(Stream) - 1

\* Neither limit is lost between the critical sections of concurrent deposits:
\* the count quota holds and the rate limit holds but for the other streams
\* (checkQuota, isRateLimited, incrementRateLimit).
QuotasHold == TypeOK /\ CountQuota /\ RateLimitWithSlack


=============================================================================
