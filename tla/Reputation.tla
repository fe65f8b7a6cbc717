----------------------------- MODULE Reputation -----------------------------
(***************************************************************************)
(* The reputation of peers: a tracker whose records many goroutines create *)
(* and update, their copies in the database, and the attestations that     *)
(* peers sign, publish, request from one another and keep.                 *)
(*                                                                         *)
(* Ratios are in percent and scores in hundredths of a percent; what       *)
(* floating point rounds away is not modelled.  Time is in half seconds.   *)
(***************************************************************************)
EXTENDS Integers, Sequences, FiniteSets, SequencesExt

CONSTANTS
  Peer, Self,          \* the peers, and this one
  Worker,              \* goroutines that report events
  Responses,           \* response times of DHT queries, in percent of the limit
  Adjustments,         \* trust adjustments that are asked for
  HoursPerWeek, MaxAttestations, MinHours, ExpiryTime,
  MaxEvents,           \* bound: events reported
  MaxAtts,             \* bound: attestations created
  MaxTime              \* bound of the clock

VARIABLES
  objs,      \* the Record objects allocated
  index,     \* Tracker.records: the object of each peer, 0 for none
  job,       \* what each goroutine is doing
  reported,  \* how many events were reported of each peer
  db,        \* the records in the database
  saving,    \* snapshots on their way to the database
  now,
  wire,      \* attestations published, as encoded
  own,       \* attestations created here
  accepted,  \* attestations accepted about each peer, oldest first
  request    \* RequestAttestations in progress

vars == <<objs, index, job, reported, db, saving, now, wire, own, accepted, request>>
trackVars == <<objs, index, job, reported, db, saving, accepted>>
attVars == <<wire, own, request>>

Fresh(t) ==
  [relayed |-> 0, relays |-> 0, hours |-> 0, deposited |-> 0, retrieved |-> 0, queries |-> 0,
   ms |-> 0, served |-> 0, requested |-> 0, trust |-> 0, score |-> 0, tier |-> 0,
   events |-> 0, atts |-> <<>>, first |-> t, busy |-> FALSE]
NoRecord == Fresh(-1)
Idle == [at |-> "idle", p |-> 0, e |-> [op |-> "none"], o |-> 0]
NoRequest == [at |-> "none", p |-> 0, got |-> {}]

Init ==
  /\ objs = <<>> /\ index = [p \in Peer |-> 0]
  /\ job = [w \in Worker |-> Idle] /\ reported = [p \in Peer |-> 0]
  /\ db = [p \in Peer |-> NoRecord] /\ saving = {}
  /\ now = 0 /\ wire = {} /\ own = {}
  /\ accepted = [p \in Peer |-> <<>>] /\ request = NoRequest

-----------------------------------------------------------------------------
(* Scores.                                                                 *)

Percent(a, b) == IF b = 0 THEN 0 ELSE IF a > b THEN 100 ELSE (100 * a) \div b
Clamp(x, lo, hi) == IF x < lo THEN lo ELSE IF x > hi THEN hi ELSE x

\* The weighted sum of the five dimensions and the trust adjustment ...
CompositeScore(r) ==
  LET dht == IF r.queries = 0 THEN 0 ELSE Clamp(100 - r.ms \div r.queries, 0, 100)
  IN  Clamp(25 * Percent(r.relayed, r.relays) + 20 * Percent(r.hours, HoursPerWeek)
            + 25 * Percent(r.retrieved, r.deposited) + 15 * dht
            + 15 * Percent(r.served, r.requested) + r.trust, 0, 10000)
\* ... and the tier it falls in.
TierOf(s) == IF s >= 8000 THEN 3 ELSE IF s >= 6000 THEN 2 ELSE IF s >= 3000 THEN 1 ELSE 0
updateCompositeScore(r) ==
  [r EXCEPT !.score = CompositeScore(r), !.tier = TierOf(CompositeScore(r))]

RecordRelayEvent(r, success) ==
  [r EXCEPT !.relays = @ + 1, !.relayed = IF success THEN @ + 1 ELSE @]
RecordUptimeObservation(r, online) ==
  [r EXCEPT !.hours = IF online /\ @ < HoursPerWeek THEN @ + 1 ELSE @]
RecordMailboxEvent(r, deposited) ==
  IF deposited THEN [r EXCEPT !.deposited = @ + 1] ELSE [r EXCEPT !.retrieved = @ + 1]
RecordDHTQuery(r, ms) == [r EXCEPT !.queries = @ + 1, !.ms = @ + ms]
RecordContentEvent(r, served) ==
  IF served THEN [r EXCEPT !.served = @ + 1] ELSE [r EXCEPT !.requested = @ + 1]
SetTrustAdjustment(r, a) == [r EXCEPT !.trust = Clamp(a, -5000, 5000)]

\* Mutant: a full list takes no more.
MutantAppendAttestation(r, a) ==
  [r EXCEPT !.atts = IF Len(@) >= MaxAttestations THEN @ ELSE Append(@, a)]

\* An attestation beyond the limit replaces the oldest.
AppendAttestation(r, a) ==
  [r EXCEPT !.atts = Append(IF Len(@) >= MaxAttestations THEN Tail(@) ELSE @, a)]

Apply(r, e) ==
  CASE e.op = "relay"   -> RecordRelayEvent(r, e.yes)
    [] e.op = "uptime"  -> RecordUptimeObservation(r, e.yes)
    [] e.op = "mailbox" -> RecordMailboxEvent(r, e.yes)
    [] e.op = "content" -> RecordContentEvent(r, e.yes)
    [] e.op = "dht"     -> RecordDHTQuery(r, e.n)
    [] e.op = "trust"   -> SetTrustAdjustment(r, e.n)
    [] e.op = "attest"  -> AppendAttestation(r, e.att)

Event ==
  [op : {"relay", "uptime", "mailbox", "content"}, yes : BOOLEAN]
  \cup [op : {"dht"}, n : Responses] \cup [op : {"trust"}, n : Adjustments]

-----------------------------------------------------------------------------
(* The tracker.                                                            *)

Total == LET sum[S \in SUBSET Peer] ==
               IF S = {} THEN 0
               ELSE LET p == CHOOSE x \in S : TRUE IN reported[p] + sum[S \ {p}]
         IN  sum[Peer]

Begin(w, p, e) ==
  /\ job[w] = Idle /\ Total < MaxEvents
  /\ reported' = [reported EXCEPT ![p] = @ + 1]
  /\ job' = [job EXCEPT ![w] = [at |-> "lookup", p |-> p, e |-> e, o |-> 0]]

RecordEvent(w, p, e) ==
  /\ Begin(w, p, e)
  /\ UNCHANGED <<objs, index, db, saving, accepted, now, attVars>>

\* GetOrCreateRecord: a lookup under the read lock ...
GetOrCreateRecord(w) ==
  /\ job[w].at = "lookup"
  /\ job' = [job EXCEPT ![w].at = IF index[job[w].p] = 0 THEN "create" ELSE "count",
                        ![w].o = index[job[w].p]]
  /\ UNCHANGED <<objs, index, reported, db, saving, accepted, now, attVars>>

\* Mutant: no second lookup under the write lock.
MutantCreateRecord(w) ==
  /\ job[w].at = "create"
  /\ objs' = Append(objs, Fresh(now))
  /\ index' = [index EXCEPT ![job[w].p] = Len(objs) + 1]
  /\ job' = [job EXCEPT ![w].at = "count", ![w].o = Len(objs) + 1]
  /\ UNCHANGED <<reported, db, saving, accepted, now, attVars>>

\* ... and, under the write lock, a second one before a record is created.
CreateRecord(w) ==
  /\ job[w].at = "create"
  /\ LET p == job[w].p
         o == IF index[p] # 0 THEN index[p] ELSE Len(objs) + 1
     IN  /\ objs' = IF index[p] # 0 THEN objs ELSE Append(objs, Fresh(now))
         /\ index' = [index EXCEPT ![p] = o]
         /\ job' = [job EXCEPT ![w].at = "count", ![w].o = o]
  /\ UNCHANGED <<reported, db, saving, accepted, now, attVars>>

\* An event counted in a record, whose lock is now held.
Counted(r, e) == [Apply(r, e) EXCEPT !.events = @ + 1, !.busy = TRUE]

\* The counters change, and then the score, under the lock of the record.
Count(w) ==
  LET o == job[w].o
  IN  /\ job[w].at = "count" /\ ~objs[o].busy
      /\ objs' = [objs EXCEPT ![o] = Counted(@, job[w].e)]
      /\ job' = [job EXCEPT ![w].at = "score"]
      /\ accepted' = IF job[w].e.op = "attest"
                     THEN [accepted EXCEPT ![job[w].p] = Append(@, job[w].e.att)] ELSE accepted
      /\ UNCHANGED <<index, reported, db, saving, now, attVars>>

Score(w) ==
  LET o == job[w].o
  IN  /\ job[w].at = "score"
      /\ objs' = [objs EXCEPT ![o] = [updateCompositeScore(@) EXCEPT !.busy = FALSE]]
      /\ job' = [job EXCEPT ![w] = Idle]
      /\ UNCHANGED <<index, reported, db, saving, accepted, now, attVars>>

\* Mutant: the snapshot is taken without the lock of the record.
MutantToProto(p) == {objs[index[p]]}

\* ToProto: a snapshot under the read lock of the record.
ToProto(p) == IF objs[index[p]].busy THEN {} ELSE {objs[index[p]]}

SaveRecord(p) ==
  /\ index[p] # 0 /\ db[p] # objs[index[p]]
  /\ \E r \in ToProto(p) : saving' = saving \cup {[p |-> p, r |-> [r EXCEPT !.busy = FALSE]]}
  /\ UNCHANGED <<objs, index, job, reported, db, accepted, now, attVars>>

\* The snapshots reach the database in any order.
SaveReaches(s) ==
  /\ s \in saving /\ saving' = saving \ {s}
  /\ db' = [db EXCEPT ![s.p] = s.r]
  /\ UNCHANGED <<objs, index, job, reported, accepted, now, attVars>>

DeleteRecord(p) ==
  /\ db[p] # NoRecord
  /\ db' = [db EXCEPT ![p] = NoRecord]
  /\ UNCHANGED <<objs, index, job, reported, saving, accepted, now, attVars>>

Tick == now < MaxTime /\ now' = now + 1 /\ UNCHANGED <<trackVars, attVars>>

\* The peers of a tier, and of the stored records (GetStats).
GetPeersByTier(t) == {p \in Peer : index[p] # 0 /\ objs[index[p]].tier = t}
GetStats == [t \in 0 .. 3 |-> Cardinality({p \in Peer : db[p] # NoRecord /\ db[p].tier = t})]

-----------------------------------------------------------------------------
(* Attestations.                                                           *)

Unix(t) == t \div 2
Att(by, about, t) == [by |-> by, about |-> about, time |-> t]

\* Mutant: the time is signed in full.
MutantCanonical(a) == [by |-> a.by, about |-> a.about, sec |-> a.time]

\* What is signed, by an attester and by a verifier alike: the encoding with
\* the time in whole seconds.
Canonical(a) == [by |-> a.by, about |-> a.about, sec |-> Unix(a.time)]
Signed(a) == [att |-> a, sig |-> [key |-> a.by, of |-> Canonical(a)]]
VerifyAttestation(s) == s.sig = [key |-> s.att.by, of |-> Canonical(s.att)]

CreateAttestation(p) ==
  /\ Cardinality(own) < MaxAtts
  /\ own' = own \cup {Signed(Att(Self, p, now))}
  /\ UNCHANGED <<trackVars, now, wire, request>>

\* Encoding keeps the seconds, decoding makes a time of them.
Encode(s) == [c |-> [by |-> s.att.by, about |-> s.att.about, sec |-> Unix(s.att.time)], sig |-> s.sig]
Decode(e) == [att |-> [by |-> e.c.by, about |-> e.c.about, time |-> 2 * e.c.sec], sig |-> e.sig]

PublishAttestation(s) ==
  /\ s \in own /\ VerifyAttestation(s) /\ Encode(s) \notin wire
  /\ wire' = wire \cup {Encode(s)}
  /\ UNCHANGED <<trackVars, now, own, request>>

\* Another peer publishes one about a third.
PeerPublishes(q, p) ==
  /\ Cardinality(wire) < MaxAtts /\ q # Self
  /\ Encode(Signed(Att(q, p, now))) \notin wire
  /\ wire' = wire \cup {Encode(Signed(Att(q, p, now)))}
  /\ UNCHANGED <<trackVars, now, own, request>>

\* GetAttestation verifies what it fetches.
GetAttestation(e) == {s \in {Decode(e)} : VerifyAttestation(s)}

\* AddAttestation: one that has expired is refused, and one of a peer that was
\* first seen too recently; of a peer never seen it is accepted.  The signature
\* is not looked at.
AddAttestation(w, e) ==
  LET s == Decode(e)
      q == s.att.by
  IN  /\ now <= s.att.time + ExpiryTime
      /\ index[q] # 0 => now - objs[index[q]].first >= MinHours
      /\ Begin(w, s.att.about, [op |-> "attest", att |-> s])
      /\ UNCHANGED <<objs, index, db, saving, accepted, now, attVars>>

\* RequestAttestations publishes a query, then listens for answers ...
RequestAttestations(p) ==
  /\ request = NoRequest
  /\ request' = [at |-> "queried", p |-> p, got |-> {}]
  /\ UNCHANGED <<trackVars, now, wire, own>>

Listen ==
  /\ request.at = "queried"
  /\ request' = [request EXCEPT !.at = "listening"]
  /\ UNCHANGED <<trackVars, now, wire, own>>

\* ... an answer given before that is lost; of the others the attestations that
\* verify are collected, whoever they are about ...
RespondToAttestationRequest(e) ==
  /\ request.at \in {"queried", "listening"} /\ e \in wire
  /\ request' = IF request.at = "listening"
                THEN [request EXCEPT !.got = @ \cup GetAttestation(e)] ELSE request
  /\ UNCHANGED <<trackVars, now, wire, own>>

\* ... until time runs out.
RequestTimeout ==
  /\ request.at = "listening"
  /\ request' = NoRequest
  /\ UNCHANGED <<trackVars, now, wire, own>>

Tracking ==
  \/ \E w \in Worker :
       \/ \E p \in Peer, e \in Event : RecordEvent(w, p, e)
       \/ GetOrCreateRecord(w) \/ CreateRecord(w) \/ Count(w) \/ Score(w)
  \/ \E p \in Peer : SaveRecord(p) \/ DeleteRecord(p)
  \/ \E s \in saving : SaveReaches(s)

Publishing ==
  \/ \E p \in Peer : CreateAttestation(p) \/ \E q \in Peer : PeerPublishes(q, p)
  \/ \E s \in own : PublishAttestation(s)
  \/ Tick

Attesting ==
  \/ Publishing
  \/ \E w \in Worker :
       \/ \E e \in wire : AddAttestation(w, e)
       \/ GetOrCreateRecord(w) \/ CreateRecord(w) \/ Count(w) \/ Score(w)

Requesting ==
  \/ Publishing
  \/ \E p \in Peer : RequestAttestations(p)
  \/ \E e \in wire : RespondToAttestationRequest(e)
  \/ Listen \/ RequestTimeout

Next == Tracking \/ Attesting \/ Requesting

Spec == Init /\ [][Next]_vars

-----------------------------------------------------------------------------
\* No reported event is lost when goroutines report a peer for the first time
\* at once: each is in the record of the peer, or on its way to be counted
\* there (GetOrCreateRecord).
NoEventLost ==
  \A p \in Peer :
    reported[p] = (IF index[p] = 0 THEN 0 ELSE objs[index[p]].events)
      + Cardinality({w \in Worker : job[w].p = p /\ job[w].at \in {"lookup", "create", "count"}})

\* A stored record is one the peer had: score and tier are those of the
\* counters stored with them (ToProto takes the lock of the record).
StoredRecordWhole ==
  \A p \in Peer : db[p] # NoRecord => db[p] = updateCompositeScore(db[p])

\* Of the attestations accepted about a peer the latest are kept, in the order
\* of acceptance, up to the limit (AddAttestation).
LatestAttestationsKept ==
  \A p \in Peer : index[p] # 0 =>
    LET n == Len(accepted[p])
        k == IF n < MaxAttestations THEN n ELSE MaxAttestations
    IN  objs[index[p]].atts = SubSeq(accepted[p], n - k + 1, n)

\* What was signed and published verifies after the encoding has cut its time
\* to seconds, so that no honest attestation is refused (CreateAttestation,
\* VerifyAttestation, GetAttestation).
PublishedVerifies == \A e \in wire : GetAttestation(e) # {}

\* What is known of a peer is what was reported and attested of it: events are
\* counted, stored and published records are the peer's own, and the latest
\* attestations are kept.
ReputationSound ==
  NoEventLost /\ StoredRecordWhole /\ LatestAttestationsKept /\ PublishedVerifies
=============================================================================
