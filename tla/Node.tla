-------------------------------- MODULE Node --------------------------------
(***************************************************************************)
(* ipfsnode.Node: starting (peer key, host, bootstrap in stages, the       *)
(* background goroutines), the connection events that feed the peer count, *)
(* the scores and the metrics, health checks that reconnect and prune, the *)
(* advertising of the node itself, stopping, and the crash of the process. *)
(* The libp2p host and the DHT are external: connections come and go,      *)
(* directly or limited by a relay, and queries succeed or fail, as they    *)
(* please.                                                                 *)
(***************************************************************************)
EXTENDS Integers, Sequences, FiniteSets, SequencesExt

CONSTANTS
  Peer,            \* the other peers
  BootstrapPeers,  \* those of the configuration
  Enough,          \* connections that make bootstrap peers unnecessary (3)
  FewPeers,        \* connections below which a health check reconnects (5)
  PruneLevels,     \* the levels of pruning: above how many, which scores, how many
  MaxReconnects,   \* low-score peers a health check looks at (5)
  FreeDisconnects, \* disconnections that are not held against a peer (5)
  StartsAgain,     \* whether a node is started again after Stop (main never does)
  MaxChurn,        \* bound: connections made or lost by themselves, and crashes
  MaxChecks,       \* bound: health checks
  MaxStarts,       \* bound: starts of the node
  MaxKeys          \* bound: generated keys

VARIABLES
  keyFile,     \* peer.key: 0 absent, -1 torn, or the key
  hostKey,     \* the key of the host, 0 without one
  keys,        \* the keys hosts were ever created with
  misreads,    \* history: starts that could not read a key that was there
  stage,       \* how far Start or Stop has come
  isStarted,
  ctxDone,     \* n.ctx is cancelled
  links,       \* the peers the host is connected to
  limited,     \* those among them it reaches through a relay only
  storedPeers,       \* the peers main has stored for the next start
  bus,         \* connection events not yet handled
  subscribed,  \* the event goroutine runs
  peerCount,   \* n.peerCount
  base,        \* history: the connections it has missed
  current,     \* the metrics' count of current connections
  scores,      \* n.peerScores: connects, disconnects, fails and the score
  advertiser,  \* the goroutine that advertises the node at start
  advertised,  \* the DHT has a record of the node
  maintenance, \* the DHT maintenance goroutine
  doneClosed,  \* dhtMaintenanceDone is closed
  check,       \* a health check in progress
  churn, checks, starts

startVars == <<keyFile, hostKey, keys, misreads, storedPeers, starts>>
linkVars == <<links, limited, bus, base>>
eventVars == <<peerCount, current, scores, linkVars>>
vars == <<startVars, eventVars, stage, isStarted, ctxDone, subscribed, advertiser,
          advertised, maintenance, doneClosed, check, churn, checks>>

NoScore == [connects |-> 0, disconnects |-> 0, fails |-> 0, score |-> 0, known |-> FALSE]
NoCheck == [at |-> "none", todo |-> {}, pruned |-> 0, max |-> 0, above |-> 0, left |-> 0]

Init ==
  /\ keyFile = 0 /\ hostKey = 0 /\ keys = {} /\ misreads = 0 /\ storedPeers = {} /\ starts = 0
  /\ stage = "down" /\ isStarted = FALSE /\ ctxDone = FALSE
  /\ links = {} /\ limited = {} /\ bus = <<>> /\ subscribed = FALSE /\ peerCount = 0 /\ base = 0
  /\ current = 0 /\ scores = [p \in Peer |-> NoScore]
  /\ advertiser = "none" /\ advertised = FALSE
  /\ maintenance = "none" /\ doneClosed = FALSE /\ check = NoCheck
  /\ churn = 0 /\ checks = 0

-----------------------------------------------------------------------------
(* Connections and scores.                                                 *)

\* computeScore, in percent: the success rate less a penalty for frequent
\* disconnections, more a bonus for a recent connection.  A peer without
\* connections and failures keeps the score it has.
computeScore(s) ==
  LET total == s.connects + s.fails
      late == s.disconnects - FreeDisconnects
      penalty == IF late > 3 THEN 30 ELSE IF late > 0 THEN 10 * late ELSE 0
      bonus == IF s.connects > 0 THEN 10 ELSE 0
      raw == (100 * s.connects) \div total - penalty + bonus
  IN  IF total = 0 THEN s
      ELSE [s EXCEPT !.score = IF raw < 0 THEN 0 ELSE IF raw > 100 THEN 100 ELSE raw]

updatePeerScore(p, connected, failed) ==
  LET s == [scores[p] EXCEPT !.known = TRUE]
  IN  scores' = [scores EXCEPT ![p] = computeScore(
        IF connected /\ ~failed THEN [s EXCEPT !.connects = @ + 1]
        ELSE IF failed THEN [s EXCEPT !.fails = @ + 1]
        ELSE [s EXCEPT !.disconnects = @ + 1])]

getLowScorePeers(threshold) == {p \in Peer : scores[p].known /\ scores[p].score < threshold}

RecordConnection == current' = current + 1
RecordDisconnection == current' = IF current > 0 THEN current - 1 ELSE 0

\* A change of connectedness is reported to a subscriber that is there.
Report(p, s) == bus' = IF subscribed THEN Append(bus, [peer |-> p, state |-> s]) ELSE bus

\* A direct connection, to a peer that is not connected or through a relay only.
Link(p) ==
  /\ p \notin links \/ p \in limited
  /\ links' = links \cup {p} /\ limited' = limited \ {p}
  /\ base' = IF p \in links THEN base - 1 ELSE base
  /\ Report(p, "connected")

\* A connection through a relay, and a direct one that leaves one.
LinkRelayed(p) ==
  /\ p \notin links
  /\ links' = links \cup {p} /\ limited' = limited \cup {p} /\ base' = base + 1
  /\ Report(p, "limited")
FallBack(p) ==
  /\ p \in links \ limited
  /\ limited' = limited \cup {p} /\ UNCHANGED <<links, base>>
  /\ Report(p, "limited")

\* The last connection to the peer, of either kind.
Unlink(p) ==
  /\ p \in links
  /\ links' = links \ {p} /\ limited' = limited \ {p} /\ UNCHANGED base
  /\ Report(p, "notConnected")

HostUp == stage \notin {"down", "keyed", "closed"}

\* Peers connect to this node, directly, through a relay or by a hole they
\* punched, are found by mDNS, the DHT or /connect, and leave (HandlePeerFound,
\* startPeerDiscovery, ConnectToPeer).
PeerLinks(p) ==
  /\ HostUp /\ ~ctxDone /\ churn < MaxChurn /\ churn' = churn + 1
  /\ Link(p) \/ LinkRelayed(p) \/ FallBack(p)
  /\ UNCHANGED <<startVars, stage, isStarted, ctxDone, subscribed, peerCount, current, scores,
                 advertiser, advertised, maintenance, doneClosed, check, checks>>

PeerLeaves(p) ==
  /\ HostUp /\ churn < MaxChurn /\ churn' = churn + 1
  /\ Unlink(p)
  /\ check' = [check EXCEPT !.left = IF check.at = "prune" THEN @ + 1 ELSE @]
  /\ UNCHANGED <<startVars, stage, isStarted, ctxDone, subscribed, peerCount, current, scores,
                 advertiser, advertised, maintenance, doneClosed, checks>>

\* Mutant: a disconnection is not counted.
MutantHandlePeerEvent ==
  /\ subscribed /\ bus # <<>> /\ ~ctxDone
  /\ bus' = Tail(bus)
  /\ \/ /\ Head(bus).state = "connected"
        /\ peerCount' = peerCount + 1 /\ updatePeerScore(Head(bus).peer, TRUE, FALSE)
        /\ RecordConnection
     \/ /\ Head(bus).state = "notConnected"
        /\ UNCHANGED peerCount /\ updatePeerScore(Head(bus).peer, FALSE, FALSE)
        /\ RecordDisconnection
     \/ Head(bus).state = "limited" /\ UNCHANGED <<peerCount, current, scores>>
  /\ UNCHANGED <<startVars, links, limited, base, stage, isStarted, ctxDone, subscribed, advertiser,
                 advertised, maintenance, doneClosed, check, churn, checks>>

\* The goroutine of subscribePeerEvents: limited connections are ignored when
\* they are reported, but not when they end.
HandlePeerEvent ==
  /\ subscribed /\ bus # <<>> /\ ~ctxDone
  /\ bus' = Tail(bus)
  /\ \/ /\ Head(bus).state = "connected"
        /\ peerCount' = peerCount + 1 /\ updatePeerScore(Head(bus).peer, TRUE, FALSE)
        /\ RecordConnection
     \/ /\ Head(bus).state = "notConnected"
        /\ peerCount' = peerCount - 1 /\ updatePeerScore(Head(bus).peer, FALSE, FALSE)
        /\ RecordDisconnection
     \/ Head(bus).state = "limited" /\ UNCHANGED <<peerCount, current, scores>>
  /\ UNCHANGED <<startVars, links, limited, base, stage, isStarted, ctxDone, subscribed, advertiser,
                 advertised, maintenance, doneClosed, check, churn, checks>>

-----------------------------------------------------------------------------
(* Start.                                                                  *)

Unstarted == <<isStarted, ctxDone, subscribed, peerCount, current, scores, advertiser,
               advertised, maintenance, doneClosed, check, churn, checks>>

\* Mutant: a key that was read is replaced all the same.
MutantLoadOrGeneratePeerKey ==
  /\ stage = "down" /\ ~isStarted /\ starts < MaxStarts
  /\ starts' = starts + 1
  /\ stage' = "writing" /\ keyFile' = -1 /\ UNCHANGED misreads
  /\ UNCHANGED <<Unstarted, hostKey, keys, storedPeers, linkVars>>

\* The peer key is loaded.  A file that is absent, does not parse or cannot be
\* read is replaced by a new key, which is saved before it is used.
loadOrGeneratePeerKey ==
  /\ stage = "down" /\ ~isStarted /\ starts < MaxStarts
  /\ starts' = starts + 1
  /\ \/ keyFile > 0 /\ stage' = "keyed" /\ UNCHANGED <<keyFile, misreads>>
     \/ keyFile > 0 /\ stage' = "writing" /\ keyFile' = -1 /\ misreads' = misreads + 1
     \/ keyFile <= 0 /\ stage' = "writing" /\ keyFile' = -1 /\ UNCHANGED misreads
  /\ UNCHANGED <<Unstarted, hostKey, keys, storedPeers, linkVars>>

\* A key no host has used; which one makes no difference.
SaveKey ==
  /\ stage = "writing" /\ stage' = "keyed"
  /\ \E k \in 1 .. MaxKeys \ keys : keyFile' = k /\ \A j \in 1 .. MaxKeys \ keys : k <= j
  /\ UNCHANGED <<Unstarted, hostKey, keys, misreads, storedPeers, starts, linkVars>>

\* Host, DHT, PubSub and mDNS.
NewHost ==
  /\ stage = "keyed" /\ stage' = "stored"
  /\ hostKey' = keyFile /\ keys' = keys \cup {keyFile}
  /\ UNCHANGED <<Unstarted, keyFile, misreads, storedPeers, starts, linkVars>>

\* One of them cannot be created: Start returns an error, and the process ends.
StartFails ==
  /\ stage \in {"keyed", "stored"} /\ ~isStarted
  /\ stage' = "failed"
  /\ UNCHANGED <<Unstarted, startVars, linkVars>>

\* A stored record keeps the printed form of a peer ID, and parsePeerRecord
\* takes that text for the ID itself: no peer has such an ID.
parsePeerRecord(p) == <<"text", p>>
connectToPeersParallel(ids) == {p \in Peer : \E id \in ids : id = <<"peer", p>>}

\* Stage 1 of bootstrapDHT: the stored peers.
BootstrapStored ==
  /\ stage = "stored" /\ stage' = "configured"
  /\ \E S \in SUBSET connectToPeersParallel({parsePeerRecord(p) : p \in storedPeers}) :
       links' = links \cup S /\ limited' = limited \ S
  /\ UNCHANGED <<Unstarted, startVars, base, bus>>

\* Stage 2: the peers of the configuration, if there are not enough
\* connections or no stored peer could be reached.
BootstrapConfig ==
  /\ stage = "configured" /\ stage' = "advertise"
  /\ IF \/ Cardinality(links) < Enough
        \/ storedPeers # {} /\ connectToPeersParallel({parsePeerRecord(p) : p \in storedPeers}) = {}
     THEN \E S \in SUBSET BootstrapPeers : links' = links \cup S /\ limited' = limited \ S
     ELSE UNCHANGED <<links, limited>>
  /\ UNCHANGED <<Unstarted, startVars, base, bus>>

\* Stage 4: peers that do not answer a query get a failure.
verifyBootstrapPeers ==
  /\ stage = "advertise" /\ stage' = "subscribe"
  /\ \E S \in SUBSET links :
       scores' = [p \in Peer |->
         IF p \in S
         THEN computeScore([scores[p] EXCEPT !.fails = @ + 1, !.known = TRUE]) ELSE scores[p]]
  /\ advertiser' = "ready"
  /\ UNCHANGED <<startVars, linkVars, isStarted, ctxDone, subscribed, peerCount, current,
                 advertised, maintenance, doneClosed, check, churn, checks>>

subscribePeerEvents ==
  /\ stage = "subscribe" /\ stage' = "maintain"
  /\ subscribed' = TRUE
  /\ base' = Cardinality(links) - peerCount
  /\ UNCHANGED <<startVars, links, limited, bus, peerCount, current, scores, isStarted, ctxDone,
                 advertiser, advertised, maintenance, doneClosed, check, churn, checks>>

startDHTMaintenance ==
  /\ stage = "maintain" /\ stage' = "storing"
  /\ isStarted' = TRUE
  /\ maintenance' = "running"
  /\ UNCHANGED <<startVars, eventVars, ctxDone, subscribed, advertiser, advertised, doneClosed,
                 check, churn, checks>>

\* After Start main stores the connected peers for the next start; a peer whose
\* record cannot be written is left out.
storeConnectedPeers ==
  /\ stage = "storing" /\ stage' = "started"
  /\ \E S \in SUBSET links : storedPeers' = storedPeers \cup S
  /\ UNCHANGED <<keyFile, hostKey, keys, misreads, starts, eventVars, isStarted, ctxDone,
                 subscribed, advertiser, advertised, maintenance, doneClosed, check, churn,
                 checks>>

-----------------------------------------------------------------------------
(* Background goroutines.                                                  *)

\* AdvertiseSelf: refused before isStarted is set; the DHT may fail it.
AdvertiseSelf ==
  \/ isStarted /\ ~ctxDone /\ advertised' \in {advertised, TRUE}
  \/ (~isStarted \/ ctxDone) /\ UNCHANGED advertised

AdvertiseAtStart ==
  /\ advertiser = "ready" /\ advertiser' = "done"
  /\ AdvertiseSelf
  /\ UNCHANGED <<startVars, eventVars, stage, isStarted, ctxDone, subscribed, maintenance,
                 doneClosed, check, churn, checks>>

\* Mutant: maintenance only refreshes the routing table.
MutantMaintenanceTick ==
  /\ maintenance = "running" /\ ~ctxDone /\ ~advertised
  /\ UNCHANGED vars

\* A tick of DHT maintenance advertises again.
MaintenanceTick ==
  /\ maintenance = "running" /\ ~ctxDone /\ ~advertised
  /\ AdvertiseSelf
  /\ UNCHANGED <<startVars, eventVars, stage, isStarted, ctxDone, subscribed, advertiser,
                 maintenance, doneClosed, check, churn, checks>>

\* It ends with the context and closes dhtMaintenanceDone; closing it a second
\* time is a panic, which SafeGo swallows.
MaintenanceEnds ==
  /\ maintenance = "running" /\ ctxDone
  /\ maintenance' = "ended" /\ doneClosed' = TRUE
  /\ UNCHANGED <<startVars, eventVars, stage, isStarted, ctxDone, subscribed, advertiser,
                 advertised, check, churn, checks>>

\* The level of pruning for a number of connections, if any.
Level(n) == {l \in DOMAIN PruneLevels : n > PruneLevels[l].above
              /\ \A m \in DOMAIN PruneLevels : n > PruneLevels[m].above => PruneLevels[m].above <= PruneLevels[l].above}

\* performHealthCheck: few connections are topped up, many are pruned.
performHealthCheck ==
  /\ maintenance = "running" /\ ~ctxDone /\ check = NoCheck
  /\ checks < MaxChecks /\ checks' = checks + 1
  /\ LET n == Cardinality(links)
         low == getLowScorePeers(40)
     IN  IF n < FewPeers
         THEN \E S \in SUBSET low :
                /\ Cardinality(S) = MaxReconnects \/ (Cardinality(S) < MaxReconnects /\ S = low)
                /\ check' = [NoCheck EXCEPT !.at = "reconnect", !.todo = S]
         ELSE IF Level(n) = {} THEN check' = NoCheck
         ELSE LET l == PruneLevels[CHOOSE x \in Level(n) : TRUE]
              IN  check' = [at |-> "prune", todo |-> getLowScorePeers(l.score), pruned |-> 0,
                            max |-> l.max, above |-> l.above, left |-> 0]
  /\ UNCHANGED <<startVars, eventVars, stage, isStarted, ctxDone, subscribed, advertiser,
                 advertised, maintenance, doneClosed, churn>>

\* A peer that is connected by now, or has no addresses, is skipped, one that
\* cannot be reached gets a failure.
reconnectToLowScorePeers(p) ==
  /\ check.at = "reconnect" /\ p \in check.todo
  /\ check' = [check EXCEPT !.todo = @ \ {p}]
  /\ \/ UNCHANGED <<linkVars, scores>>
     \/ ~ctxDone /\ Link(p) /\ UNCHANGED scores
     \/ p \notin links \ limited /\ updatePeerScore(p, FALSE, TRUE) /\ UNCHANGED linkVars
  /\ UNCHANGED <<startVars, peerCount, current, stage, isStarted, ctxDone, subscribed, advertiser,
                 advertised, maintenance, doneClosed, churn, checks>>

\* Mutant: the quota is not looked at.
MutantClosePeer(p) ==
  /\ check.at = "prune" /\ p \in check.todo
  /\ \/ /\ p \in links \ limited /\ RecordDisconnection
        /\ Unlink(p) \/ UNCHANGED linkVars
        /\ check' = [check EXCEPT !.todo = @ \ {p}, !.pruned = @ + 1]
     \/ /\ p \notin links \ limited /\ UNCHANGED <<linkVars, current>>
        /\ check' = [check EXCEPT !.todo = @ \ {p}]
  /\ UNCHANGED <<startVars, peerCount, scores, stage, isStarted, ctxDone, subscribed, advertiser,
                 advertised, maintenance, doneClosed, churn, checks>>

\* The next peer of the list is closed if it is still connected, which counts
\* even if it fails.
ClosePeer(p) ==
  /\ check.at = "prune" /\ p \in check.todo /\ check.pruned < check.max
  /\ \/ /\ p \in links \ limited /\ RecordDisconnection
        /\ Unlink(p) \/ UNCHANGED linkVars
        /\ check' = [check EXCEPT !.todo = @ \ {p}, !.pruned = @ + 1]
     \/ /\ p \notin links \ limited /\ UNCHANGED <<linkVars, current>>
        /\ check' = [check EXCEPT !.todo = @ \ {p}]
  /\ UNCHANGED <<startVars, peerCount, scores, stage, isStarted, ctxDone, subscribed, advertiser,
                 advertised, maintenance, doneClosed, churn, checks>>

CheckEnds ==
  /\ check # NoCheck
  /\ check.todo = {} \/ (check.at = "prune" /\ check.pruned >= check.max)
  /\ check' = NoCheck
  /\ UNCHANGED <<startVars, eventVars, stage, isStarted, ctxDone, subscribed, advertiser,
                 advertised, maintenance, doneClosed, churn, checks>>

-----------------------------------------------------------------------------
(* Stop.                                                                   *)

\* The context is cancelled, topics, mDNS and the event subscription closed.
Stop ==
  /\ stage = "started" /\ isStarted
  /\ stage' = "stopping" /\ ctxDone' = TRUE
  /\ subscribed' = FALSE /\ bus' = <<>>
  /\ UNCHANGED <<startVars, links, limited, base, peerCount, current, scores, isStarted, advertiser,
                 advertised, maintenance, doneClosed, check, churn, checks>>

\* Stop waits for the maintenance goroutine, but not longer than 2 seconds,
\* and closes DHT and host.
CloseHost ==
  /\ stage = "stopping" /\ stage' = "down"
  /\ isStarted' = FALSE
  /\ links' = {} /\ limited' = {} /\ hostKey' = 0
  /\ UNCHANGED <<keyFile, keys, misreads, storedPeers, starts, base, bus, peerCount, current, scores, ctxDone,
                 subscribed, advertiser, advertised, maintenance, doneClosed, check, churn,
                 checks>>

\* The process ends at any point and leaves the key file and the stored peers;
\* the end of the last process is not followed.
Crash ==
  /\ stage # "down" \/ ctxDone
  /\ starts < MaxStarts /\ churn < MaxChurn /\ churn' = churn + 1
  /\ hostKey' = 0 /\ stage' = "down" /\ isStarted' = FALSE /\ ctxDone' = FALSE
  /\ links' = {} /\ limited' = {} /\ bus' = <<>> /\ subscribed' = FALSE /\ peerCount' = 0 /\ base' = 0
  /\ current' = 0 /\ scores' = [p \in Peer |-> NoScore]
  /\ advertiser' = "none" /\ advertised' = FALSE
  /\ maintenance' = "none" /\ doneClosed' = FALSE /\ check' = NoCheck
  /\ UNCHANGED <<keyFile, keys, misreads, storedPeers, starts, checks>>

Start ==
  \/ SaveKey \/ NewHost \/ BootstrapStored \/ BootstrapConfig
  \/ verifyBootstrapPeers \/ subscribePeerEvents \/ startDHTMaintenance

Next ==
  \/ (ctxDone => StartsAgain) /\ loadOrGeneratePeerKey
  \/ Start \/ StartFails \/ storeConnectedPeers
  \/ HandlePeerEvent \/ AdvertiseAtStart \/ MaintenanceTick \/ MaintenanceEnds
  \/ performHealthCheck \/ CheckEnds \/ Stop \/ CloseHost \/ Crash
  \/ \E p \in Peer :
       PeerLinks(p) \/ PeerLeaves(p) \/ reconnectToLowScorePeers(p) \/ ClosePeer(p)

Fairness ==
  /\ WF_vars(Start) /\ WF_vars(AdvertiseAtStart) /\ WF_vars(MaintenanceTick)
  /\ WF_vars(CloseHost) /\ WF_vars(MaintenanceEnds)

Spec == Init /\ [][Next]_vars /\ Fairness

-----------------------------------------------------------------------------
\* The node keeps its peer ID, whenever the process crashed before, but for the
\* starts that could not read the key: each of them replaces a key that was good
\* (loadOrGeneratePeerKey).
PeerIDStable == Cardinality(keys) <= 1 + misreads

\* The peer count, once its events are handled, is short by exactly the peers
\* that were connected before the node began to listen and those that came
\* through a relay, and over by the relayed ones that became direct: what was
\* missed is never made good for as long as the node runs (subscribePeerEvents
\* after bootstrapDHT; Limited is ignored, NotConnected always counted).
PeerCountDrift ==
  subscribed =>
    peerCount + Cardinality({i \in DOMAIN bus : bus[i].state = "connected"})
      - Cardinality({i \in DOMAIN bus : bus[i].state = "notConnected"}) = Cardinality(links) - base

\* A health check prunes at most its quota: it leaves at least as many
\* connections as its level stands for less the quota, but for the peers that
\* left by themselves while it went on with the count it had taken
\* (performHealthCheck).
PruneKeepsEnough ==
  check.at = "prune" /\ ~ctxDone => Cardinality(links) > check.above - check.max - check.left

\* Identity, peer count and connections of the node survive crashes, late
\* events and health checks that work on a stale count.
NodeSound == PeerIDStable /\ PeerCountDrift /\ PruneKeepsEnough

\* A node that is started is eventually advertised in the DHT although the
\* goroutine that does so at start may run before isStarted is set and give
\* up: maintenance advertises again.  A node started after a Stop has a
\* cancelled context and is left out (AdvertiseSelf, startDHTMaintenance).
EventuallyAdvertised == isStarted /\ ~ctxDone ~> advertised \/ ~isStarted \/ ctxDone
=============================================================================
