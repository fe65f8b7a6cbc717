------------------------------ MODULE MCPeers ------------------------------
(* The peer layer for TLC: a behaviour is one of ContactPeers,             *)
(* ContactTracker, AddrBook, Node or one of the three parts of Reputation. *)
(* The parts share no state.                                               *)
EXTENDS Integers, Sequences, FiniteSets

CONSTANTS Contact, Peer, Addr, Name, Caller, MaxCalls,
          Home, MaxOps, MaxObjects,
          PubKey, BookAddr, MaxPeers, BookTime, MaxChanges,
          BootstrapPeers, Enough, FewPeers, PruneLevels, MaxReconnects, FreeDisconnects,
          StartsAgain, MaxChurn, MaxChecks, MaxStarts, MaxKeys,
          Self, Worker, Responses, Adjustments, HoursPerWeek, MaxAttestations,
          MinHours, ExpiryTime, MaxEvents, MaxAtts, MaxTime

VARIABLES
  part,
  stored, cache, contactMu, call, calls, adding, unsaved,
  records, infos, contactPeers, online, refresh, setter, ops, strayed,
  peers, file, phase, clock, changes, saved,
  keyFile, hostKey, keys, misreads, stage, isStarted, ctxDone, links, limited, storedPeers, bus,
  subscribed, peerCount, base, current, scores, advertiser, advertised, maintenance, doneClosed, check,
  churn, checks, starts,
  objs, index, job, reported, db, saving, now, wire, own, accepted, request

contactVars == <<stored, cache, contactMu, call, calls, adding, unsaved>>
trackerVars == <<records, infos, contactPeers, online, refresh, setter, ops, strayed>>
bookVars == <<peers, file, phase, clock, changes, saved>>
nodeVars ==
  <<keyFile, hostKey, keys, misreads, stage, isStarted, ctxDone, links, limited, storedPeers, bus,
    subscribed, peerCount, base, current, scores, advertiser, advertised, maintenance, doneClosed, check,
    churn, checks, starts>>
reputationVars == <<objs, index, job, reported, db, saving, now, wire, own, accepted, request>>

C == INSTANCE ContactPeers
T == INSTANCE ContactTracker
A == INSTANCE AddrBook WITH Addr <- BookAddr, MaxTime <- BookTime
N == INSTANCE Node
R == INSTANCE Reputation

\* Zero stands for no contact, no peer and no address, and nobody is called "free".
ASSUME ContactAssumption ==
  0 \notin Contact /\ Peer \subseteq Nat \ {0} /\ Addr \subseteq Nat \ {0} /\ "free" \notin Caller
\* Every address is some peer's, and there are finitely many contacts.
ASSUME TrackerAssumption == Home \in [Addr -> Peer] /\ IsFiniteSet(Contact)
ASSUME BookAssumption == MaxPeers \in Nat
\* Goroutines are finitely many, and a week and the list of attestations have room.
ASSUME ReputationAssumption ==
  /\ IsFiniteSet(Worker) /\ Self \in Peer
  /\ Responses \subseteq Nat /\ Adjustments \subseteq Int
  /\ HoursPerWeek \in Nat \ {0} /\ MaxAttestations \in Nat \ {0}

\* Peers are finitely many, the configured ones among them.
ASSUME NodeAssumption ==
  /\ IsFiniteSet(Peer) /\ BootstrapPeers \subseteq Peer
  /\ PruneLevels \in Seq([above : Nat, score : Int, max : Nat])

vars == <<part, contactVars, trackerVars, bookVars, nodeVars, reputationVars>>

Init ==
  /\ part \in {"contacts", "tracker", "addrbook", "node", "scores", "attestations", "requests"}
  /\ C!Init /\ T!Init /\ A!Init /\ N!Init /\ R!Init
  /\ part # "contacts" => \A c \in Contact : stored[c] = C!NoContact
  /\ part # "tracker" => online = {} /\ \A c \in Contact : records[c] = T!NoContact

Next ==
  /\ UNCHANGED part
  /\ \/ part = "contacts" /\ C!Next /\ UNCHANGED <<trackerVars, bookVars, nodeVars, reputationVars>>
     \/ part = "tracker" /\ T!Next /\ UNCHANGED <<contactVars, bookVars, nodeVars, reputationVars>>
     \/ part = "addrbook" /\ A!Next /\ UNCHANGED <<contactVars, trackerVars, nodeVars, reputationVars>>
     \/ part = "node" /\ N!Next /\ UNCHANGED <<contactVars, trackerVars, bookVars, reputationVars>>
     \/ part = "scores" /\ R!Tracking /\ UNCHANGED <<contactVars, trackerVars, bookVars, nodeVars>>
     \/ part = "attestations" /\ R!Attesting /\ UNCHANGED <<contactVars, trackerVars, bookVars, nodeVars>>
     \/ part = "requests" /\ R!Requesting /\ UNCHANGED <<contactVars, trackerVars, bookVars, nodeVars>>

\* The fairness of the part the behaviour is about.
Fairness ==
  /\ \A t \in Caller : WF_contactVars(part = "contacts" /\ C!Step(t))
  /\ WF_trackerVars(part = "tracker" /\ T!StartPeriodicRefresh)
  /\ WF_trackerVars(part = "tracker" /\ T!Setter)
  /\ WF_nodeVars(part = "node" /\ N!Start)
  /\ WF_nodeVars(part = "node" /\ N!MaintenanceTick)

Spec == Init /\ [][Next]_vars /\ Fairness

\* ContactPeers!CacheMatchesStore: storage has what the cache has.
CacheMatchesStore == C!CacheMatchesStore
\* ContactPeers!CallsReturn: calls that look for a contact return.
CallsReturn == C!CallsReturn
\* ContactTracker!AddrsBelongToPeer: stored addresses are the stored peer's.
AddrsBelongToPeer == T!AddrsBelongToPeer
\* ContactTracker!PresenceCatchesUp: presence catches up with the DHT.
PresenceCatchesUp == T!PresenceCatchesUp
\* AddrBook!BookKept: no start and no limit loses peers silently.
BookKept == A!BookKept
\* Node!NodeSound: peer ID, peer count and connections stay sound.
NodeSound == N!NodeSound
\* Node!EventuallyAdvertised: a started node is advertised.
EventuallyAdvertised == N!EventuallyAdvertised
\* Reputation!ReputationSound: events and attestations are kept as reported.
ReputationSound == R!ReputationSound

-----------------------------------------------------------------------------
MCHome == <<1, 2>>
MCPruneLevels == <<[above |-> 1, score |-> 60, max |-> 1]>>
MCAdjustments == {-6000, 3000}
=============================================================================
