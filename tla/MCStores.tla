----------------------------- MODULE MCStores -----------------------------
(* Both implementations of Storage for TLC.  A behaviour picks one of them *)
(* and two of its tables; the two share no state.                          *)
EXTENDS Integers, Sequences, FiniteSets, TLC

CONSTANTS Key, Val, Contact, Envelope, Group, Limits, PeerInfo, Source,
          Keep, Cutoff, Time, PrefetchSize, MaxMessages, Scopes

VARIABLES db, open, out, mem, messages, reply, impl, scope

B == INSTANCE BadgerStore
M == INSTANCE MemoryStore

\* Keys are made of one number or two, whole groups of sender keys of the first.
ASSUME KeyAssumption ==
  /\ DOMAIN Key = B!Abstract!Table
  /\ \A t \in DOMAIN Key : \A k \in Key[t] :
       IF t \in {"senderKey", "post"}
       THEN k = <<k[1], k[2]>> /\ k[1] \in Int /\ k[2] \in Int
       ELSE k = <<k[1]>> /\ k[1] \in Int
  /\ Contact \subseteq Int /\ Time \subseteq Int /\ Envelope \subseteq Int /\ Group \subseteq Int
\* Connections are counted, and times compared.
ASSUME PeerAssumption ==
  /\ \A v \in Val["peer"] :
       PeerInfo[v].connects \in Nat /\ PeerInfo[v].fails \in Nat /\ PeerInfo[v].seen \in Int
  /\ Cutoff \subseteq Int
\* Pages and the iterator's read-ahead have a size; a limit of 0 is none.
ASSUME PageAssumption ==
  0 \in Limits /\ Limits \subseteq Nat /\ Keep \subseteq Nat /\ PrefetchSize \in Nat \ {0} /\ MaxMessages \in Nat

Init ==
  /\ B!Init /\ M!NewMemoryStorage
  /\ impl \in {"badger", "memory"}
  /\ scope \in Scopes

Next ==
  /\ \/ impl = "badger" /\ B!NextOn(scope) /\ UNCHANGED <<mem, messages, reply>>
     \/ impl = "memory" /\ M!NextOn(scope) /\ UNCHANGED <<db, open, out>>
  /\ UNCHANGED <<impl, scope>>

Spec == Init /\ [][Next]_<<db, open, out, mem, messages, reply, impl, scope>>

\* BadgerStore!Implements: the Badger store implements the Storage interface,
\* although its tables share one key space (storage.go:72).
BadgerImplements == B!Implements
\* MemoryStore!Implements: the store of the tests implements it too, but for
\* callers that write to objects they share with it and for Clear (memory.go:14).
MemoryImplements == M!Implements
\* BadgerStore!KeySpaceSound: keys stay apart and pages tile the history.
KeySpaceSound == B!KeySpaceSound

-----------------------------------------------------------------------------
One(S) == {<<i>> : i \in S}
MCKey ==
  [t \in {"contact", "config", "blacklist", "group", "channel", "identity", "opk"} |-> One({1, 2})]
  @@ [t \in {"device", "spk", "session", "bundle"} |-> One({1})]
  @@ ("peer" :> One({1, 2, 3}))
  @@ ("senderKey" :> ({1, 2} \X {1, 2}))
  @@ ("post" :> {<<1, 1>>, <<1, 2>>, <<2, 1>>})
MCVal ==
  [t \in {"contact", "config"} |-> {0, 1}]
  @@ ("channel" :> {0}) @@ ("post" :> {1})
  @@ [t \in {"blacklist", "group", "senderKey", "identity", "device",
             "spk", "opk", "session", "bundle"} |-> {1}]
  @@ ("peer" :> {1, 2, 3})
MCPeerInfo ==
  <<[seen |-> 0, connects |-> 1, fails |-> 0, source |-> "dht"],
    [seen |-> 1, connects |-> 1, fails |-> 1, source |-> "dht"],
    [seen |-> 1, connects |-> 0, fails |-> 0, source |-> "mdns"]>>
MCScopes == {{"message"}, {"contact", "config"}, {"peer"}, {"contact", "blacklist"},
             {"group", "senderKey"}, {"senderKey", "prekey"}, {"channel"}, {"identity"}}
=============================================================================
