---------------------------- MODULE PeersProofs ----------------------------
(***************************************************************************)
(* Proofs about the peer layer of MCPeers, each for the specification of   *)
(* its own module.                                                         *)
(***************************************************************************)
EXTENDS MCPeers, FiniteSetTheorems, SequenceTheorems, WellFoundedInduction, TLAPS

-----------------------------------------------------------------------------
(* Finding contacts.                                                       *)

ContactRecord == [name : Name, peer : Nat, addrs : Nat]
Finding == [peer : Nat, addrs : Nat, connected : BOOLEAN]
ContactCall ==
  [op : {"FindAndConnectToContact", "IsContactOnline"},
   at : {"lookup", "connect", "update", "read", "write"},
   c : Contact, info : Finding, rec : ContactRecord \cup {C!NoContact}]

ContactTypes ==
  /\ stored \in [Contact -> ContactRecord \cup {C!NoContact}]
  /\ cache \in [Contact -> Finding]
  /\ contactMu \in Caller \cup {"free"}
  /\ call \in [Caller -> ContactCall \cup {C!Idle}]
  /\ adding \in Contact \cup {0}

\* What goroutine t relies on between the steps of its call: the contact it
\* found stays stored, and under contactMu the cache has what t found and the
\* record it is about to write is the stored one with that finding.
CallSound(t) ==
  /\ contactMu = t <=> call[t].at \in {"read", "write"}
  /\ call[t].at \in {"connect", "update", "read", "write"} => stored[call[t].c] # C!NoContact
  /\ call[t].at = "connect" => call[t].rec # C!NoContact
  /\ call[t].at \in {"update", "read", "write"} => call[t].info.connected
  /\ call[t].at \in {"read", "write"} => cache[call[t].c] = call[t].info
  /\ call[t].at = "write" => call[t].rec = C!Merged(stored[call[t].c], call[t].info)

\* Storage has what the cache has of c, unless the last write failed or one is
\* under way.
Agrees(c) ==
  cache[c].connected =>
    /\ stored[c] # C!NoContact
    /\ c \notin unsaved /\ (contactMu = "free" \/ call[contactMu].c # c) =>
         C!Merged(stored[c], cache[c]) = stored[c]

ContactInv ==
  /\ ContactTypes
  /\ \A t \in Caller : CallSound(t)
  /\ \A c \in Contact : Agrees(c)
  /\ adding # 0 => stored[adding] = C!NoContact

\* A finding merged twice is merged once, and merging keeps a record a record.
LEMMA MergedOnce ==
  ASSUME NEW r \in ContactRecord, NEW i \in Finding
  PROVE  C!Merged(r, i) \in ContactRecord /\ C!Merged(C!Merged(r, i), i) = C!Merged(r, i)
BY DEF C!Merged, ContactRecord, Finding

LEMMA ContactInit == C!Init => ContactInv
<1> SUFFICES ASSUME C!Init PROVE ContactInv
  OBVIOUS
<1>1. ContactTypes
  <2>1. [name : Name, peer : Peer, addrs : {0}] \subseteq ContactRecord
        /\ [name : Name, peer : {0}, addrs : Addr] \subseteq ContactRecord
    <3>0. Peer \subseteq Nat /\ Addr \subseteq Nat /\ 0 \in Nat
      BY ContactAssumption
    <3>1. ASSUME NEW r \in [name : Name, peer : Peer, addrs : {0}] PROVE r \in ContactRecord
      <4>1. r \in [name : Name, peer : Peer, addrs : {0}] => r.peer \in Peer /\ r.addrs = 0
        OBVIOUS
      <4>2. r.peer \in Nat /\ r.addrs \in Nat
        BY ONLY <3>0, <4>1, r \in [name : Name, peer : Peer, addrs : {0}]
      <4> QED BY <4>2 DEF ContactRecord
    <3>2. ASSUME NEW r \in [name : Name, peer : {0}, addrs : Addr] PROVE r \in ContactRecord
      <4>1. r \in [name : Name, peer : {0}, addrs : Addr] => r.peer = 0 /\ r.addrs \in Addr
        OBVIOUS
      <4>2. r.peer \in Nat /\ r.addrs \in Nat
        BY ONLY <3>0, <4>1, r \in [name : Name, peer : {0}, addrs : Addr]
      <4> QED BY <4>2 DEF ContactRecord
    <3> QED BY <3>1, <3>2
  <2>2. stored \in [Contact -> ContactRecord \cup {C!NoContact}]
    BY <2>1 DEF C!Init
  <2>3. cache \in [Contact -> Finding]
    BY DEF C!Init, C!NoInfo, Finding
  <2> QED BY <2>2, <2>3 DEF C!Init, ContactTypes, C!Free, C!NoOne
<1>2. \A t \in Caller : CallSound(t)
  BY ContactAssumption DEF C!Init, CallSound, C!Idle, C!Free
<1>3. \A c \in Contact : Agrees(c)
  BY DEF C!Init, Agrees, C!NoInfo
<1> QED BY <1>1, <1>2, <1>3 DEF ContactInv, C!Init, C!NoOne

\* A step of one call that leaves storage, the cache and contactMu alone, and
\* the call outside of its critical section.
LEMMA ContactAside ==
  ASSUME ContactInv, NEW t \in Caller, NEW r \in ContactCall \cup {C!Idle},
         call' = [call EXCEPT ![t] = r], UNCHANGED <<stored, cache, contactMu, adding, unsaved>>,
         call[t].at \notin {"read", "write"}, r.at \notin {"read", "write"},
         r.at \in {"connect", "update"} => stored[r.c] # C!NoContact,
         r.at = "connect" => r.rec # C!NoContact,
         r.at = "update" => r.info.connected
  PROVE  ContactInv'
<1>1. ContactTypes'
  BY DEF ContactInv, ContactTypes
<1>2. \A u \in Caller : CallSound(u)'
  <2> TAKE u \in Caller
  <2>1. CASE u = t
    <3>1. call'[t] = r
      BY DEF ContactInv, ContactTypes
    <3>2. contactMu # t
      BY DEF ContactInv, CallSound
    <3> QED BY <2>1, <3>1, <3>2 DEF CallSound
  <2>2. CASE u # t
    <3>1. call'[u] = call[u]
      BY <2>2 DEF ContactInv, ContactTypes
    <3> QED BY <3>1 DEF ContactInv, CallSound
  <2> QED BY <2>1, <2>2
<1>3. contactMu # t
  BY DEF ContactInv, CallSound
<1>4. \A c \in Contact : Agrees(c)'
  <2> TAKE c \in Contact
  <2>1. contactMu # "free" => call'[contactMu] = call[contactMu]
    BY <1>3 DEF ContactInv, ContactTypes
  <2> QED BY <2>1 DEF ContactInv, Agrees
<1> QED BY <1>1, <1>2, <1>4 DEF ContactInv

LEMMA CallFields ==
  ASSUME ContactInv, NEW t \in Caller, call[t].at # "idle"
  PROVE  /\ call[t] \in ContactCall /\ call[t].c \in Contact
         /\ call[t].info \in Finding
         /\ call[t].rec \in ContactRecord \cup {C!NoContact}
         /\ stored[call[t].c] \in ContactRecord \cup {C!NoContact}
<1>1. call[t] \in ContactCall
  BY DEF ContactInv, ContactTypes, C!Idle
<1> QED BY <1>1 DEF ContactInv, ContactTypes, ContactCall

LEMMA ContactBegin ==
  ASSUME ContactInv, NEW t \in Caller, NEW c \in Contact,
         NEW op \in {"FindAndConnectToContact", "IsContactOnline"}, C!Begin(t, op, c)
  PROVE  ContactInv'
<1>1. CASE cache[c].connected
  BY <1>1 DEF C!Begin, ContactInv, ContactTypes, CallSound, Agrees
<1>2. CASE ~cache[c].connected
  <2> DEFINE r == [op |-> op, at |-> "lookup", c |-> c, info |-> cache[c], rec |-> C!NoContact]
  <2>1. r \in ContactCall
    BY DEF ContactCall, ContactInv, ContactTypes
  <2>2. call' = [call EXCEPT ![t] = r]
    BY <1>2 DEF C!Begin, C!Go
  <2>3. call[t].at = "idle" /\ UNCHANGED <<stored, cache, contactMu, adding, unsaved>>
    BY DEF C!Begin, C!Idle
  <2>4. r.at = "lookup"
    OBVIOUS
  <2> HIDE DEF r
  <2> QED BY <2>1, <2>2, <2>3, <2>4, ContactAside
<1> QED BY <1>1, <1>2

LEMMA ContactGet ==
  ASSUME ContactInv, NEW t \in Caller, C!GetContact(t)
  PROVE  ContactInv'
<1> DEFINE rec == stored[call[t].c]
           found == [call[t] EXCEPT !.at = "connect", !.rec = rec]
<1>1. call[t] \in ContactCall /\ rec \in ContactRecord \cup {C!NoContact} /\ call[t].at = "lookup"
  BY CallFields DEF C!GetContact
<1>2. UNCHANGED <<stored, cache, contactMu, adding, unsaved>>
  BY DEF C!GetContact
<1>3. CASE call' = [call EXCEPT ![t] = C!Idle]
  <2>1. C!Idle.at = "idle"
    BY DEF C!Idle
  <2>2. C!Idle \in ContactCall \cup {C!Idle}
    OBVIOUS
  <2> QED BY <1>1, <1>2, <1>3, <2>1, <2>2, ContactAside
<1>4. CASE rec # C!NoContact /\ call' = [call EXCEPT ![t] = found]
  <2>1. found \in ContactCall /\ found.at = "connect" /\ found.rec = rec /\ found.c = call[t].c
    BY <1>1 DEF ContactCall
  <2> HIDE DEF found
  <2> QED BY <1>1, <1>2, <1>4, <2>1, ContactAside
<1> QED BY <1>3, <1>4 DEF C!GetContact, C!Return, C!Go

LEMMA ContactConnect ==
  ASSUME ContactInv, NEW t \in Caller, C!Connect(t)
  PROVE  ContactInv'
<1>1. call[t] \in ContactCall /\ call[t].at = "connect" /\ call[t].info \in Finding
      /\ call[t].rec \in ContactRecord /\ stored[call[t].c] # C!NoContact
  BY CallFields DEF C!Connect, ContactInv, CallSound
<1>2. UNCHANGED <<stored, cache, contactMu, adding, unsaved>>
  BY DEF C!Connect
<1>3. CASE call' = [call EXCEPT ![t] = C!Idle]
  <2>1. C!Idle.at = "idle"
    BY DEF C!Idle
  <2>2. C!Idle \in ContactCall \cup {C!Idle}
    OBVIOUS
  <2> QED BY <1>1, <1>2, <1>3, <2>1, <2>2, ContactAside
<1>4. CASE \E f \in C!IsContactOnline(call[t].rec)
                 \cup C!FindAndConnectToContact(call[t].info, call[t].rec) :
             call' = [call EXCEPT ![t] = [call[t] EXCEPT !.at = "update", !.info = f]]
  <2>1. PICK f \in C!IsContactOnline(call[t].rec)
                 \cup C!FindAndConnectToContact(call[t].info, call[t].rec) :
             call' = [call EXCEPT ![t] = [call[t] EXCEPT !.at = "update", !.info = f]]
    BY <1>4
  <2>2. \A p, a \in Nat : C!Found(p, a) \in Finding /\ C!Found(p, a).connected
    BY DEF C!Found, Finding
  <2>3. /\ call[t].info.peer \in Nat /\ call[t].info.addrs \in Nat
        /\ call[t].rec.peer \in Nat /\ call[t].rec.addrs \in Nat /\ Addr \subseteq Nat
    BY <1>1, ContactAssumption DEF ContactRecord, Finding
  <2>4. f \in Finding /\ f.connected
    BY <2>1, <2>2, <2>3 DEF C!IsContactOnline, C!FindAndConnectToContact, C!FindPeer
  <2> DEFINE r == [call[t] EXCEPT !.at = "update", !.info = f]
  <2>5. r \in ContactCall /\ r.at = "update" /\ r.info = f /\ r.c = call[t].c
    BY <1>1, <2>4 DEF ContactCall
  <2>6. call' = [call EXCEPT ![t] = r]
    BY <2>1
  <2> HIDE DEF r
  <2> QED BY <1>1, <1>2, <2>4, <2>5, <2>6, ContactAside
<1> QED BY <1>3, <1>4 DEF C!Connect, C!Return, C!Go

LEMMA ContactUpdate ==
  ASSUME ContactInv, NEW t \in Caller, C!updateContactPeer(t)
  PROVE  ContactInv'
<1> DEFINE c == call[t].c
           r == [call[t] EXCEPT !.at = "read"]
<1>1. call[t] \in ContactCall /\ call[t].at = "update" /\ call[t].info \in Finding /\ c \in Contact
      /\ stored[c] # C!NoContact /\ call[t].info.connected
  BY CallFields DEF C!updateContactPeer, ContactInv, CallSound
<1>2. r \in ContactCall /\ r.at = "read" /\ r.c = c /\ r.info = call[t].info
  BY <1>1 DEF ContactCall
<1>3. /\ call' = [call EXCEPT ![t] = r] /\ cache' = [cache EXCEPT ![c] = call[t].info]
      /\ contactMu = "free" /\ contactMu' = t /\ UNCHANGED <<stored, adding, unsaved>>
  BY DEF C!updateContactPeer, C!Go, C!Free
<1>4. call'[t] = r /\ (\A u \in Caller \ {t} : call'[u] = call[u])
      /\ cache'[c] = call[t].info /\ (\A d \in Contact \ {c} : cache'[d] = cache[d])
  BY <1>1, <1>2, <1>3 DEF ContactInv, ContactTypes
<1> HIDE DEF r
<1>5. ContactTypes'
  BY <1>1, <1>2, <1>3 DEF ContactInv, ContactTypes
<1>6. \A u \in Caller : CallSound(u)'
  <2> TAKE u \in Caller
  <2>1. CASE u = t
    BY <1>1, <1>2, <1>3, <1>4, <2>1 DEF CallSound
  <2>2. CASE u # t
    <3>1. call[u].at \notin {"read", "write"}
      BY <1>3, ContactAssumption DEF ContactInv, CallSound
    <3>2. contactMu' # u /\ call'[u] = call[u]
      BY <1>3, <1>4, <2>2
    <3> QED BY <1>3, <3>1, <3>2 DEF CallSound, ContactInv
  <2> QED BY <2>1, <2>2
<1>7. \A d \in Contact : Agrees(d)'
  <2> TAKE d \in Contact
  <2>1. t # "free"
    BY ContactAssumption
  <2> QED BY <1>1, <1>2, <1>3, <1>4, <2>1 DEF ContactInv, Agrees
<1> QED BY <1>3, <1>5, <1>6, <1>7 DEF ContactInv

\* The holder of contactMu leaves its critical section: it has stored what the
\* cache has, or found it stored, or noted that it could not.
LEMMA ContactLeaves ==
  ASSUME ContactInv, NEW t \in Caller, call[t].at \in {"read", "write"},
         call' = [call EXCEPT ![t] = C!Idle], contactMu' = "free", UNCHANGED <<cache, adding>>,
         NEW r \in ContactRecord,
         stored' = [stored EXCEPT ![call[t].c] = r],
         \/ C!Merged(r, call[t].info) = r /\ unsaved' = unsaved \ {call[t].c}
         \/ unsaved' = unsaved \cup {call[t].c}
  PROVE  ContactInv'
<1> DEFINE c == call[t].c
<1>1. c \in Contact /\ contactMu = t /\ cache[c] = call[t].info /\ r # C!NoContact
      /\ stored[c] # C!NoContact
  <2>1. r.peer \in Nat
    BY DEF ContactRecord
  <2>2. r # C!NoContact
    <3>1. C!NoContact.peer = -1
      BY DEF C!NoContact
    <3> QED BY <2>1, <3>1
  <2> QED BY <2>2, CallFields DEF ContactInv, CallSound
<1>2. call'[t] = C!Idle /\ (\A u \in Caller \ {t} : call'[u] = call[u])
      /\ stored'[c] = r /\ (\A d \in Contact \ {c} : stored'[d] = stored[d])
  BY <1>1 DEF ContactInv, ContactTypes
<1>3. ContactTypes'
  BY <1>1 DEF ContactInv, ContactTypes
<1>4. \A u \in Caller : CallSound(u)'
  <2> TAKE u \in Caller
  <2>1. CASE u = t
    BY <1>2, <2>1, ContactAssumption DEF CallSound, C!Idle
  <2>2. CASE u # t
    <3>1. call[u].at \notin {"read", "write"} /\ contactMu' # u /\ call'[u] = call[u]
      BY <1>1, <1>2, <2>2, ContactAssumption DEF ContactInv, CallSound
    <3>2. call[u].at \in {"connect", "update"} => call[u].c \in Contact
      BY CallFields
    <3>3. \A d \in Contact : stored[d] # C!NoContact => stored'[d] # C!NoContact
      BY <1>1, <1>2
    <3> QED BY <3>1, <3>2, <3>3 DEF CallSound, ContactInv
  <2> QED BY <2>1, <2>2
<1>5. \A d \in Contact : Agrees(d)'
  <2> TAKE d \in Contact
  <2>1. CASE d = c
    BY <1>1, <1>2, <2>1 DEF Agrees
  <2>2. CASE d # c
    BY <1>1, <1>2, <2>2 DEF ContactInv, Agrees
  <2> QED BY <2>1, <2>2
<1>6. adding' # 0 => stored'[adding'] = C!NoContact
  BY <1>1, <1>2 DEF ContactInv, ContactTypes
<1> QED BY <1>3, <1>4, <1>5, <1>6 DEF ContactInv

LEMMA ContactPersist ==
  ASSUME ContactInv, NEW t \in Caller, C!persistContactPeer(t)
  PROVE  ContactInv'
<1> DEFINE c == call[t].c
           m == C!Merged(stored[c], call[t].info)
           r == [call[t] EXCEPT !.at = "write", !.rec = m]
<1>1. call[t] \in ContactCall /\ call[t].at = "read" /\ call[t].info \in Finding /\ c \in Contact
      /\ stored[c] \in ContactRecord /\ stored[c] # C!NoContact /\ contactMu = t
  BY CallFields DEF C!persistContactPeer, ContactInv, CallSound
<1>2. m \in ContactRecord
  BY <1>1, MergedOnce
<1>0. CASE C!ReadFails(t)
  <2>1. /\ call' = [call EXCEPT ![t] = C!Idle] /\ contactMu' = "free"
        /\ unsaved' = unsaved \cup {c} /\ UNCHANGED <<stored, cache, adding>>
    BY <1>0 DEF C!persistContactPeer, C!ReadFails, C!Return, C!Go, C!Free
  <2>2. stored' = [stored EXCEPT ![c] = stored[c]]
    BY <2>1 DEF ContactInv, ContactTypes
  <2> QED BY <1>1, <2>1, <2>2, ContactLeaves
<1>3. CASE C!ReadContact(t) /\ m = stored[c]
  <2>1. /\ call' = [call EXCEPT ![t] = C!Idle] /\ contactMu' = "free"
        /\ unsaved' = unsaved \ {c} /\ UNCHANGED <<stored, cache, adding>>
    BY <1>3 DEF C!persistContactPeer, C!ReadContact, C!Return, C!Go, C!Free
  <2>2. stored' = [stored EXCEPT ![c] = stored[c]]
    BY <2>1 DEF ContactInv, ContactTypes
  <2> QED BY <1>1, <1>3, <2>1, <2>2, ContactLeaves
<1>4. CASE C!ReadContact(t) /\ m # stored[c]
  <2>1. call' = [call EXCEPT ![t] = r] /\ UNCHANGED <<stored, cache, contactMu, adding, unsaved>>
    BY <1>1, <1>4 DEF C!persistContactPeer, C!ReadContact, C!Go
  <2>2. r \in ContactCall /\ r.at = "write" /\ r.c = c /\ r.info = call[t].info /\ r.rec = m
    BY <1>1, <1>2 DEF ContactCall
  <2>3. call'[t] = r /\ (\A u \in Caller \ {t} : call'[u] = call[u])
    BY <2>1 DEF ContactInv, ContactTypes
  <2> HIDE DEF r, m
  <2>4. ContactTypes'
    BY <2>1, <2>2 DEF ContactInv, ContactTypes
  <2>5. \A u \in Caller : CallSound(u)'
    <3> TAKE u \in Caller
    <3>1. CASE u = t
      BY <1>1, <2>1, <2>2, <2>3, <3>1 DEF CallSound, ContactInv, m
    <3>2. CASE u # t
      BY <2>1, <2>3, <3>2 DEF CallSound, ContactInv
    <3> QED BY <3>1, <3>2
  <2>6. \A d \in Contact : Agrees(d)'
    BY <1>1, <2>1, <2>2, <2>3 DEF ContactInv, Agrees
  <2> QED BY <2>1, <2>4, <2>5, <2>6 DEF ContactInv
<1> QED BY <1>0, <1>3, <1>4 DEF C!persistContactPeer

LEMMA ContactWrite ==
  ASSUME ContactInv, NEW t \in Caller, C!AddContact(t)
  PROVE  ContactInv'
<1> DEFINE c == call[t].c
<1>1. call[t] \in ContactCall /\ call[t].at = "write" /\ call[t].info \in Finding /\ c \in Contact
      /\ stored[c] \in ContactRecord /\ call[t].rec = C!Merged(stored[c], call[t].info)
  BY CallFields DEF C!AddContact, ContactInv, CallSound
<1>2. call[t].rec \in ContactRecord /\ C!Merged(call[t].rec, call[t].info) = call[t].rec
  BY <1>1, MergedOnce
<1>3. call' = [call EXCEPT ![t] = C!Idle] /\ contactMu' = "free" /\ UNCHANGED <<cache, adding>>
  BY DEF C!AddContact, C!Return, C!Go, C!Free
<1>4. CASE stored' = [stored EXCEPT ![c] = call[t].rec] /\ unsaved' = unsaved \ {c}
  BY <1>1, <1>2, <1>3, <1>4, ContactLeaves
<1>5. CASE UNCHANGED stored /\ unsaved' = unsaved \cup {c}
  <2>1. stored' = [stored EXCEPT ![c] = stored[c]]
    BY <1>5 DEF ContactInv, ContactTypes
  <2> QED BY <1>1, <1>3, <1>5, <2>1, ContactLeaves
<1> QED BY <1>4, <1>5 DEF C!AddContact

LEMMA ContactAddStore ==
  ASSUME ContactInv, NEW n \in Name, C!handleAddStore(n)
  PROVE  ContactInv'
<1> DEFINE r == [name |-> n, peer |-> 0, addrs |-> 0]
<1>1. adding \in Contact /\ stored[adding] = C!NoContact /\ adding' = 0
      /\ stored' = [stored EXCEPT ![adding] = r] /\ UNCHANGED <<cache, contactMu, call, unsaved>>
  BY DEF C!handleAddStore, C!NoOne, ContactInv, ContactTypes
<1>2. r \in ContactRecord /\ r # C!NoContact
  <2>1. r \in ContactRecord
    BY DEF ContactRecord
  <2>2. r.peer = 0 /\ C!NoContact.peer = -1 /\ 0 # -1
    BY DEF C!NoContact
  <2> HIDE DEF r
  <2> QED BY <2>1, <2>2
<1> HIDE DEF r
<1>3. ContactTypes'
  BY <1>1, <1>2 DEF ContactInv, ContactTypes
<1>4. \A d \in Contact : stored'[d] # C!NoContact \/ stored'[d] = stored[d]
  BY <1>1, <1>2 DEF ContactInv, ContactTypes
<1>5. \A d \in Contact : stored[d] # C!NoContact => stored'[d] = stored[d]
  BY <1>1, <1>2 DEF ContactInv, ContactTypes
<1>6. \A u \in Caller : CallSound(u)'
  <2> TAKE u \in Caller
  <2>1. call[u].at # "idle" => call[u].c \in Contact
    BY CallFields
  <2> QED BY <1>1, <1>5, <2>1 DEF CallSound, ContactInv
<1>7. \A d \in Contact : Agrees(d)'
  BY <1>1, <1>5 DEF Agrees, ContactInv
<1> QED BY <1>1, <1>3, <1>6, <1>7 DEF ContactInv

LEMMA ContactStep == ContactInv /\ [C!Next]_C!vars => ContactInv'
<1> SUFFICES ASSUME ContactInv, [C!Next]_C!vars PROVE ContactInv'
  OBVIOUS
<1>1. CASE UNCHANGED C!vars
  BY <1>1 DEF C!vars, ContactInv, ContactTypes, CallSound, Agrees
<1>2. ASSUME NEW c \in Contact, C!handleAdd(c) PROVE ContactInv'
  BY <1>2 DEF C!handleAdd, C!Exists, ContactInv, ContactTypes, CallSound, Agrees
<1> QED
  BY <1>1, <1>2, ContactBegin, ContactGet, ContactConnect, ContactUpdate, ContactPersist,
     ContactWrite, ContactAddStore DEF C!Next, C!Step

\* For any goroutines, contacts, peers and addresses: when nobody is updating a
\* contact storage has what the cache has, unless the last write failed, however
\* the calls and /add interleave (updateContactPeer, persistContactPeer).
THEOREM CacheStored == C!Spec => []CacheMatchesStore
<1>1. ContactInv => CacheMatchesStore
  BY DEF ContactInv, Agrees, CacheMatchesStore, C!CacheMatchesStore, C!Free
<1> QED BY <1>1, ContactInit, ContactStep, PTL DEF C!Spec

-----------------------------------------------------------------------------
(* Tracking contacts.                                                      *)

TrackRecord == [peer : Int, addrs : Addr \cup {0}]
Presence ==
  [c : Contact, peer : Int, addrs : Addr \cup {0}, isOnline : BOOLEAN, connectedByUs : BOOLEAN]
RefreshState ==
  [at : {"rest", "next", "mark", "read", "write"}, todo : SUBSET Nat, obj : Nat,
   addrs : Addr \cup {0}, peer : Int, rec : TrackRecord]
SetterState ==
  [at : {"read", "write"}, c : Contact, peer : Int, addrs : Addr, rec : TrackRecord]

TrackTypes ==
  /\ records \in [Contact -> TrackRecord]
  /\ infos \in Seq(Presence)
  /\ contactPeers \in [Contact -> Nat]
  /\ refresh \in RefreshState
  /\ setter \in SetterState \cup {T!NoSetter}

\* Objects that are referred to exist, and the object of a contact names it.
Objects ==
  /\ \A c \in Contact : contactPeers[c] # 0 =>
       contactPeers[c] \in 1 .. Len(infos) /\ infos[contactPeers[c]].c = c
  /\ refresh.todo \subseteq 1 .. Len(infos)
  /\ refresh.at \in {"mark", "read", "write"} => refresh.obj \in 1 .. Len(infos)

\* Addresses a may be stored with peer p for contact c.
Fits(a, p, c) == a = 0 \/ Home[a] = p \/ c \in strayed

\* What the refresh and SetContactOnline have in hand fits, too.
InHand ==
  /\ refresh.at \in {"mark", "read"} =>
       Fits(refresh.addrs, infos[refresh.obj].peer, infos[refresh.obj].c)
  /\ refresh.at = "write" => Fits(refresh.addrs, refresh.peer, infos[refresh.obj].c)
  /\ setter.at # "none" => Home[setter.addrs] = setter.peer

TrackInv ==
  /\ TrackTypes /\ Objects /\ InHand
  /\ \A c \in Contact : Fits(records[c].addrs, records[c].peer, c)

LEMMA TrackInit == T!Init => TrackInv
<1> SUFFICES ASSUME T!Init PROVE TrackInv
  OBVIOUS
<1>0. Peer \subseteq Int
  BY ContactAssumption
<1>1. T!NoContact \in TrackRecord /\ (\A p \in Peer : [peer |-> p, addrs |-> 0] \in TrackRecord)
  BY <1>0 DEF T!NoContact, TrackRecord
<1>2. records \in [Contact -> TrackRecord]
  BY <1>1 DEF T!Init
<1>3. \A c \in Contact : records[c].addrs = 0
  BY DEF T!Init, T!NoContact
<1>4. refresh \in RefreshState /\ refresh.at = "rest" /\ refresh.todo = {}
  BY <1>1 DEF T!Init, T!Resting, RefreshState
<1>5. setter = T!NoSetter /\ setter.at = "none"
  BY DEF T!Init, T!NoSetter
<1>6. infos \in Seq(Presence) /\ contactPeers \in [Contact -> Nat]
      /\ \A c \in Contact : contactPeers[c] = 0
  BY EmptySeq DEF T!Init
<1> QED BY <1>2, <1>3, <1>4, <1>5, <1>6 DEF TrackInv, TrackTypes, Objects, InHand, Fits

\* The object of a contact changes in place: it keeps its contact, and if a
\* refresh is between the lookup and the reading of its peer, its peer too or
\* the contact has strayed.
LEMMA TrackInPlace ==
  ASSUME TrackInv, NEW o \in 1 .. Len(infos), NEW r \in Presence,
         infos' = [infos EXCEPT ![o] = r], r.c = infos[o].c,
         strayed \subseteq strayed',
         refresh.at \in {"mark", "read"} /\ refresh.obj = o =>
           r.peer = infos[o].peer \/ r.c \in strayed',
         UNCHANGED <<records, contactPeers, refresh>>,
         setter' \in SetterState \cup {T!NoSetter},
         setter'.at # "none" => Home[setter'.addrs] = setter'.peer
  PROVE  TrackInv'
<1>1. infos' \in Seq(Presence) /\ Len(infos') = Len(infos) /\ infos'[o] = r
      /\ \A i \in 1 .. Len(infos) : i # o => infos'[i] = infos[i]
  BY DEF TrackInv, TrackTypes
<1>2. TrackTypes'
  BY <1>1 DEF TrackInv, TrackTypes
<1>3. \A i \in 1 .. Len(infos) : infos'[i].c = infos[i].c
  BY <1>1
<1>4. Objects'
  BY <1>1, <1>3 DEF TrackInv, Objects
<1>5. InHand'
  <2>1. refresh.at \in {"mark", "read"} =>
          Fits(refresh.addrs, infos[refresh.obj].peer, infos[refresh.obj].c)'
    <3>1. CASE refresh.obj = o
      BY <1>1, <3>1 DEF TrackInv, InHand, Fits
    <3>2. CASE refresh.obj # o
      BY <1>1, <3>2 DEF TrackInv, InHand, Fits, Objects
    <3> QED BY <3>1, <3>2
  <2>2. refresh.at = "write" => Fits(refresh.addrs, refresh.peer, infos[refresh.obj].c)'
    BY <1>3 DEF TrackInv, InHand, Fits, Objects
  <2> QED BY <2>1, <2>2 DEF InHand
<1>6. \A c \in Contact : Fits(records[c].addrs, records[c].peer, c)'
  BY DEF TrackInv, Fits
<1> QED BY <1>2, <1>4, <1>5, <1>6 DEF TrackInv

\* New objects come after the old ones.
LEMMA TrackGrows ==
  ASSUME TrackInv, NEW s \in Seq(Presence), infos' = infos \o s,
         contactPeers' \in [Contact -> Nat],
         \A c \in Contact : contactPeers'[c] # 0 =>
           contactPeers'[c] \in 1 .. Len(infos') /\ infos'[contactPeers'[c]].c = c,
         strayed \subseteq strayed',
         UNCHANGED <<records, refresh>>,
         setter' \in SetterState \cup {T!NoSetter},
         setter'.at # "none" => Home[setter'.addrs] = setter'.peer
  PROVE  TrackInv'
<1>1. infos' \in Seq(Presence) /\ Len(infos') >= Len(infos) /\ Len(infos') \in Nat
      /\ \A i \in 1 .. Len(infos) : infos'[i] = infos[i]
  BY DEF TrackInv, TrackTypes
<1>2. TrackTypes'
  BY <1>1 DEF TrackInv, TrackTypes
<1>3. 1 .. Len(infos) \subseteq 1 .. Len(infos')
  BY <1>1 DEF TrackInv, TrackTypes
<1>4. Objects'
  BY <1>3 DEF TrackInv, Objects
<1>5. InHand'
  BY <1>1 DEF TrackInv, InHand, Fits, Objects
<1>6. \A c \in Contact : Fits(records[c].addrs, records[c].peer, c)'
  BY DEF TrackInv, Fits
<1> QED BY <1>2, <1>4, <1>5, <1>6 DEF TrackInv

LEMMA TrackReplace ==
  ASSUME TrackInv, NEW c \in Contact, NEW r \in Presence, r.c = c, T!Replace(c, r),
         strayed \subseteq strayed', UNCHANGED <<records, refresh>>,
         setter' \in SetterState \cup {T!NoSetter},
         setter'.at # "none" => Home[setter'.addrs] = setter'.peer
  PROVE  TrackInv'
<1> DEFINE n == Len(infos) + 1
<1>1. <<r>> \in Seq(Presence) /\ infos' = infos \o <<r>> /\ n \in Nat /\ Len(infos') = n
      /\ infos'[n] = r /\ \A i \in 1 .. Len(infos) : infos'[i] = infos[i]
  BY DEF TrackInv, TrackTypes, T!Replace
<1>2. contactPeers' = [contactPeers EXCEPT ![c] = n]
  BY DEF T!Replace
<1>3. contactPeers' \in [Contact -> Nat] /\ contactPeers'[c] = n
      /\ \A d \in Contact : d # c => contactPeers'[d] = contactPeers[d]
  BY <1>1, <1>2 DEF TrackInv, TrackTypes
<1> HIDE DEF n
<1>4. Len(infos) \in Nat /\ n = Len(infos) + 1
  BY DEF TrackInv, TrackTypes, n
<1>5. \A d \in Contact : contactPeers'[d] # 0 =>
           contactPeers'[d] \in 1 .. Len(infos') /\ infos'[contactPeers'[d]].c = d
  BY <1>1, <1>3, <1>4 DEF TrackInv, Objects
<1> QED BY <1>1, <1>3, <1>5, TrackGrows

LEMMA InfoPresence ==
  ASSUME NEW c \in Contact, NEW p \in Int, NEW a \in Addr \cup {0}
  PROVE  T!Info(c, p, a) \in Presence /\ T!Info(c, p, a).c = c /\ T!Info(c, p, a).peer = p
         /\ [T!Info(c, p, a) EXCEPT !.isOnline = TRUE] \in Presence
         /\ [T!Info(c, p, a) EXCEPT !.isOnline = TRUE].c = c
         /\ [T!Info(c, p, a) EXCEPT !.isOnline = TRUE].peer = p
BY DEF T!Info, Presence

\* The objects of a finite set of contacts can be numbered.
LEMMA Numbering ==
  ASSUME NEW X, IsFiniteSet(X)
  PROVE  /\ Cardinality(X) \in Nat
         /\ \E f \in [X -> 1 .. Cardinality(X)] : \A c, d \in X : c # d => f[c] # f[d]
         /\ \A f \in [X -> 1 .. Cardinality(X)] :
              (\A c, d \in X : c # d => f[c] # f[d]) =>
                \A i \in 1 .. Cardinality(X) : \E c \in X : f[c] = i
<1> DEFINE n == Cardinality(X)
<1>1. n \in Nat
  BY FS_CardinalityType
<1>2. IsFiniteSet(1 .. n) /\ Cardinality(1 .. n) = n
  BY <1>1, FS_Interval
<1>3. ExistsBijection(X, 1 .. n)
  BY <1>2, FS_SameCardinalityBij
<1>4. \E f \in [X -> 1 .. n] : \A c, d \in X : c # d => f[c] # f[d]
  BY <1>3 DEF ExistsBijection, Bijection, Injection, Surjection, IsInjective
<1>5. ASSUME NEW f \in [X -> 1 .. n], \A c, d \in X : c # d => f[c] # f[d]
      PROVE  \A i \in 1 .. n : \E c \in X : f[c] = i
  <2>1. f \in Injection(X, 1 .. n)
    BY <1>5 DEF Injection, IsInjective
  <2>2. f \in Surjection(X, 1 .. n)
    BY <1>2, <2>1, FS_Injection
  <2> QED BY <2>2 DEF Surjection
<1> QED BY <1>1, <1>4, <1>5

\* The second of two sequences follows the first.
LEMMA Follows ==
  ASSUME NEW D, NEW a \in Seq(D), NEW b \in Seq(D)
  PROVE  /\ Len(a \o b) = Len(a) + Len(b)
         /\ \A i \in 1 .. Len(b) : (a \o b)[Len(a) + i] = b[i]
OBVIOUS

LEMMA TrackLoad ==
  ASSUME TrackInv, T!LoadContacts
  PROVE  TrackInv'
<1> DEFINE X == {c \in Contact : records[c] # T!NoContact}
           n == T!Cardinality(X)
<1>0. n = Cardinality(X)
  BY DEF T!Cardinality, Cardinality
<1>1. IsFiniteSet(X)
  BY TrackerAssumption, FS_Subset
<1> DEFINE Num(f) == f \in [X -> 1 .. n] /\ \A c, d \in X : c # d => f[c] # f[d]
           num == CHOOSE f \in [X -> 1 .. n] : \A c, d \in X : c # d => f[c] # f[d]
<1>2. n \in Nat /\ Num(num) /\ \A i \in 1 .. n : \E c \in X : num[c] = i
  <2>1. n \in Nat /\ \E f : Num(f)
    BY <1>0, <1>1, Numbering
  <2>2. Num(num)
    BY <2>1
  <2> HIDE DEF num, n
  <2>3. \A i \in 1 .. Cardinality(X) : \E c \in X : num[c] = i
    BY <1>0, <1>1, <2>2, Numbering
  <2> QED BY <1>0, <2>1, <2>2, <2>3
<1> DEFINE s == [i \in 1 .. n |-> LET c == CHOOSE d \in X : num[d] = i
                                IN  T!Info(c, records[c].peer, records[c].addrs)]
<1>3. /\ infos' = infos \o s
      /\ contactPeers' = [c \in Contact |-> IF c \in X THEN Len(infos) + num[c] ELSE 0]
  BY DEF T!LoadContacts
<1>4. UNCHANGED <<records, refresh, setter, strayed>>
  BY DEF T!LoadContacts
<1> HIDE DEF num
<1>5. ASSUME NEW i \in 1 .. n PROVE s[i] \in Presence /\ \A c \in X : num[c] = i => s[i].c = c
  <2> DEFINE c == CHOOSE d \in X : num[d] = i
  <2>1. c \in X /\ num[c] = i
    BY <1>2
  <2>2. \A d \in X : num[d] = i => d = c
    BY <1>2, <2>1
  <2>3. s[i] = T!Info(c, records[c].peer, records[c].addrs)
    OBVIOUS
  <2> HIDE DEF c, s
  <2>4. records[c].peer \in Int /\ records[c].addrs \in Addr \cup {0} /\ c \in Contact
    BY <2>1 DEF TrackInv, TrackTypes, TrackRecord
  <2>5. \A p \in Int, a \in Addr \cup {0} :
          T!Info(c, p, a) \in Presence /\ T!Info(c, p, a).c = c
    BY <2>4, InfoPresence, ZenonT(40)
  <2>6. PICK p, a : p = records[c].peer /\ a = records[c].addrs
    OBVIOUS
  <2>7. s[i] \in Presence /\ s[i].c = c
    BY <2>3, <2>4, <2>5, <2>6
  <2> QED BY <2>2, <2>7
<1>6. DOMAIN s = 1 .. n
  OBVIOUS
<1> HIDE DEF s
<1>7. s \in Seq(Presence) /\ Len(s) = n
  <2>1. s \in [1 .. n -> Presence]
    <3>1. s = [i \in 1 .. n |-> s[i]]
      BY DEF s
    <3> HIDE DEF n
    <3> QED BY <1>5, <3>1
  <2> HIDE DEF n
  <2> QED BY <1>2, <2>1
<1>8. Len(infos) \in Nat /\ Len(infos') = Len(infos) + n
      /\ \A i \in 1 .. n : infos'[Len(infos) + i] = s[i]
  <2>1. infos \in Seq(Presence)
    BY DEF TrackInv, TrackTypes
  <2>2. Len(infos) \in Nat
    BY <2>1
  <2>3. /\ Len(infos \o s) = Len(infos) + Len(s)
        /\ \A i \in 1 .. Len(s) : (infos \o s)[Len(infos) + i] = s[i]
    BY <1>7, <2>1, Follows, Zenon
  <2> HIDE DEF n
  <2> QED BY <1>3, <1>7, <2>2, <2>3, Zenon
<1>9. \A c \in X : num[c] \in 1 .. n
  BY <1>2
<1> HIDE DEF n, X
<1>10. contactPeers' \in [Contact -> Nat]
  BY <1>2, <1>3, <1>8, <1>9
<1>11. ASSUME NEW c \in Contact, contactPeers'[c] # 0
       PROVE contactPeers'[c] \in 1 .. Len(infos') /\ infos'[contactPeers'[c]].c = c
  <2>1. c \in X /\ contactPeers'[c] = Len(infos) + num[c]
    BY <1>3, <1>11
  <2> QED BY <1>2, <1>5, <1>8, <1>9, <2>1
<1>12. setter \in SetterState \cup {T!NoSetter} /\ (setter.at # "none" => Home[setter.addrs] = setter.peer)
  BY DEF TrackInv, TrackTypes, InHand
<1> QED BY <1>3, <1>4, <1>7, <1>10, <1>11, <1>12, TrackGrows

LEMMA TrackSetOnline ==
  ASSUME TrackInv, NEW c \in Contact, NEW a \in Addr, T!SetContactOnline(c, a)
  PROVE  TrackInv'
<1> DEFINE info == [T!Info(c, Home[a], a) EXCEPT !.isOnline = TRUE]
           o == contactPeers[c]
<1>1. Home[a] \in Peer /\ Home[a] \in Int /\ a \in Addr \cup {0}
  <2>1. Home[a] \in Peer
    BY TrackerAssumption
  <2>2. Peer \subseteq Int
    BY ContactAssumption
  <2> QED BY <2>1, <2>2
<1>2. info \in Presence /\ info.c = c /\ info.peer = Home[a]
  BY <1>1, InfoPresence
<1>3. setter' = [at |-> "read", c |-> c, peer |-> Home[a], addrs |-> a, rec |-> T!NoContact]
      /\ UNCHANGED <<records, online, refresh>>
  BY DEF T!SetContactOnline
<1>4. setter' \in SetterState /\ Home[setter'.addrs] = setter'.peer
  <2>1. T!NoContact \in TrackRecord
    BY DEF T!NoContact, TrackRecord
  <2> QED BY <1>1, <1>3, <2>1 DEF SetterState
<1>5. strayed \subseteq strayed'
  BY DEF T!SetContactOnline
<1>6. CASE o # 0
  <2> DEFINE r == [info EXCEPT !.connectedByUs = T!InfoOf(c).connectedByUs]
  <2>1. infos' = [infos EXCEPT ![o] = r] /\ UNCHANGED contactPeers
    BY <1>6 DEF T!SetContactOnline, T!Tracked
  <2>2. o \in 1 .. Len(infos) /\ infos[o].c = c /\ infos[o] \in Presence
    BY <1>6 DEF TrackInv, Objects, TrackTypes
  <2>3. r \in Presence /\ r.c = c /\ r.peer = Home[a]
    <3>1. T!InfoOf(c).connectedByUs \in BOOLEAN
      BY <2>2 DEF T!InfoOf, Presence
    <3> HIDE DEF info
    <3> QED BY <1>2, <3>1 DEF Presence
  <2>4. refresh.at \in {"mark", "read"} /\ refresh.obj = o => infos[o].peer = Home[a] \/ c \in strayed'
    BY DEF T!SetContactOnline, T!InfoOf
  <2> HIDE DEF r
  <2> QED BY <1>3, <1>4, <1>5, <2>1, <2>2, <2>3, <2>4, TrackInPlace
<1>7. CASE o = 0
  <2>1. T!Replace(c, info)
    BY <1>7 DEF T!SetContactOnline, T!Tracked
  <2> HIDE DEF info
  <2> QED BY <1>2, <1>3, <1>4, <1>5, <2>1, TrackReplace
<1> QED BY <1>6, <1>7

\* SetContactOffline and SetConnected.
LEMMA TrackFlag ==
  ASSUME TrackInv, NEW c \in Contact, NEW b \in BOOLEAN,
         T!SetContactOffline(c) \/ T!SetConnected(c, b)
  PROVE  TrackInv'
<1> DEFINE o == contactPeers[c]
           r == IF T!SetContactOffline(c) THEN [infos[o] EXCEPT !.isOnline = FALSE]
                ELSE [infos[o] EXCEPT !.connectedByUs = b]
<1>1. o \in 1 .. Len(infos) /\ infos[o] \in Presence
  BY DEF T!SetContactOffline, T!SetConnected, T!Tracked, TrackInv, TrackTypes, Objects
<1>2. r \in Presence /\ r.c = infos[o].c /\ r.peer = infos[o].peer
  <2>1. [infos[o] EXCEPT !.isOnline = FALSE] \in Presence
        /\ [infos[o] EXCEPT !.connectedByUs = b] \in Presence
    BY <1>1 DEF Presence
  <2> QED BY <1>1, <2>1 DEF Presence
<1>3. infos' = [infos EXCEPT ![o] = r]
  BY DEF T!SetContactOffline, T!SetConnected
<1>4. UNCHANGED <<records, contactPeers, refresh, setter, strayed>>
  BY DEF T!SetContactOffline, T!SetConnected
<1>5. setter \in SetterState \cup {T!NoSetter} /\ (setter.at # "none" => Home[setter.addrs] = setter.peer)
  BY DEF TrackInv, TrackTypes, InHand
<1> HIDE DEF r
<1> QED BY <1>1, <1>2, <1>3, <1>4, <1>5, TrackInPlace

LEMMA TrackUpdate ==
  ASSUME TrackInv, NEW c \in Contact, NEW p \in Peer, T!UpdateContact(c, p)
  PROVE  TrackInv'
<1>1. p \in Int /\ 0 \in Addr \cup {0}
  BY ContactAssumption
<1>2. T!Info(c, p, 0) \in Presence /\ T!Info(c, p, 0).c = c
  BY <1>1, InfoPresence
<1>3. T!Replace(c, T!Info(c, p, 0)) /\ UNCHANGED <<records, refresh, setter, strayed>>
  BY DEF T!UpdateContact
<1>4. setter \in SetterState \cup {T!NoSetter} /\ (setter.at # "none" => Home[setter.addrs] = setter.peer)
  BY DEF TrackInv, TrackTypes, InHand
<1> QED BY <1>2, <1>3, <1>4, TrackReplace

\* A step that changes records, setter and refresh only.
LEMMA TrackElsewhere ==
  ASSUME TrackInv, UNCHANGED <<infos, contactPeers>>, strayed \subseteq strayed',
         records' \in [Contact -> TrackRecord],
         refresh' \in RefreshState, setter' \in SetterState \cup {T!NoSetter},
         refresh'.todo \subseteq 1 .. Len(infos),
         refresh'.at \in {"mark", "read", "write"} => refresh'.obj \in 1 .. Len(infos),
         InHand',
         \A c \in Contact : Fits(records[c].addrs, records[c].peer, c)'
  PROVE  TrackInv'
BY DEF TrackInv, TrackTypes, Objects

LEMMA TrackSetter ==
  ASSUME TrackInv, T!SetterRead \/ T!SetterWrite
  PROVE  TrackInv'
<1>1. setter.at # "none" /\ UNCHANGED <<infos, contactPeers, refresh, strayed>>
  BY DEF T!SetterRead, T!SetterWrite
<1>2. setter \in SetterState /\ setter.c \in Contact /\ setter.addrs \in Addr /\ setter.peer \in Int
      /\ setter.rec \in TrackRecord
  <2>1. setter \in SetterState
    BY <1>1 DEF TrackInv, TrackTypes, T!NoSetter
  <2> QED BY <2>1 DEF SetterState
<1>3. T!NoSetter.at = "none"
  BY DEF T!NoSetter
<1>4. refresh \in RefreshState /\ refresh.todo \subseteq 1 .. Len(infos)
      /\ (refresh.at \in {"mark", "read", "write"} => refresh.obj \in 1 .. Len(infos))
  BY DEF TrackInv, TrackTypes, Objects
<1>5. CASE T!SetterRead
  <2>1. UNCHANGED records
    BY <1>5 DEF T!SetterRead
  <2>2. \/ setter' = T!NoSetter
        \/ setter' \in SetterState /\ setter'.addrs = setter.addrs /\ setter'.peer = setter.peer
    <3>1. records[setter.c] \in TrackRecord
      BY <1>2 DEF TrackInv, TrackTypes
    <3> QED BY <1>2, <1>5, <3>1 DEF T!SetterRead, SetterState
  <2>3. InHand'
    BY <1>1, <1>3, <2>2 DEF TrackInv, InHand, Fits
  <2> QED BY <1>1, <1>4, <2>1, <2>2, <2>3, TrackElsewhere DEF TrackInv, TrackTypes, Fits
<1>6. CASE T!SetterWrite
  <2> DEFINE new == T!updateContactInStorage(setter.rec, setter.peer, setter.addrs)
  <2>1. records' = [records EXCEPT ![setter.c] = new] /\ setter' = T!NoSetter
    BY <1>6 DEF T!SetterWrite
  <2>2. new \in TrackRecord /\ (new.addrs = 0 \/ Home[new.addrs] = new.peer)
    <3>1. Home[setter.addrs] = setter.peer
      BY <1>1 DEF TrackInv, InHand
    <3>2. CASE setter.rec = T!NoContact
      BY <1>2, <3>2 DEF T!updateContactInStorage, T!NoContact
    <3>3. CASE setter.rec # T!NoContact
      <4>1. new = [peer |-> setter.peer, addrs |-> setter.addrs]
        BY <3>3 DEF T!updateContactInStorage
      <4> HIDE DEF new
      <4> QED BY <1>2, <3>1, <4>1 DEF TrackRecord
    <3> QED BY <3>2, <3>3
  <2> HIDE DEF new
  <2>3. records' \in [Contact -> TrackRecord]
    BY <1>2, <2>1, <2>2 DEF TrackInv, TrackTypes
  <2>4. \A c \in Contact : Fits(records[c].addrs, records[c].peer, c)'
    BY <1>1, <1>2, <2>1, <2>2 DEF TrackInv, TrackTypes, Fits
  <2>5. InHand'
    BY <1>1, <1>3, <2>1 DEF TrackInv, InHand, Fits
  <2> QED BY <1>1, <1>4, <2>1, <2>3, <2>4, <2>5, TrackElsewhere
<1> QED BY <1>5, <1>6

LEMMA TrackRefreshStart ==
  ASSUME TrackInv, T!RefreshOnlineStatus \/ T!RefreshDone
  PROVE  TrackInv'
<1>0. UNCHANGED <<records, infos, contactPeers, setter, strayed>>
  BY DEF T!RefreshOnlineStatus, T!RefreshDone
<1>1. refresh' \in RefreshState /\ refresh'.at \in {"rest", "next"}
      /\ refresh'.todo \subseteq 1 .. Len(infos)
  <2>1. T!Resting \in RefreshState /\ T!Resting.at = "rest" /\ T!Resting.todo = {}
    BY DEF T!Resting, RefreshState, T!NoContact, TrackRecord
  <2>2. CASE T!RefreshDone
    BY <2>1, <2>2 DEF T!RefreshDone
  <2>3. CASE T!RefreshOnlineStatus
    <3> DEFINE new == {contactPeers[c] : c \in {d \in Contact : T!Tracked(d) /\ T!InfoOf(d).peer # 0}}
    <3>1. refresh' = [T!Resting EXCEPT !.at = "next", !.todo = new]
      BY <2>3 DEF T!RefreshOnlineStatus
    <3>2. new \subseteq 1 .. Len(infos) /\ new \subseteq Nat
      BY DEF TrackInv, TrackTypes, Objects, T!Tracked
    <3> HIDE DEF new
    <3> QED BY <2>1, <3>1, <3>2 DEF RefreshState
  <2> QED BY <2>2, <2>3
<1>2. InHand'
  BY <1>0, <1>1 DEF TrackInv, InHand, Fits
<1>3. \A c \in Contact : Fits(records[c].addrs, records[c].peer, c)'
  BY <1>0 DEF TrackInv, Fits
<1> QED BY <1>0, <1>1, <1>2, <1>3, TrackElsewhere DEF TrackInv, TrackTypes

LEMMA TrackFind ==
  ASSUME TrackInv, NEW o, T!RefreshFind(o)
  PROVE  TrackInv'
<1>1. refresh.at = "next" /\ o \in refresh.todo /\ UNCHANGED <<records, infos, contactPeers, setter>>
  BY DEF T!RefreshFind
<1>2. o \in 1 .. Len(infos) /\ o \in Nat
  BY <1>1 DEF TrackInv, TrackTypes, Objects
<1>3. PICK a \in Addr \cup {0} :
        /\ refresh' = [refresh EXCEPT !.at = "mark", !.obj = o, !.addrs = a, !.todo = @ \ {o}]
        /\ strayed' = IF a # 0 /\ Home[a] # infos[o].peer THEN strayed \cup {infos[o].c} ELSE strayed
  BY DEF T!RefreshFind, T!FindPeer
<1>4. refresh' \in RefreshState /\ refresh'.at = "mark" /\ refresh'.obj = o /\ refresh'.addrs = a
      /\ refresh'.todo \subseteq refresh.todo
  BY <1>2, <1>3 DEF TrackInv, TrackTypes, RefreshState
<1>5. strayed \subseteq strayed' /\ Fits(a, infos[o].peer, infos[o].c)'
  BY <1>1, <1>3 DEF Fits
<1>6. InHand'
  BY <1>1, <1>4, <1>5 DEF TrackInv, InHand, Fits
<1>7. \A c \in Contact : Fits(records[c].addrs, records[c].peer, c)'
  BY <1>1, <1>5 DEF TrackInv, Fits
<1> QED BY <1>1, <1>2, <1>4, <1>5, <1>6, <1>7, TrackElsewhere DEF TrackInv, TrackTypes, Objects

LEMMA TrackMark ==
  ASSUME TrackInv, T!RefreshMark
  PROVE  TrackInv'
<1> DEFINE o == refresh.obj
           r == [infos[o] EXCEPT !.isOnline = refresh.addrs # 0,
                                 !.addrs = IF refresh.addrs # 0 THEN refresh.addrs ELSE @]
<1>1. refresh.at = "mark" /\ o \in 1 .. Len(infos) /\ infos[o] \in Presence
      /\ refresh \in RefreshState /\ refresh.addrs \in Addr \cup {0}
      /\ UNCHANGED <<records, contactPeers, setter, strayed>>
  BY DEF T!RefreshMark, TrackInv, TrackTypes, Objects, RefreshState
<1>2. r \in Presence /\ r.c = infos[o].c /\ r.peer = infos[o].peer
  <2>1. (refresh.addrs # 0) \in BOOLEAN
    OBVIOUS
  <2>2. (IF refresh.addrs # 0 THEN refresh.addrs ELSE infos[o].addrs) \in Addr \cup {0}
    BY <1>1 DEF Presence
  <2> QED BY <1>1, <2>1, <2>2 DEF Presence
<1>3. infos' = [infos EXCEPT ![o] = r]
  <2>1. CASE refresh.addrs # 0
    <3>1. infos' = [infos EXCEPT ![o].isOnline = TRUE, ![o].addrs = refresh.addrs]
      BY <2>1 DEF T!RefreshMark
    <3> QED BY <1>1, <2>1, <3>1 DEF TrackInv, TrackTypes, Presence
  <2>2. CASE refresh.addrs = 0
    <3>1. infos' = [infos EXCEPT ![o].isOnline = FALSE]
      BY <2>2 DEF T!RefreshMark
    <3>2. r = [infos[o] EXCEPT !.isOnline = FALSE]
      BY <1>1, <2>2 DEF Presence
    <3> QED BY <3>1, <3>2
  <2> QED BY <2>1, <2>2
<1>4. refresh' \in RefreshState /\ refresh'.at \in {"read", "next"} /\ refresh'.obj = o
      /\ refresh'.addrs = refresh.addrs /\ refresh'.todo = refresh.todo
  BY <1>1 DEF T!RefreshMark, RefreshState
<1> HIDE DEF r
<1>5. infos' \in Seq(Presence) /\ Len(infos') = Len(infos) /\ infos'[o] = r
      /\ \A i \in 1 .. Len(infos) : infos'[i].c = infos[i].c
  BY <1>1, <1>2, <1>3 DEF TrackInv, TrackTypes
<1>6. TrackTypes'
  BY <1>1, <1>4, <1>5 DEF TrackInv, TrackTypes
<1>7. Objects'
  BY <1>1, <1>4, <1>5 DEF TrackInv, Objects
<1>8. InHand'
  BY <1>1, <1>2, <1>4, <1>5 DEF TrackInv, InHand, Fits
<1>9. \A c \in Contact : Fits(records[c].addrs, records[c].peer, c)'
  BY <1>1 DEF TrackInv, Fits
<1> QED BY <1>6, <1>7, <1>8, <1>9 DEF TrackInv

LEMMA TrackRefreshRead ==
  ASSUME TrackInv, T!RefreshRead
  PROVE  TrackInv'
<1> DEFINE o == refresh.obj
<1>1. refresh.at = "read" /\ o \in 1 .. Len(infos) /\ infos[o] \in Presence
      /\ refresh \in RefreshState /\ UNCHANGED <<records, infos, contactPeers, setter, strayed>>
  BY DEF T!RefreshRead, TrackInv, TrackTypes, Objects
<1>2. infos[o].peer \in Int /\ records[infos[o].c] \in TrackRecord
  BY <1>1 DEF TrackInv, TrackTypes, Presence
<1>3. refresh' = [refresh EXCEPT !.at = "write", !.peer = infos[o].peer, !.rec = records[infos[o].c]]
  BY DEF T!RefreshRead
<1>4. refresh' \in RefreshState /\ refresh'.at = "write" /\ refresh'.obj = o
      /\ refresh'.addrs = refresh.addrs /\ refresh'.todo = refresh.todo /\ refresh'.peer = infos[o].peer
  BY <1>1, <1>2, <1>3 DEF RefreshState
<1>5. InHand'
  BY <1>1, <1>4 DEF TrackInv, InHand, Fits
<1>6. \A c \in Contact : Fits(records[c].addrs, records[c].peer, c)'
  BY <1>1 DEF TrackInv, Fits
<1> QED BY <1>1, <1>4, <1>5, <1>6, TrackElsewhere DEF TrackInv, TrackTypes, Objects

LEMMA TrackRefreshWrite ==
  ASSUME TrackInv, T!RefreshWrite
  PROVE  TrackInv'
<1> DEFINE c == infos[refresh.obj].c
           new == [peer |-> refresh.peer, addrs |-> refresh.addrs]
<1>1. refresh.at = "write" /\ refresh \in RefreshState /\ refresh.obj \in 1 .. Len(infos)
      /\ UNCHANGED <<infos, contactPeers, setter, strayed>>
  BY DEF T!RefreshWrite, TrackInv, TrackTypes, Objects
<1>2. c \in Contact /\ new \in TrackRecord /\ Fits(refresh.addrs, refresh.peer, c)
  <2>1. infos[refresh.obj] \in Presence
    BY <1>1 DEF TrackInv, TrackTypes
  <2>2. refresh.peer \in Int /\ refresh.addrs \in Addr \cup {0}
    BY <1>1 DEF RefreshState
  <2>3. c \in Contact
    BY <2>1 DEF Presence
  <2>4. new \in TrackRecord
    BY <2>2 DEF TrackRecord
  <2> QED BY <1>1, <2>3, <2>4 DEF TrackInv, InHand
<1>3. \/ UNCHANGED records
      \/ records' = [records EXCEPT ![c] = new]
  BY DEF T!RefreshWrite, T!updateContactInStorage
<1>4. refresh' \in RefreshState /\ refresh'.at = "next" /\ refresh'.todo = refresh.todo
  <2>1. T!Resting \in RefreshState
    BY DEF T!Resting, RefreshState, T!NoContact, TrackRecord
  <2> QED BY <1>1, <2>1 DEF T!RefreshWrite, RefreshState
<1>5. new.peer = refresh.peer /\ new.addrs = refresh.addrs
  OBVIOUS
<1> HIDE DEF new
<1>6. records' \in [Contact -> TrackRecord]
  BY <1>2, <1>3 DEF TrackInv, TrackTypes
<1>7. InHand'
  BY <1>1, <1>4 DEF TrackInv, InHand, Fits
<1>8. \A d \in Contact : Fits(records[d].addrs, records[d].peer, d)'
  BY <1>1, <1>2, <1>3, <1>5 DEF TrackInv, TrackTypes, Fits
<1> QED BY <1>1, <1>4, <1>6, <1>7, <1>8, TrackElsewhere DEF TrackInv, TrackTypes, Objects

LEMMA TrackStep == TrackInv /\ [T!Next]_T!vars => TrackInv'
<1> SUFFICES ASSUME TrackInv, [T!Next]_T!vars PROVE TrackInv'
  OBVIOUS
<1>1. CASE UNCHANGED T!vars
  BY <1>1 DEF T!vars, TrackInv, TrackTypes, Objects, InHand, Fits
<1>2. ASSUME NEW p \in Peer, T!PeerComesOrGoes(p) PROVE TrackInv'
  BY <1>2 DEF T!PeerComesOrGoes, TrackInv, TrackTypes, Objects, InHand, Fits
<1>3. ASSUME NEW c \in Contact, T!SetContactOffline(c) PROVE TrackInv'
  BY <1>3, TrackFlag
<1>4. ASSUME NEW c \in Contact, NEW b \in BOOLEAN, T!SetConnected(c, b) PROVE TrackInv'
  BY <1>4, TrackFlag
<1> QED
  BY <1>1, <1>2, <1>3, <1>4, TrackLoad, TrackUpdate, TrackSetOnline, TrackRefreshStart, TrackFind,
     TrackMark, TrackRefreshRead, TrackRefreshWrite, TrackSetter
     DEF T!Next, T!StartPeriodicRefresh, T!Setter

\* For any contacts, peers, addresses and objects: stored addresses are the
\* stored peer's, except where the DHT answered with another peer's addresses
\* or the contact was given another peer under a refresh, although refresh and
\* SetContactOnline write back what they read before (RefreshOnlineStatus,
\* updateContactInStorage).
THEOREM StoredTogether == T!Spec => []AddrsBelongToPeer
<1>1. TrackInv => AddrsBelongToPeer
  BY DEF TrackInv, Fits, AddrsBelongToPeer, T!AddrsBelongToPeer
<1> QED BY <1>1, TrackInit, TrackStep, PTL DEF T!Spec

-----------------------------------------------------------------------------
(* The address book.                                                       *)

\* A book that may be loaded or kept: finite and within the limit.
Bounded(b) == IsFiniteSet(DOMAIN b) /\ Cardinality(DOMAIN b) <= MaxPeers

BookInv ==
  /\ file # A!Torn => file.peers = saved
  /\ Bounded(peers) /\ Bounded(saved)

LEMMA EmptyBook == Bounded(<<>>)
<1>1. DOMAIN <<>> = {}
  OBVIOUS
<1> QED BY <1>1, FS_EmptySet, BookAssumption DEF Bounded

LEMMA BookInit == A!Init => BookInv
BY EmptyBook DEF A!Init, A!Absent, BookInv

\* saveLocked has truncated the file.
LEMMA BookSaving ==
  ASSUME BookInv, A!saveLocked, Bounded(peers')
  PROVE  BookInv'
BY DEF BookInv, A!saveLocked, Bounded, A!Torn

LEMMA SameDomain ==
  ASSUME Bounded(peers), DOMAIN peers' \subseteq DOMAIN peers
  PROVE  Bounded(peers')
<1>1. Cardinality(DOMAIN peers') \in Nat /\ IsFiniteSet(DOMAIN peers')
      /\ Cardinality(DOMAIN peers') <= Cardinality(DOMAIN peers) /\ Cardinality(DOMAIN peers) \in Nat
  BY FS_Subset, FS_CardinalityType DEF Bounded
<1> QED BY <1>1, BookAssumption DEF Bounded

\* The book after AddContact: within its limit, by giving up the oldest.
LEMMA BookAdds ==
  ASSUME Bounded(peers), NEW k, NEW a, A!AddContact(k, a)
  PROVE  /\ Bounded(peers')
         /\ DOMAIN peers' \ DOMAIN peers # {} =>
              \A gone \in DOMAIN peers \ DOMAIN peers' : \A j \in DOMAIN peers' :
                peers[gone].seen <= peers'[j].seen
<1> DEFINE old == k \in DOMAIN peers
           rec == [addrs |-> a, seen |-> clock, connected |-> old /\ peers[k].connected]
           b == [j \in DOMAIN peers \cup {k} |-> IF j = k THEN rec ELSE peers[j]]
           n == A!Cardinality(DOMAIN b)
<1>1. peers' \in IF ~old /\ n > MaxPeers THEN A!removeOldestPeer(b) ELSE {b}
  BY DEF A!AddContact
<1>2. n = Cardinality(DOMAIN b)
  BY DEF A!Cardinality, Cardinality
<1>3. DOMAIN b = DOMAIN peers \cup {k}
  OBVIOUS
<1>4. \A j \in DOMAIN b : j # k => b[j] = peers[j]
  OBVIOUS
<1>5. Cardinality(DOMAIN peers) \in Nat /\ IsFiniteSet(DOMAIN b)
      /\ n = IF old THEN Cardinality(DOMAIN peers) ELSE Cardinality(DOMAIN peers) + 1
  <2>1. /\ IsFiniteSet(DOMAIN peers \cup {k})
        /\ Cardinality(DOMAIN peers \cup {k}) =
             IF k \in DOMAIN peers THEN Cardinality(DOMAIN peers) ELSE Cardinality(DOMAIN peers) + 1
    BY FS_AddElement DEF Bounded
  <2> HIDE DEF b, n
  <2> QED BY <1>2, <1>3, <2>1, FS_CardinalityType DEF Bounded
<1> HIDE DEF b, n
<1>6. CASE ~old /\ n > MaxPeers
  <2>1. PICK o \in DOMAIN b : /\ \A j \in DOMAIN b : b[o].seen <= b[j].seen
                            /\ peers' = [j \in DOMAIN b \ {o} |-> b[j]]
    BY <1>1, <1>6 DEF A!removeOldestPeer
  <2>2. DOMAIN peers' = DOMAIN b \ {o} /\ \A j \in DOMAIN peers' : peers'[j] = b[j]
    BY <2>1
  <2>3. Bounded(peers')
    <3>1. IsFiniteSet(DOMAIN b \ {o}) /\ Cardinality(DOMAIN b \ {o}) = Cardinality(DOMAIN b) - 1
      BY <1>5, <2>1, FS_RemoveElement
    <3> QED BY <1>2, <1>5, <1>6, <2>2, <3>1, BookAssumption DEF Bounded
  <2>4. ASSUME DOMAIN peers' \ DOMAIN peers # {}, NEW gone \in DOMAIN peers \ DOMAIN peers',
               NEW j \in DOMAIN peers'
        PROVE  peers[gone].seen <= peers'[j].seen
    <3>1. gone = o /\ o # k
      BY <1>3, <2>2, <2>4
    <3>2. b[o] = peers[o] /\ j \in DOMAIN b /\ peers'[j] = b[j]
      BY <1>4, <2>1, <2>2, <3>1
    <3> QED BY <2>1, <3>1, <3>2
  <2> QED BY <2>3, <2>4
<1>7. CASE ~(~old /\ n > MaxPeers)
  <2>1. peers' = b
    BY <1>1, <1>7
  <2>2. DOMAIN peers \ DOMAIN peers' = {}
    BY <1>3, <2>1
  <2>3. Bounded(peers')
    <3>1. n <= MaxPeers
      BY <1>5, <1>7, BookAssumption DEF Bounded
    <3> QED BY <1>2, <1>5, <2>1, <3>1 DEF Bounded
  <2> QED BY <2>2, <2>3
<1> QED BY <1>6, <1>7

\* What a step does: the invariant goes on and the two promises are kept.
LEMMA BookStep ==
  ASSUME BookInv, A!Next
  PROVE  BookInv' /\ A!LoadsWhole /\ A!EvictsOldest
<1> DEFINE Quiet == DOMAIN peers' \subseteq DOMAIN peers
           Steady == phase # "down" \/ phase' # "up"
<1>0. A!Cardinality(DOMAIN peers') = Cardinality(DOMAIN peers')
  BY DEF A!Cardinality, Cardinality
<1>1. ASSUME BookInv', Steady, Quiet PROVE BookInv' /\ A!LoadsWhole /\ A!EvictsOldest
  BY <1>0, <1>1 DEF BookInv, Bounded, A!LoadsWhole, A!EvictsOldest
<1>2. ASSUME NEW k, NEW a, A!AddContact(k, a) PROVE BookInv' /\ A!LoadsWhole /\ A!EvictsOldest
  <2>1. A!saveLocked /\ phase = "up"
    BY <1>2 DEF A!AddContact, A!Change
  <2>2. Bounded(peers')
        /\ (DOMAIN peers' \ DOMAIN peers # {} =>
              \A gone \in DOMAIN peers \ DOMAIN peers' : \A j \in DOMAIN peers' :
                peers[gone].seen <= peers'[j].seen)
    BY <1>2, BookAdds DEF BookInv
  <2>3. BookInv'
    BY <2>1, <2>2, BookSaving
  <2> QED BY <1>0, <2>1, <2>2, <2>3 DEF A!LoadsWhole, A!EvictsOldest, Bounded
<1>3. ASSUME NEW k, NEW a, A!UpdateAddresses(k, a) PROVE BookInv' /\ A!LoadsWhole /\ A!EvictsOldest
  <2>1. A!saveLocked /\ phase = "up"
    BY <1>3 DEF A!UpdateAddresses, A!Change
  <2>2. Quiet
    BY <1>3 DEF A!UpdateAddresses
  <2> QED BY <1>1, <2>1, <2>2, SameDomain, BookSaving DEF BookInv
<1>4. ASSUME NEW k, NEW b, A!SetConnected(k, b) PROVE BookInv' /\ A!LoadsWhole /\ A!EvictsOldest
  <2>1. phase = "up" /\ UNCHANGED <<file, saved>>
    BY <1>4 DEF A!SetConnected, A!Change
  <2>2. Quiet
    BY <1>4 DEF A!SetConnected
  <2>3. Bounded(peers')
    BY <2>2, SameDomain DEF BookInv
  <2> QED BY <1>1, <2>1, <2>2, <2>3 DEF BookInv
<1>5. ASSUME NEW k, A!DeleteContact(k) PROVE BookInv' /\ A!LoadsWhole /\ A!EvictsOldest
  <2>1. A!saveLocked /\ phase = "up"
    BY <1>5 DEF A!DeleteContact, A!Change
  <2>2. Quiet
    BY <1>5 DEF A!DeleteContact
  <2> QED BY <1>1, <2>1, <2>2, SameDomain, BookSaving DEF BookInv
<1>6. CASE A!ConnectToAll
  <2>1. phase = "up" /\ (A!saveLocked \/ UNCHANGED <<file, saved>>)
    BY <1>6 DEF A!ConnectToAll, A!Change
  <2>2. Quiet
    BY <1>6 DEF A!ConnectToAll
  <2>3. Bounded(peers')
    BY <2>2, SameDomain DEF BookInv
  <2>4. BookInv'
    BY <2>1, <2>3, BookSaving DEF BookInv
  <2> QED BY <1>1, <2>1, <2>2, <2>4
<1>7. CASE A!NewAddrBook
  <2>1. peers' = saved /\ UNCHANGED <<file, saved>> /\ phase = "down"
    BY <1>7 DEF A!NewAddrBook, BookInv
  <2>2. BookInv'
    BY <2>1 DEF BookInv
  <2> QED BY <1>0, <2>1, <2>2 DEF BookInv, Bounded, A!LoadsWhole, A!EvictsOldest
<1>8. CASE A!Written
  <2>1. BookInv'
    BY <1>8 DEF A!Written, BookInv, A!Whole
  <2> QED BY <1>1, <1>8, <2>1 DEF A!Written
<1>9. CASE A!WriteFails
  BY <1>1, <1>9 DEF A!WriteFails, BookInv
<1>10. CASE A!Crash
  <2>1. DOMAIN peers' = {} /\ phase' # "up" /\ Bounded(peers') /\ UNCHANGED <<file, saved>>
    BY <1>10, EmptyBook DEF A!Crash
  <2>2. BookInv'
    BY <2>1 DEF BookInv
  <2> QED BY <1>1, <2>1, <2>2
<1>11. CASE A!Tick
  BY <1>1, <1>11 DEF A!Tick, BookInv
<1> QED BY <1>2, <1>3, <1>4, <1>5, <1>6, <1>7, <1>8, <1>9, <1>10, <1>11 DEF A!Next

\* For any limit, keys, addresses and times: a start brings back the whole book
\* last saved, whenever the process before ended, and the limit costs the peer
\* seen longest ago and no other (load, saveLocked, removeOldestPeer).
THEOREM BookKeeps == A!Spec => BookKept
<1>1. BookInv /\ [A!Next]_A!vars => BookInv'
  BY BookStep DEF A!vars, BookInv, Bounded
<1>2. BookInv /\ [A!Next]_A!vars => [A!LoadsWhole /\ A!EvictsOldest]_A!vars
  BY BookStep
<1> QED BY <1>1, <1>2, BookInit, PTL DEF A!Spec, BookKept, A!BookKept

-----------------------------------------------------------------------------
(* Reputation.                                                             *)

Canon == [by : Peer, about : Peer, sec : Int]
Attestation ==
  [att : [by : Peer, about : Peer, time : Int], sig : [key : Peer, of : Canon]]
RepRecord ==
  [relayed : Nat, relays : Nat, hours : Nat, deposited : Nat, retrieved : Nat, queries : Nat,
   ms : Nat, served : Nat, requested : Nat, trust : Int, score : Int, tier : Int,
   events : Nat, atts : Seq(Attestation), first : Int, busy : BOOLEAN]
RepEvent == R!Event \cup [op : {"attest"}, att : Attestation]
RepJob == [at : {"lookup", "create", "count", "score"}, p : Peer, e : RepEvent, o : Nat]

RepTypes ==
  /\ objs \in Seq(RepRecord) /\ index \in [Peer -> Nat]
  /\ job \in [Worker -> RepJob \cup {R!Idle}] /\ reported \in [Peer -> Nat]
  /\ db \in [Peer -> RepRecord] /\ saving \subseteq [p : Peer, r : RepRecord]
  /\ now \in Int /\ accepted \in [Peer -> Seq(Attestation)]
AttTypes ==
  /\ wire \subseteq [c : Canon, sig : [key : Peer, of : Canon]]
  /\ own \subseteq Attestation /\ now \in Int

\* Peers have records of their own, and a goroutine that has looked one up
\* keeps the one of its peer.
RecordsOwned ==
  /\ \A p \in Peer : index[p] # 0 => index[p] \in 1 .. Len(objs)
  /\ \A p, q \in Peer : p # q /\ index[p] # 0 => index[p] # index[q]
  /\ \A w \in Worker : job[w].at \in {"count", "score"} =>
       job[w].o # 0 /\ job[w].o = index[job[w].p]
  /\ \A p \in Peer : index[p] = 0 => accepted[p] = <<>>

\* Score and tier are those of the counters, in a record nobody is updating,
\* in its snapshots and in what was stored of them.
Whole(r) == r.score = R!CompositeScore(r) /\ r.tier = R!TierOf(r.score)
RecordsWhole ==
  /\ \A o \in 1 .. Len(objs) : ~objs[o].busy => Whole(objs[o])
  /\ \A s \in saving : Whole(s.r)
  /\ \A p \in Peer : db[p] # R!NoRecord => Whole(db[p])

\* What is published is signed by its author, as encoded.
WireSigned == \A e \in wire : e.sig = [key |-> e.c.by, of |-> e.c]

\* The goroutines that have an event of p to count.
Pending(p) == {w \in Worker : job[w].p = p /\ job[w].at \in {"lookup", "create", "count"}}
Counting ==
  \A p \in Peer :
    reported[p] = (IF index[p] = 0 THEN 0 ELSE objs[index[p]].events) + Cardinality(Pending(p))

\* The last of a sequence of attestations, up to the limit.
Latest(s) ==
  LET n == Len(s)
      k == IF n < MaxAttestations THEN n ELSE MaxAttestations
  IN  SubSeq(s, n - k + 1, n)
Keeping == \A p \in Peer : index[p] # 0 => objs[index[p]].atts = Latest(accepted[p])

RepInv ==
  /\ RepTypes /\ AttTypes /\ RecordsOwned /\ RecordsWhole /\ WireSigned
  /\ Counting /\ Keeping

\* A score is a number, and depends on the counters and the trust alone.
LEMMA ScoreInt ==
  ASSUME NEW r \in RepRecord
  PROVE  R!CompositeScore(r) \in Int /\ R!TierOf(R!CompositeScore(r)) \in Int
<1>1. ASSUME NEW a \in Nat, NEW b \in Nat PROVE R!Percent(a, b) \in Int
  BY DEF R!Percent
<1>2. ASSUME NEW x \in Int, NEW lo \in Int, NEW hi \in Int PROVE R!Clamp(x, lo, hi) \in Int
  BY DEF R!Clamp
<1>3. /\ R!Percent(r.relayed, r.relays) \in Int /\ R!Percent(r.retrieved, r.deposited) \in Int
      /\ R!Percent(r.served, r.requested) \in Int
  BY <1>1 DEF RepRecord
<1>4. R!Percent(r.hours, HoursPerWeek) \in Int
  BY <1>1, ReputationAssumption DEF RepRecord
<1>5. r.queries # 0 => R!Clamp(100 - r.ms \div r.queries, 0, 100) \in Int
  <2>1. r.queries # 0 => 100 - r.ms \div r.queries \in Int
    BY SMTT(40) DEF RepRecord
  <2> QED BY <1>2, <2>1
<1>6. r.trust \in Int
  BY DEF RepRecord
<1>7. R!CompositeScore(r) \in Int
  <2> DEFINE dht == IF r.queries = 0 THEN 0 ELSE R!Clamp(100 - r.ms \div r.queries, 0, 100)
             sum == 25 * R!Percent(r.relayed, r.relays) + 20 * R!Percent(r.hours, HoursPerWeek)
                    + 25 * R!Percent(r.retrieved, r.deposited) + 15 * dht
                    + 15 * R!Percent(r.served, r.requested) + r.trust
  <2>1. dht \in Int
    BY <1>5
  <2> HIDE DEF dht
  <2>2. sum \in Int
    BY <1>3, <1>4, <1>6, <2>1
  <2>3. R!CompositeScore(r) = R!Clamp(sum, 0, 10000)
    BY DEF R!CompositeScore, dht
  <2> HIDE DEF sum
  <2> QED BY <1>2, <2>2, <2>3
<1> QED BY <1>7 DEF R!TierOf

LEMMA SameScore ==
  ASSUME NEW q, NEW r,
         q.relayed = r.relayed, q.relays = r.relays, q.hours = r.hours,
         q.deposited = r.deposited, q.retrieved = r.retrieved, q.queries = r.queries,
         q.ms = r.ms, q.served = r.served, q.requested = r.requested, q.trust = r.trust
  PROVE  R!CompositeScore(q) = R!CompositeScore(r)
BY DEF R!CompositeScore

\* updateCompositeScore makes a record whole and touches nothing else.
LEMMA Updated ==
  ASSUME NEW r \in RepRecord
  PROVE  LET q == [R!updateCompositeScore(r) EXCEPT !.busy = FALSE]
         IN  q \in RepRecord /\ Whole(q) /\ q.events = r.events /\ q.atts = r.atts
<1> DEFINE s == R!CompositeScore(r)
           t == R!TierOf(s)
           u == [[r EXCEPT !.score = s, !.tier = t] EXCEPT !.busy = FALSE]
<1>1. s \in Int /\ t \in Int
  BY ScoreInt
<1>2. u = [R!updateCompositeScore(r) EXCEPT !.busy = FALSE]
  BY DEF R!updateCompositeScore
<1> HIDE DEF s, t
<1>3. u \in RepRecord
  BY <1>1 DEF RepRecord
<1>4. /\ u.score = s /\ u.tier = t /\ u.events = r.events /\ u.atts = r.atts
      /\ u.relayed = r.relayed /\ u.relays = r.relays /\ u.hours = r.hours
      /\ u.deposited = r.deposited /\ u.retrieved = r.retrieved /\ u.queries = r.queries
      /\ u.ms = r.ms /\ u.served = r.served /\ u.requested = r.requested /\ u.trust = r.trust
  BY DEF RepRecord
<1> HIDE DEF u
<1>5. R!CompositeScore(u) = s
  BY <1>4, SameScore DEF s
<1>6. Whole(u)
  BY <1>4, <1>5 DEF Whole, t
<1> QED BY <1>2, <1>3, <1>4, <1>6

\* A new record is whole.
LEMMA FreshWhole ==
  ASSUME NEW t \in Int
  PROVE  R!Fresh(t) \in RepRecord /\ Whole(R!Fresh(t)) /\ R!Fresh(t).events = 0
         /\ R!Fresh(t).atts = <<>>
<1>1. R!Fresh(t) \in RepRecord
  BY DEF R!Fresh, RepRecord
<1>2. R!Percent(0, 0) = 0 /\ R!Percent(0, HoursPerWeek) = 0
  <2>1. HoursPerWeek \in Nat /\ HoursPerWeek > 0
    BY ReputationAssumption
  <2>2. \A h \in Nat : h > 0 => (100 * 0) \div h = 0
    OBVIOUS
  <2> QED BY <2>1, <2>2 DEF R!Percent
<1>3. R!Clamp(25 * 0 + 20 * 0 + 25 * 0 + 15 * 0 + 15 * 0 + 0, 0, 10000) = 0
  BY DEF R!Clamp
<1>4. R!CompositeScore(R!Fresh(t)) = 0
  BY <1>2, <1>3 DEF R!CompositeScore, R!Fresh
<1>5. R!TierOf(0) = 0
  BY DEF R!TierOf
<1> QED BY <1>1, <1>4, <1>5 DEF Whole, R!Fresh

\* What an update of a counter keeps.
SameHistory(q, r) == q \in RepRecord /\ q.events = r.events /\ q.atts = r.atts

LEMMA SetCounter ==
  ASSUME NEW r \in RepRecord, NEW v \in Nat
  PROVE  /\ SameHistory([r EXCEPT !.relayed = v], r) /\ SameHistory([r EXCEPT !.relays = v], r)
         /\ SameHistory([r EXCEPT !.hours = v], r) /\ SameHistory([r EXCEPT !.deposited = v], r)
         /\ SameHistory([r EXCEPT !.retrieved = v], r) /\ SameHistory([r EXCEPT !.queries = v], r)
         /\ SameHistory([r EXCEPT !.ms = v], r) /\ SameHistory([r EXCEPT !.served = v], r)
         /\ SameHistory([r EXCEPT !.requested = v], r)
<1>1. SameHistory([r EXCEPT !.relayed = v], r)
  BY DEF SameHistory, RepRecord
<1>2. SameHistory([r EXCEPT !.relays = v], r)
  BY DEF SameHistory, RepRecord
<1>3. SameHistory([r EXCEPT !.hours = v], r)
  BY DEF SameHistory, RepRecord
<1>4. SameHistory([r EXCEPT !.deposited = v], r)
  BY DEF SameHistory, RepRecord
<1>5. SameHistory([r EXCEPT !.retrieved = v], r)
  BY DEF SameHistory, RepRecord
<1>6. SameHistory([r EXCEPT !.queries = v], r)
  BY DEF SameHistory, RepRecord
<1>7. SameHistory([r EXCEPT !.ms = v], r)
  BY DEF SameHistory, RepRecord
<1>8. SameHistory([r EXCEPT !.served = v], r)
  BY DEF SameHistory, RepRecord
<1>9. SameHistory([r EXCEPT !.requested = v], r)
  BY DEF SameHistory, RepRecord
<1> QED BY <1>1, <1>2, <1>3, <1>4, <1>5, <1>6, <1>7, <1>8, <1>9

LEMMA SetTrust ==
  ASSUME NEW r \in RepRecord, NEW v \in Int
  PROVE  SameHistory([r EXCEPT !.trust = v], r)
BY DEF SameHistory, RepRecord

LEMMA SetAtts ==
  ASSUME NEW r \in RepRecord, NEW l \in Seq(Attestation)
  PROVE  LET q == [r EXCEPT !.atts = l]
         IN  q \in RepRecord /\ q.events = r.events /\ q.atts = l
BY DEF RepRecord

Marked(r, n) == [r EXCEPT !.events = n, !.busy = TRUE]

LEMMA SetEvents ==
  ASSUME NEW r \in RepRecord, NEW n \in Nat
  PROVE  /\ Marked(r, n) \in RepRecord /\ Marked(r, n).events = n
         /\ Marked(r, n).atts = r.atts /\ Marked(r, n).busy = TRUE
<1>1. PICK q : q = [r EXCEPT !.events = n]
  OBVIOUS
<1>2. q \in RepRecord /\ q.events = n /\ q.atts = r.atts
  BY <1>1 DEF RepRecord
<1>3. PICK u : u = [q EXCEPT !.busy = TRUE]
  OBVIOUS
<1>4. u \in RepRecord /\ u.events = q.events /\ u.atts = q.atts /\ u.busy = TRUE
  BY <1>2, <1>3 DEF RepRecord
<1>5. u = Marked(r, n)
  BY <1>1, <1>3 DEF Marked
<1> QED BY <1>2, <1>4, <1>5

\* An event other than an attestation changes counters or the trust ...
LEMMA AppliedCounts ==
  ASSUME NEW r \in RepRecord, NEW e \in RepEvent, e.op # "attest"
  PROVE  SameHistory(R!Apply(r, e), r)
<1>0. Responses \subseteq Nat /\ Adjustments \subseteq Int
  BY ReputationAssumption
<1>f. /\ r.relays \in Nat /\ r.relayed \in Nat /\ r.hours \in Nat /\ r.deposited \in Nat
      /\ r.retrieved \in Nat /\ r.queries \in Nat /\ r.ms \in Nat /\ r.served \in Nat
      /\ r.requested \in Nat
  BY DEF RepRecord
<1> DEFINE a == R!Apply(r, e)
<1>1. CASE e.op = "relay"
  <2>1. a = R!RecordRelayEvent(r, e.yes)
    BY <1>1 DEF R!Apply
  <2>2. PICK m \in Nat : m = r.relays + 1
    BY <1>f
  <2>3. PICK n \in Nat : n = IF e.yes THEN r.relayed + 1 ELSE r.relayed
    BY <1>f
  <2>4. PICK x : x = [r EXCEPT !.relays = m]
    OBVIOUS
  <2>5. SameHistory(x, r) /\ x.relayed = r.relayed
    BY <2>4, SetCounter DEF RepRecord
  <2>6. a = [x EXCEPT !.relayed = n]
    BY <2>1, <2>2, <2>3, <2>4, <2>5 DEF R!RecordRelayEvent
  <2>r. x \in RepRecord
    BY <2>5 DEF SameHistory
  <2>7. SameHistory(a, x)
    BY <2>r, <2>6, SetCounter
  <2> QED BY <2>5, <2>7 DEF SameHistory
<1>2. CASE e.op = "uptime"
  <2>1. a = R!RecordUptimeObservation(r, e.yes)
    BY <1>2 DEF R!Apply
  <2>2. PICK n \in Nat : n = IF e.yes /\ r.hours < HoursPerWeek THEN r.hours + 1 ELSE r.hours
    BY <1>f
  <2>3. a = [r EXCEPT !.hours = n]
    BY <2>1, <2>2 DEF R!RecordUptimeObservation
  <2> QED BY <2>3, SetCounter
<1>3. CASE e.op = "mailbox"
  <2>1. a = R!RecordMailboxEvent(r, e.yes)
    BY <1>3 DEF R!Apply
  <2>2. r.deposited + 1 \in Nat /\ r.retrieved + 1 \in Nat
    BY <1>f
  <2>3. a = [r EXCEPT !.deposited = r.deposited + 1] \/ a = [r EXCEPT !.retrieved = r.retrieved + 1]
    BY <2>1 DEF R!RecordMailboxEvent
  <2> QED BY <2>2, <2>3, SetCounter
<1>4. CASE e.op = "content"
  <2>1. a = R!RecordContentEvent(r, e.yes)
    BY <1>4 DEF R!Apply
  <2>2. r.served + 1 \in Nat /\ r.requested + 1 \in Nat
    BY <1>f
  <2>3. a = [r EXCEPT !.served = r.served + 1] \/ a = [r EXCEPT !.requested = r.requested + 1]
    BY <2>1 DEF R!RecordContentEvent
  <2> QED BY <2>2, <2>3, SetCounter
<1>5. CASE e.op = "dht"
  <2>1. a = R!RecordDHTQuery(r, e.n)
    BY <1>5 DEF R!Apply
  <2>2. e.n \in Responses
    BY <1>5 DEF RepEvent, R!Event
  <2>3. PICK m \in Nat : m = r.queries + 1
    BY <1>f
  <2>4. e.n \in Nat
    BY <2>2, <1>0
  <2>5. PICK n \in Nat : n = r.ms + e.n
    BY <2>4, <1>f
  <2>6. PICK x : x = [r EXCEPT !.queries = m]
    OBVIOUS
  <2>7. SameHistory(x, r) /\ x.ms = r.ms
    BY <2>6, SetCounter DEF RepRecord
  <2>8. a = [x EXCEPT !.ms = n]
    BY <2>1, <2>3, <2>5, <2>6, <2>7 DEF R!RecordDHTQuery
  <2>r. x \in RepRecord
    BY <2>7 DEF SameHistory
  <2>9. SameHistory(a, x)
    BY <2>r, <2>8, SetCounter
  <2> QED BY <2>7, <2>9 DEF SameHistory
<1>6. CASE e.op = "trust"
  <2>1. a = R!SetTrustAdjustment(r, e.n)
    BY <1>6 DEF R!Apply
  <2>2. e.n \in Adjustments
    BY <1>6 DEF RepEvent, R!Event
  <2>3. e.n \in Int
    BY <2>2, <1>0
  <2>4. PICK n \in Int : n = R!Clamp(e.n, -5000, 5000)
    BY <2>3 DEF R!Clamp
  <2>5. a = [r EXCEPT !.trust = n]
    BY <2>1, <2>4 DEF R!SetTrustAdjustment
  <2> QED BY <2>5, SetTrust
<1>7. e.op \in {"relay", "uptime", "mailbox", "content", "dht", "trust"}
  BY DEF RepEvent, R!Event
<1> QED BY <1>1, <1>2, <1>3, <1>4, <1>5, <1>6, <1>7

\* ... and an attestation joins the others, of which the oldest may have to go.
Joined(l, a) == Append(IF Len(l) >= MaxAttestations THEN Tail(l) ELSE l, a)

LEMMA AppliedRecord ==
  ASSUME NEW r \in RepRecord, NEW e \in RepEvent
  PROVE  LET q == R!Counted(r, e)
         IN  /\ q \in RepRecord /\ q.events = r.events + 1 /\ q.busy = TRUE
             /\ q.atts = IF e.op = "attest" THEN Joined(r.atts, e.att) ELSE r.atts
<1>1. PICK a : a = R!Apply(r, e)
  OBVIOUS
<1>2. /\ a \in RepRecord /\ a.events = r.events
      /\ a.atts = IF e.op = "attest" THEN Joined(r.atts, e.att) ELSE r.atts
  <2>1. CASE e.op # "attest"
    BY <1>1, <2>1, AppliedCounts DEF SameHistory
  <2>2. CASE e.op = "attest"
    <3>1. a = [r EXCEPT !.atts = Joined(r.atts, e.att)]
      BY <1>1, <2>2 DEF R!Apply, R!AppendAttestation, Joined
    <3>2. e.att \in Attestation /\ r.atts \in Seq(Attestation)
      BY <2>2 DEF RepEvent, R!Event, RepRecord
    <3>3. MaxAttestations \in Nat /\ MaxAttestations > 0
      BY ReputationAssumption
    <3>4. Joined(r.atts, e.att) \in Seq(Attestation)
      BY <3>2, <3>3 DEF Joined
    <3> QED BY <2>2, <3>1, <3>4, SetAtts
  <2> QED BY <2>1, <2>2
<1>3. PICK n \in Nat : n = r.events + 1
  BY DEF RepRecord
<1>4. PICK q : q = R!Counted(r, e)
  OBVIOUS
<1>5. q = Marked(a, n)
  BY <1>1, <1>2, <1>3, <1>4 DEF Marked, R!Counted
<1>6. q \in RepRecord /\ q.events = n /\ q.atts = a.atts /\ q.busy = TRUE
  <2>1. a \in RepRecord
    BY <1>2
  <2> QED BY ONLY <2>1, n \in Nat, <1>5, SetEvents
<1> QED BY <1>2, <1>3, <1>4, <1>6

\* The latest of a sequence after one more.
LEMMA LatestAppend ==
  ASSUME NEW s \in Seq(Attestation), NEW a \in Attestation
  PROVE  Latest(Append(s, a)) = Joined(Latest(s), a)
<1> DEFINE m == MaxAttestations
<1>0. m \in Nat /\ m > 0
  BY ReputationAssumption
<1>s. ASSUME NEW u, Len(u) < m PROVE Latest(u) = SubSeq(u, Len(u) - Len(u) + 1, Len(u))
  BY <1>s DEF Latest
<1>l. ASSUME NEW u, ~(Len(u) < m) PROVE Latest(u) = SubSeq(u, Len(u) - m + 1, Len(u))
  BY <1>l DEF Latest
<1> DEFINE n == Len(s)
<1>n. n \in Nat
  OBVIOUS
<1>u. PICK u : u = Append(s, a)
  OBVIOUS
<1>v. /\ u \in Seq(Attestation) /\ Len(u) = n + 1
      /\ \A i \in 1 .. n + 1 : u[i] = IF i = n + 1 THEN a ELSE s[i]
  BY <1>u
<1>1. CASE n < m
  <2>1. Latest(s) = SubSeq(s, 1, n)
    <3>1. n - n + 1 = 1
      BY <1>n
    <3> QED BY <1>s, <1>1, <3>1
  <2>2. Latest(s) = s
    BY <2>1
  <2>3. CASE n + 1 < m
    <3>1. Latest(u) = SubSeq(u, (n + 1) - (n + 1) + 1, n + 1)
      BY <1>s, <1>v, <2>3
    <3>2. (n + 1) - (n + 1) + 1 = 1
      BY <1>n
    <3>3. Latest(u) = u
      BY <3>1, <3>2, <1>v
    <3> QED BY <2>2, <3>3, <1>u, <1>1, <1>0, <1>n DEF Joined
  <2>4. CASE n + 1 = m
    <3>1. Latest(u) = SubSeq(u, (n + 1) - m + 1, n + 1)
      BY <1>l, <1>v, <2>4, <1>0, <1>n
    <3>2. (n + 1) - m + 1 = 1
      BY <1>n, <2>4
    <3>3. Latest(u) = u
      BY <3>1, <3>2, <1>v
    <3> QED BY <2>2, <3>3, <1>u, <1>1, <1>0, <1>n DEF Joined
  <2> QED BY <2>3, <2>4, <1>1, <1>0, <1>n
<1>2. CASE n >= m
  <2>1. Latest(s) = SubSeq(s, n - m + 1, n)
    BY <1>l, <1>0, <1>n, <1>2
  <2>2. Latest(u) = SubSeq(u, (n + 1) - m + 1, n + 1)
    <3>1. Len(u) = n + 1 /\ ~(Len(u) < m)
      BY <1>v, <1>0, <1>n, <1>2
    <3> QED BY <3>1, <1>l
  <2>3. PICK x : x = Latest(s)
    OBVIOUS
  <2>4. PICK y : y = Latest(u)
    OBVIOUS
  <2>5. PICK j \in Nat : j = n - m
    BY <1>0, <1>n, <1>2
  <2>6. x \in Seq(Attestation) /\ Len(x) = m /\ \A i \in 1 .. m : x[i] = s[j + i]
    <3>1. x = SubSeq(s, j + 1, j + m)
      BY <2>1, <2>3, <2>5, <1>0, <1>n
    <3>2. j + m = Len(s)
      BY <2>5, <1>0, <1>n
    <3> HIDE DEF m, n
    <3> QED BY <3>1, <3>2, <1>0
  <2>7. y \in Seq(Attestation) /\ Len(y) = m /\ \A i \in 1 .. m : y[i] = u[j + 1 + i]
    <3>1. y = SubSeq(u, j + 2, j + 1 + m)
      <4>1. (n + 1) - m + 1 = j + 2 /\ n + 1 = j + 1 + m
        BY <2>5, <1>0, <1>n
      <4> QED BY <2>2, <2>4, <4>1
    <3>2. j + 1 + m = Len(u)
      BY <2>5, <1>0, <1>n, <1>v
    <3>3. u \in Seq(Attestation)
      BY <1>v
    <3> HIDE DEF m, n
    <3> QED BY ONLY <3>1, <3>2, <3>3, <1>0, j \in Nat
  <2>8. PICK z : z = Append(Tail(x), a)
    OBVIOUS
  <2>9. z \in Seq(Attestation) /\ Len(z) = m
        /\ \A i \in 1 .. m : z[i] = IF i = m THEN a ELSE x[i + 1]
    <3> HIDE DEF m, n
    <3>1. x # <<>>
      BY <2>6, <1>0
    <3>2. Tail(x) \in Seq(Attestation) /\ Len(Tail(x)) = m - 1
          /\ \A i \in 1 .. m - 1 : Tail(x)[i] = x[i + 1]
      BY <2>6, <1>0, <3>1
    <3> QED BY <3>2, <2>8, <1>0
  <2>10. ASSUME NEW i \in 1 .. m PROVE y[i] = z[i]
    <3>1. y[i] = u[j + 1 + i] /\ j + 1 + i \in 1 .. n + 1 /\ (j + 1 + i = n + 1 <=> i = m)
      <4>1. y[i] = u[j + 1 + i]
        BY <2>7
      <4>2. j + m = n /\ i \in Nat /\ i >= 1 /\ i <= m
        BY <2>5, <1>0, <1>n
      <4> HIDE DEF m, n
      <4> QED BY <4>1, <4>2, <1>0, <1>n
    <3>2. u[j + 1 + i] = IF j + 1 + i = n + 1 THEN a ELSE s[j + 1 + i]
      BY <3>1, <1>v
    <3>3. i # m => x[i + 1] = s[j + 1 + i]
      <4>1. i # m => i + 1 \in 1 .. m /\ j + (i + 1) = j + 1 + i
        BY <1>0, <2>5
      <4> QED BY <4>1, <2>6
    <3> QED BY <3>1, <3>2, <3>3, <2>9
  <2>11. y = z
    BY <2>7, <2>9, <2>10, SeqEqual
  <2>12. Joined(x, a) = z
    BY <2>6, <2>8, <1>0 DEF Joined
  <2> QED BY <2>3, <2>4, <2>11, <2>12, <1>u
<1> QED BY <1>0, <1>1, <1>2, <1>n

-----------------------------------------------------------------------------
(* The steps of the tracker.                                               *)

LEMMA RepInit == R!Init => RepInv
<1> SUFFICES ASSUME R!Init PROVE RepInv
  OBVIOUS
<1>1. R!NoRecord \in RepRecord
  BY FreshWhole DEF R!NoRecord
<1>2. RepTypes
  <2>1. db \in [Peer -> RepRecord]
    BY <1>1 DEF R!Init
  <2> QED BY <2>1 DEF R!Init, RepTypes
<1>3. AttTypes /\ WireSigned
  BY DEF R!Init, AttTypes, WireSigned
<1>4. RecordsOwned
  BY DEF R!Init, RecordsOwned, R!Idle
<1>5. RecordsWhole
  BY DEF R!Init, RecordsWhole
<1>6. Counting
  <2> SUFFICES ASSUME NEW p \in Peer
               PROVE  reported[p] = (IF index[p] = 0 THEN 0 ELSE objs[index[p]].events)
                                    + Cardinality(Pending(p))
    BY DEF Counting
  <2>1. Pending(p) = {}
    BY DEF R!Init, Pending, R!Idle
  <2> QED BY <2>1, FS_EmptySet DEF R!Init
<1>7. Keeping
  BY DEF R!Init, Keeping
<1> QED BY <1>2, <1>3, <1>4, <1>5, <1>6, <1>7 DEF RepInv

\* One goroutine moves on.
LEMMA JobMoves ==
  ASSUME RepTypes, NEW w \in Worker, NEW j \in RepJob \cup {R!Idle},
         job' = [job EXCEPT ![w] = j]
  PROVE  /\ job' \in [Worker -> RepJob \cup {R!Idle}]
         /\ job'[w] = j /\ \A v \in Worker : v # w => job'[v] = job[v]
BY DEF RepTypes

LEMMA JobFields ==
  ASSUME RepTypes, NEW w \in Worker, job[w].at # "idle"
  PROVE  /\ job[w] \in RepJob /\ job[w].p \in Peer /\ job[w].e \in RepEvent
         /\ job[w].o \in Nat /\ index[job[w].p] \in Nat
<1>1. job[w] \in RepJob
  BY DEF RepTypes, R!Idle
<1> QED BY <1>1 DEF RepTypes, RepJob

LEMMA ObjectOf ==
  ASSUME RepInv, NEW p \in Peer, index[p] # 0
  PROVE  /\ index[p] \in 1 .. Len(objs) /\ objs[index[p]] \in RepRecord
         /\ objs[index[p]].events \in Nat
<1>1. index[p] \in 1 .. Len(objs) /\ objs \in Seq(RepRecord)
  BY DEF RepInv, RecordsOwned, RepTypes
<1>2. objs[index[p]] \in RepRecord
  BY <1>1
<1> QED BY <1>1, <1>2 DEF RepRecord

\* The state and the object of a job change together.
MovedJob(w, a, i) == [job EXCEPT ![w].at = a, ![w].o = i]

LEMMA JobTo ==
  ASSUME RepTypes, NEW w \in Worker, job[w] \in RepJob, NEW a, NEW i
  PROVE  MovedJob(w, a, i) = [job EXCEPT ![w] = [at |-> a, p |-> job[w].p, e |-> job[w].e, o |-> i]]
<1>1. PICK k : k = [job[w] EXCEPT !.at = a]
  OBVIOUS
<1>2. k = [at |-> a, p |-> job[w].p, e |-> job[w].e, o |-> job[w].o]
  BY <1>1 DEF RepJob
<1>3. [k EXCEPT !.o = i] = [at |-> a, p |-> job[w].p, e |-> job[w].e, o |-> i]
  BY <1>2
<1>4. [job EXCEPT ![w].at = a, ![w].o = i] = [job EXCEPT ![w] = [k EXCEPT !.o = i]]
  BY <1>1 DEF RepTypes
<1> QED BY <1>3, <1>4 DEF MovedJob

\* A goroutine with an event to count is one of finitely many.
LEMMA PendingFinite ==
  ASSUME NEW p PROVE IsFiniteSet(Pending(p)) /\ Cardinality(Pending(p)) \in Nat
<1>1. Pending(p) \subseteq Worker
  BY DEF Pending
<1>2. IsFiniteSet(Worker)
  BY ReputationAssumption
<1> QED BY <1>1, <1>2, FS_Subset, FS_CardinalityType

LEMMA RepBegin ==
  ASSUME RepInv, NEW w \in Worker, NEW p \in Peer, NEW e \in RepEvent, R!Begin(w, p, e),
         UNCHANGED <<objs, index, db, saving, accepted, now, wire, own, request>>
  PROVE  RepInv'
<1> DEFINE j == [at |-> "lookup", p |-> p, e |-> e, o |-> 0]
<1>0. RepTypes /\ job[w] = R!Idle /\ p # 0
  BY ContactAssumption DEF RepInv, R!Begin
<1>1. j \in RepJob
  BY DEF RepJob
<1>2. job' = [job EXCEPT ![w] = j]
  BY DEF R!Begin
<1>3. j.p = p /\ j.at = "lookup"
  OBVIOUS
<1> HIDE DEF j
<1>4. /\ job' \in [Worker -> RepJob \cup {R!Idle}]
      /\ job'[w] = j /\ \A v \in Worker : v # w => job'[v] = job[v]
  BY <1>0, <1>1, <1>2, JobMoves
<1>5. reported' = [reported EXCEPT ![p] = @ + 1] /\ reported' \in [Peer -> Nat]
  BY <1>0 DEF R!Begin, RepTypes
<1>6. RepTypes'
  BY <1>4, <1>5 DEF RepInv, RepTypes
<1>7. AttTypes' /\ WireSigned' /\ RecordsWhole' /\ Keeping'
  BY DEF RepInv, AttTypes, WireSigned, RecordsWhole, Keeping
<1>8. RecordsOwned'
  <2>1. ASSUME NEW v \in Worker, job'[v].at \in {"count", "score"}
        PROVE  job'[v].o # 0 /\ job'[v].o = index[job'[v].p]
    BY <1>3, <1>4, <2>1 DEF RepInv, RecordsOwned
  <2> QED BY <2>1 DEF RepInv, RecordsOwned
<1>9. Counting'
  <2> SUFFICES ASSUME NEW q \in Peer
               PROVE  reported'[q] = (IF index[q] = 0 THEN 0 ELSE objs[index[q]].events)
                                     + Cardinality(Pending(q)')
    BY DEF Counting
  <2>0. reported[q] = (IF index[q] = 0 THEN 0 ELSE objs[index[q]].events)
                      + Cardinality(Pending(q))
    BY DEF RepInv, Counting
  <2>1. CASE q # p
    <3>1. Pending(q)' = Pending(q)
      BY <1>0, <1>3, <1>4, <2>1 DEF Pending, R!Idle
    <3>2. reported'[q] = reported[q]
      BY <1>0, <1>5, <2>1 DEF RepTypes
    <3> QED BY <2>0, <3>1, <3>2
  <2>2. CASE q = p
    <3>1. Pending(q)' = Pending(q) \cup {w} /\ w \notin Pending(q)
      BY <1>0, <1>3, <1>4, <2>2 DEF Pending, R!Idle
    <3>2. Cardinality(Pending(q)') = Cardinality(Pending(q)) + 1
      BY <3>1, PendingFinite, FS_AddElement
    <3>3. reported'[q] = reported[q] + 1 /\ reported[q] \in Nat
      BY <1>0, <1>5, <2>2 DEF RepTypes
    <3>4. PICK n : n = IF index[q] = 0 THEN 0 ELSE objs[index[q]].events
      OBVIOUS
    <3>5. n \in Nat
      BY <3>4, ObjectOf
    <3> QED BY <2>0, <3>2, <3>3, <3>4, <3>5, PendingFinite
  <2> QED BY <2>1, <2>2
<1> QED BY <1>6, <1>7, <1>8, <1>9 DEF RepInv

LEMMA RepLookup ==
  ASSUME RepInv, NEW w \in Worker, R!GetOrCreateRecord(w)
  PROVE  RepInv'
<1>0. RepTypes /\ job[w].at = "lookup"
      /\ UNCHANGED <<objs, index, reported, db, saving, accepted, now, wire, own, request>>
  BY DEF RepInv, R!GetOrCreateRecord, R!attVars
<1>f. /\ job[w] \in RepJob /\ job[w].p \in Peer /\ job[w].e \in RepEvent
      /\ index[job[w].p] \in Nat
  BY <1>0, JobFields
<1> DEFINE i == index[job[w].p]
           j == [at |-> IF i = 0 THEN "create" ELSE "count", p |-> job[w].p, e |-> job[w].e, o |-> i]
<1>1. j \in RepJob
  BY <1>f DEF RepJob
<1>2. job' = [job EXCEPT ![w] = j]
  <2>1. PICK a : a = IF i = 0 THEN "create" ELSE "count"
    OBVIOUS
  <2>2. job' = MovedJob(w, a, i)
    BY <2>1 DEF R!GetOrCreateRecord, MovedJob
  <2> QED BY <2>1, <2>2, <1>0, <1>f, JobTo
<1>3. j.p = job[w].p /\ j.o = i /\ j.at = IF i = 0 THEN "create" ELSE "count"
  OBVIOUS
<1> HIDE DEF j
<1>4. /\ job' \in [Worker -> RepJob \cup {R!Idle}]
      /\ job'[w] = j /\ \A v \in Worker : v # w => job'[v] = job[v]
  BY <1>0, <1>1, <1>2, JobMoves
<1>6. RepTypes'
  BY <1>0, <1>4 DEF RepInv, RepTypes
<1>7. AttTypes' /\ WireSigned' /\ RecordsWhole' /\ Keeping'
  BY <1>0 DEF RepInv, AttTypes, WireSigned, RecordsWhole, Keeping
<1>8. RecordsOwned'
  <2>1. ASSUME NEW v \in Worker, job'[v].at \in {"count", "score"}
        PROVE  job'[v].o # 0 /\ job'[v].o = index[job'[v].p]
    BY <1>3, <1>4, <2>1 DEF RepInv, RecordsOwned
  <2> QED BY <1>0, <2>1 DEF RepInv, RecordsOwned
<1>9. Counting'
  <2>1. ASSUME NEW q \in Peer PROVE Pending(q)' = Pending(q)
    BY <1>0, <1>3, <1>4 DEF Pending
  <2> QED BY <1>0, <2>1 DEF RepInv, Counting
<1> QED BY <1>6, <1>7, <1>8, <1>9 DEF RepInv

LEMMA RepCreate ==
  ASSUME RepInv, NEW w \in Worker, R!CreateRecord(w)
  PROVE  RepInv'
<1>0. RepTypes /\ AttTypes /\ job[w].at = "create"
      /\ UNCHANGED <<reported, db, saving, accepted, now, wire, own, request>>
  BY DEF RepInv, R!CreateRecord, R!attVars
<1>f. /\ job[w] \in RepJob /\ job[w].p \in Peer /\ job[w].e \in RepEvent
      /\ index[job[w].p] \in Nat
  BY <1>0, JobFields
<1>n. objs \in Seq(RepRecord) /\ Len(objs) \in Nat /\ index \in [Peer -> Nat] /\ now \in Int
  BY <1>0 DEF RepTypes
<1> DEFINE p == job[w].p
           o == IF index[p] # 0 THEN index[p] ELSE Len(objs) + 1
           j == [at |-> "count", p |-> p, e |-> job[w].e, o |-> o]
<1>o. o \in Nat /\ o # 0
  BY <1>f, <1>n
<1>1. j \in RepJob
  BY <1>f, <1>o DEF RepJob
<1>2. job' = [job EXCEPT ![w] = j]
  <2>1. job' = MovedJob(w, "count", o)
    BY DEF R!CreateRecord, MovedJob
  <2> QED BY <2>1, <1>0, <1>f, JobTo
<1>3. j.p = p /\ j.o = o /\ j.at = "count"
  OBVIOUS
<1>d. objs' = IF index[p] # 0 THEN objs ELSE Append(objs, R!Fresh(now))
  BY DEF R!CreateRecord
<1>i. index' = [index EXCEPT ![p] = o]
  BY DEF R!CreateRecord
<1> HIDE DEF j
<1>4. /\ job' \in [Worker -> RepJob \cup {R!Idle}]
      /\ job'[w] = j /\ \A v \in Worker : v # w => job'[v] = job[v]
  BY <1>0, <1>1, <1>2, JobMoves
<1>P. ASSUME NEW q \in Peer PROVE Pending(q)' = Pending(q)
  BY <1>0, <1>3, <1>4 DEF Pending
<1>A. AttTypes' /\ WireSigned'
  BY <1>0 DEF RepInv, AttTypes, WireSigned
<1>5. CASE index[p] # 0
  <2>1. o = index[p] /\ objs' = objs /\ index' = index
    BY <1>5, <1>d, <1>i, <1>n, <1>f
  <2>2. RepTypes'
    BY <1>0, <1>4, <2>1 DEF RepTypes
  <2>3. RecordsWhole' /\ Keeping'
    BY <1>0, <2>1 DEF RepInv, RecordsWhole, Keeping
  <2>4. RecordsOwned'
    <3>1. ASSUME NEW v \in Worker, job'[v].at \in {"count", "score"}
          PROVE  job'[v].o # 0 /\ job'[v].o = index[job'[v].p]
      BY <1>3, <1>4, <1>o, <2>1, <3>1 DEF RepInv, RecordsOwned
    <3> QED BY <1>0, <2>1, <3>1 DEF RepInv, RecordsOwned
  <2>5. Counting'
    BY <1>0, <1>P, <2>1 DEF RepInv, Counting
  <2> QED BY <1>A, <2>2, <2>3, <2>4, <2>5 DEF RepInv
<1>6. CASE index[p] = 0
  <2>0. /\ R!Fresh(now) \in RepRecord /\ Whole(R!Fresh(now)) /\ R!Fresh(now).events = 0
        /\ R!Fresh(now).atts = <<>>
    BY <1>n, FreshWhole
  <2>1. o = Len(objs) + 1 /\ objs' = Append(objs, R!Fresh(now))
    BY <1>6, <1>d
  <2>2. /\ objs' \in Seq(RepRecord) /\ Len(objs') = Len(objs) + 1
        /\ objs'[Len(objs) + 1] = R!Fresh(now)
        /\ \A k \in 1 .. Len(objs) : objs'[k] = objs[k]
    BY <1>n, <2>0, <2>1
  <2>3. index' \in [Peer -> Nat] /\ index'[p] = o /\ \A q \in Peer : q # p => index'[q] = index[q]
    BY <1>n, <1>f, <1>i, <1>o
  <2> HIDE DEF o
  <2>4. RepTypes'
    BY <1>0, <1>4, <2>2, <2>3 DEF RepTypes
  <2>5. RecordsWhole'
    <3>1. ASSUME NEW k \in 1 .. Len(objs'), ~objs'[k].busy PROVE Whole(objs'[k])
      <4>1. CASE k = Len(objs) + 1
        BY <4>1, <2>0, <2>2
      <4>2. CASE k \in 1 .. Len(objs)
        BY <3>1, <4>2, <2>2 DEF RepInv, RecordsWhole
      <4> QED BY <4>1, <4>2, <2>2, <1>n
    <3> QED BY <3>1, <1>0 DEF RepInv, RecordsWhole
  <2>6. RecordsOwned'
    <3>1. \A q \in Peer : index'[q] # 0 => index'[q] \in 1 .. Len(objs')
      BY <1>n, <2>1, <2>2, <2>3 DEF RepInv, RecordsOwned
    <3>2. ASSUME NEW q \in Peer, NEW r \in Peer, q # r, index'[q] # 0
          PROVE  index'[q] # index'[r]
      <4>1. \A s \in Peer : index[s] # Len(objs) + 1
        BY <1>n DEF RepInv, RecordsOwned
      <4> QED BY <3>2, <4>1, <2>1, <2>3 DEF RepInv, RecordsOwned
    <3>3. ASSUME NEW v \in Worker, job'[v].at \in {"count", "score"}
          PROVE  job'[v].o # 0 /\ job'[v].o = index'[job'[v].p]
      <4>1. CASE v = w
        BY <4>1, <1>3, <1>4, <1>o, <2>3
      <4>2. CASE v # w
        <5>1. job'[v] = job[v] /\ job[v].o # 0 /\ job[v].o = index[job[v].p]
          BY <4>2, <3>3, <1>4 DEF RepInv, RecordsOwned
        <5>2. job[v].p # p
          BY <5>1, <1>6
        <5>3. job[v].p \in Peer
          BY <5>1, <3>3, <1>0, JobFields
        <5> QED BY <5>1, <5>2, <5>3, <2>3
      <4> QED BY <4>1, <4>2
    <3>4. \A q \in Peer : index'[q] = 0 => accepted[q] = <<>>
      BY <2>3, <1>o DEF RepInv, RecordsOwned
    <3> QED BY <1>0, <3>1, <3>2, <3>3, <3>4 DEF RecordsOwned
  <2>7. Counting'
    <3> SUFFICES ASSUME NEW q \in Peer
                 PROVE  reported[q] = (IF index'[q] = 0 THEN 0 ELSE objs'[index'[q]].events)
                                      + Cardinality(Pending(q)')
      BY <1>0 DEF Counting
    <3>0. reported[q] = (IF index[q] = 0 THEN 0 ELSE objs[index[q]].events)
                        + Cardinality(Pending(q))
      BY DEF RepInv, Counting
    <3>1. CASE q = p
      <4>1. objs'[index'[q]].events = 0
        BY <3>1, <2>0, <2>1, <2>2, <2>3
      <4> QED BY <3>0, <3>1, <4>1, <1>6, <1>P
    <3>2. CASE q # p
      <4>1. index'[q] = index[q] /\ (index[q] # 0 => objs'[index[q]] = objs[index[q]])
        BY <3>2, <2>2, <2>3, ObjectOf
      <4> QED BY <3>0, <4>1, <1>P
    <3> QED BY <3>1, <3>2
  <2>8. Keeping'
    <3> SUFFICES ASSUME NEW q \in Peer, index'[q] # 0
                 PROVE  objs'[index'[q]].atts = Latest(accepted[q])
      BY <1>0 DEF Keeping
    <3>1. CASE q = p
      <4>1. objs'[index'[q]].atts = <<>>
        BY <3>1, <2>0, <2>1, <2>2, <2>3
      <4>2. accepted[q] = <<>>
        BY <3>1, <1>6 DEF RepInv, RecordsOwned
      <4>3. Latest(<<>>) = <<>>
        <5>1. Len(<<>>) = 0 /\ MaxAttestations \in Nat /\ MaxAttestations > 0
          BY ReputationAssumption
        <5>2. Latest(<<>>) = SubSeq(<<>>, 0 - 0 + 1, 0)
          BY <5>1 DEF Latest
        <5> QED BY <5>2
      <4> QED BY <4>1, <4>2, <4>3
    <3>2. CASE q # p
      <4>1. index'[q] = index[q] /\ objs'[index[q]] = objs[index[q]]
        BY <3>2, <2>2, <2>3, ObjectOf
      <4> QED BY <4>1 DEF RepInv, Keeping
    <3> QED BY <3>1, <3>2
  <2> QED BY <1>A, <2>4, <2>5, <2>6, <2>7, <2>8 DEF RepInv
<1> QED BY <1>5, <1>6

\* The goroutine that has the record of its peer changes it.
LEMMA ObjectChanges ==
  ASSUME RepInv, NEW w \in Worker, job[w].at \in {"count", "score"}, NEW r \in RepRecord,
         objs' = [objs EXCEPT ![job[w].o] = r]
  PROVE  /\ job[w] \in RepJob /\ job[w].p \in Peer /\ job[w].e \in RepEvent
         /\ job[w].o = index[job[w].p] /\ job[w].o # 0 /\ job[w].o \in 1 .. Len(objs)
         /\ objs[job[w].o] \in RepRecord
         /\ objs' \in Seq(RepRecord) /\ Len(objs') = Len(objs)
         /\ objs'[job[w].o] = r
         /\ \A k \in 1 .. Len(objs) : k # job[w].o => objs'[k] = objs[k]
         /\ \A q \in Peer : q # job[w].p /\ index[q] # 0 => objs'[index[q]] = objs[index[q]]
<1>1. RepTypes
  BY DEF RepInv
<1>2. job[w] \in RepJob /\ job[w].p \in Peer /\ job[w].e \in RepEvent
  BY <1>1, JobFields
<1>3. job[w].o = index[job[w].p] /\ job[w].o # 0
  BY DEF RepInv, RecordsOwned
<1>4. job[w].o \in 1 .. Len(objs) /\ objs[job[w].o] \in RepRecord
  BY <1>2, <1>3, ObjectOf
<1>5. objs \in Seq(RepRecord)
  BY <1>1 DEF RepTypes
<1>6. PICK o : o = job[w].o
  OBVIOUS
<1>7. /\ objs' \in Seq(RepRecord) /\ Len(objs') = Len(objs) /\ objs'[o] = r
      /\ \A k \in 1 .. Len(objs) : k # o => objs'[k] = objs[k]
  BY <1>4, <1>5, <1>6
<1>8. ASSUME NEW q \in Peer, q # job[w].p, index[q] # 0 PROVE objs'[index[q]] = objs[index[q]]
  <2>1. index[q] \in 1 .. Len(objs)
    BY <1>8, ObjectOf
  <2>2. index[q] # o
    BY <1>2, <1>3, <1>6, <1>8 DEF RepInv, RecordsOwned
  <2> QED BY <1>7, <2>1, <2>2
<1> QED BY <1>2, <1>3, <1>4, <1>6, <1>7, <1>8

LEMMA RepCount ==
  ASSUME RepInv, NEW w \in Worker, R!Count(w)
  PROVE  RepInv'
<1> DEFINE o == job[w].o
           p == job[w].p
           e == job[w].e
           q == R!Counted(objs[o], e)
<1>0. /\ RepTypes /\ AttTypes /\ job[w].at = "count" /\ ~objs[o].busy
      /\ UNCHANGED <<index, reported, db, saving, now, wire, own, request>>
      /\ objs' = [objs EXCEPT ![o] = q]
      /\ accepted' = IF e.op = "attest" THEN [accepted EXCEPT ![p] = Append(@, e.att)] ELSE accepted
  <2>1. objs' = [objs EXCEPT ![o] = q]
    BY DEF R!Count, R!Counted
  <2>2. /\ RepTypes /\ AttTypes /\ job[w].at = "count" /\ ~objs[o].busy
        /\ UNCHANGED <<index, reported, db, saving, now, wire, own, request>>
    BY DEF RepInv, R!Count, R!attVars
  <2>3. accepted' = IF e.op = "attest" THEN [accepted EXCEPT ![p] = Append(@, e.att)] ELSE accepted
    BY DEF R!Count
  <2> HIDE DEF q
  <2> QED BY <2>1, <2>2, <2>3
<1>j. job' = [job EXCEPT ![w].at = "score"]
  BY DEF R!Count
<1>f. /\ job[w] \in RepJob /\ p \in Peer /\ e \in RepEvent /\ o = index[p] /\ o # 0
      /\ o \in 1 .. Len(objs) /\ objs[o] \in RepRecord
  <2>1. job[w] \in RepJob /\ p \in Peer /\ e \in RepEvent
    BY <1>0, JobFields
  <2>2. o = index[p] /\ o # 0
    BY <1>0 DEF RepInv, RecordsOwned
  <2> QED BY <2>1, <2>2, ObjectOf
<1>q. /\ q \in RepRecord /\ q.events = objs[o].events + 1 /\ q.busy = TRUE
      /\ q.atts = IF e.op = "attest" THEN Joined(objs[o].atts, e.att) ELSE objs[o].atts
  BY <1>f, AppliedRecord
<1> HIDE DEF q
<1>d. /\ objs' \in Seq(RepRecord) /\ Len(objs') = Len(objs) /\ objs'[o] = q
      /\ \A k \in 1 .. Len(objs) : k # o => objs'[k] = objs[k]
      /\ \A r \in Peer : r # p /\ index[r] # 0 => objs'[index[r]] = objs[index[r]]
  BY <1>0, <1>q, ObjectChanges
<1> DEFINE j == [at |-> "score", p |-> p, e |-> e, o |-> o]
<1>1. j \in RepJob /\ j.p = p /\ j.at = "score" /\ j.o = o
  BY <1>f DEF RepJob
<1>2. job' = [job EXCEPT ![w] = j]
  <2>1. [job[w] EXCEPT !.at = "score"] = j
    BY <1>f DEF RepJob
  <2> QED BY <1>j, <2>1
<1> HIDE DEF j
<1>4. /\ job' \in [Worker -> RepJob \cup {R!Idle}]
      /\ job'[w] = j /\ \A v \in Worker : v # w => job'[v] = job[v]
  BY <1>0, <1>1, <1>2, JobMoves
<1>a. /\ accepted' \in [Peer -> Seq(Attestation)]
      /\ \A r \in Peer : r # p => accepted'[r] = accepted[r]
      /\ accepted'[p] = IF e.op = "attest" THEN Append(accepted[p], e.att) ELSE accepted[p]
  <2>1. accepted \in [Peer -> Seq(Attestation)]
    BY <1>0 DEF RepTypes
  <2>2. e.op = "attest" => e.att \in Attestation
    BY <1>f DEF RepEvent, R!Event
  <2> HIDE DEF e, p
  <2> QED BY <1>0, <1>f, <2>1, <2>2
<1>5. RepTypes'
  BY <1>0, <1>4, <1>a, <1>d DEF RepTypes
<1>6. AttTypes' /\ WireSigned'
  BY <1>0 DEF RepInv, AttTypes, WireSigned
<1>7. RecordsWhole'
  BY <1>0, <1>d, <1>q DEF RepInv, RecordsWhole
<1>8. RecordsOwned'
  <2>1. ASSUME NEW v \in Worker, job'[v].at \in {"count", "score"}
        PROVE  job'[v].o # 0 /\ job'[v].o = index[job'[v].p]
    BY <1>1, <1>4, <1>f, <2>1 DEF RepInv, RecordsOwned
  <2>2. \A r \in Peer : index[r] = 0 => accepted'[r] = <<>>
    BY <1>a, <1>f DEF RepInv, RecordsOwned
  <2> QED BY <1>0, <1>d, <2>1, <2>2 DEF RepInv, RecordsOwned
<1>9. Counting'
  <2> SUFFICES ASSUME NEW r \in Peer
               PROVE  reported[r] = (IF index[r] = 0 THEN 0 ELSE objs'[index[r]].events)
                                    + Cardinality(Pending(r)')
    BY <1>0 DEF Counting
  <2>0. reported[r] = (IF index[r] = 0 THEN 0 ELSE objs[index[r]].events)
                      + Cardinality(Pending(r))
    BY DEF RepInv, Counting
  <2>1. CASE r # p
    <3>1. Pending(r)' = Pending(r)
      BY <1>1, <1>4, <2>1 DEF Pending
    <3> QED BY <2>0, <2>1, <3>1, <1>d
  <2>2. CASE r = p
    <3>1. Pending(r)' = Pending(r) \ {w} /\ w \in Pending(r)
      BY <1>0, <1>1, <1>4, <2>2 DEF Pending
    <3>2. Cardinality(Pending(r)') = Cardinality(Pending(r)) - 1
      BY <3>1, PendingFinite, FS_RemoveElement
    <3>3. objs'[index[r]].events = objs[index[r]].events + 1 /\ objs[index[r]].events \in Nat
      BY <1>d, <1>f, <1>q, <2>2, ObjectOf
    <3>4. PICK n \in Nat : n = Cardinality(Pending(r))
      BY PendingFinite
    <3>5. index[r] # 0
      BY <1>f, <2>2
    <3> HIDE DEF p, o
    <3> QED BY <2>0, <3>2, <3>3, <3>4, <3>5
  <2> QED BY <2>1, <2>2
<1>10. Keeping'
  <2> SUFFICES ASSUME NEW r \in Peer, index[r] # 0
               PROVE  objs'[index[r]].atts = Latest(accepted'[r])
    BY <1>0 DEF Keeping
  <2>0. objs[index[r]].atts = Latest(accepted[r])
    BY DEF RepInv, Keeping
  <2>1. CASE r # p
    BY <2>0, <2>1, <1>a, <1>d
  <2>2. CASE r = p
    <3>1. objs'[index[r]].atts = IF e.op = "attest" THEN Joined(Latest(accepted[r]), e.att)
                                 ELSE Latest(accepted[r])
      BY <1>d, <1>f, <1>q, <2>0, <2>2
    <3>2. e.op = "attest" => Latest(Append(accepted[r], e.att)) = Joined(Latest(accepted[r]), e.att)
      <4>1. accepted[r] \in Seq(Attestation)
        BY <1>0 DEF RepTypes
      <4>2. e.op = "attest" => e.att \in Attestation
        BY <1>f DEF RepEvent, R!Event
      <4> HIDE DEF e
      <4> QED BY <4>1, <4>2, LatestAppend
    <3> HIDE DEF e, p
    <3> QED BY <3>1, <3>2, <1>a, <2>2
  <2> QED BY <2>1, <2>2
<1> QED BY <1>5, <1>6, <1>7, <1>8, <1>9, <1>10 DEF RepInv

LEMMA RepScore ==
  ASSUME RepInv, NEW w \in Worker, R!Score(w)
  PROVE  RepInv'
<1> DEFINE o == job[w].o
           p == job[w].p
           q == [R!updateCompositeScore(objs[o]) EXCEPT !.busy = FALSE]
<1>0. /\ RepTypes /\ AttTypes /\ job[w].at = "score"
      /\ UNCHANGED <<index, reported, db, saving, accepted, now, wire, own, request>>
      /\ objs' = [objs EXCEPT ![o] = q] /\ job' = [job EXCEPT ![w] = R!Idle]
  BY DEF RepInv, R!Score, R!attVars
<1>f. /\ p \in Peer /\ o = index[p] /\ o # 0 /\ o \in 1 .. Len(objs) /\ objs[o] \in RepRecord
  <2>1. p \in Peer
    BY <1>0, JobFields
  <2>2. o = index[p] /\ o # 0
    BY <1>0 DEF RepInv, RecordsOwned
  <2> QED BY <2>1, <2>2, ObjectOf
<1>q. q \in RepRecord /\ Whole(q) /\ q.events = objs[o].events /\ q.atts = objs[o].atts
  BY <1>f, Updated
<1> HIDE DEF q
<1>d. /\ objs' \in Seq(RepRecord) /\ Len(objs') = Len(objs) /\ objs'[o] = q
      /\ \A k \in 1 .. Len(objs) : k # o => objs'[k] = objs[k]
      /\ \A r \in Peer : r # p /\ index[r] # 0 => objs'[index[r]] = objs[index[r]]
  BY <1>0, <1>q, ObjectChanges
<1>k. \A r \in Peer : index[r] # 0 =>
        objs'[index[r]].events = objs[index[r]].events /\ objs'[index[r]].atts = objs[index[r]].atts
  BY <1>d, <1>f, <1>q
<1>4. /\ job' \in [Worker -> RepJob \cup {R!Idle}]
      /\ job'[w] = R!Idle /\ \A v \in Worker : v # w => job'[v] = job[v]
  BY <1>0, JobMoves
<1>5. RepTypes'
  BY <1>0, <1>4, <1>d DEF RepTypes
<1>6. AttTypes' /\ WireSigned'
  BY <1>0 DEF RepInv, AttTypes, WireSigned
<1>7. RecordsWhole'
  BY <1>0, <1>d, <1>q DEF RepInv, RecordsWhole
<1>8. RecordsOwned'
  <2>1. ASSUME NEW v \in Worker, job'[v].at \in {"count", "score"}
        PROVE  job'[v].o # 0 /\ job'[v].o = index[job'[v].p]
    BY <1>4, <2>1 DEF RepInv, RecordsOwned, R!Idle
  <2> QED BY <1>0, <1>d, <2>1 DEF RepInv, RecordsOwned
<1>9. Counting'
  <2>1. ASSUME NEW r \in Peer PROVE Pending(r)' = Pending(r)
    <3>1. 0 \notin Peer
      BY ContactAssumption
    <3> QED BY <1>0, <1>4, <3>1 DEF Pending, R!Idle
  <2> QED BY <1>0, <1>k, <2>1 DEF RepInv, Counting
<1>10. Keeping'
  BY <1>0, <1>k DEF RepInv, Keeping
<1> QED BY <1>5, <1>6, <1>7, <1>8, <1>9, <1>10 DEF RepInv

LEMMA RepSave ==
  ASSUME RepInv, NEW p \in Peer, R!SaveRecord(p)
  PROVE  RepInv'
<1>0. /\ RepTypes /\ index[p] # 0
      /\ UNCHANGED <<objs, index, job, reported, db, accepted, now, wire, own, request>>
  BY DEF RepInv, R!SaveRecord, R!attVars
<1>1. PICK r \in R!ToProto(p) : saving' = saving \cup {[p |-> p, r |-> [r EXCEPT !.busy = FALSE]]}
  BY DEF R!SaveRecord
<1>2. r = objs[index[p]] /\ ~r.busy
  BY <1>1 DEF R!ToProto
<1>3. index[p] \in 1 .. Len(objs) /\ r \in RepRecord
  BY <1>0, <1>2, ObjectOf
<1>4. r.busy = FALSE
  BY <1>2, <1>3 DEF RepRecord
<1>5. [r EXCEPT !.busy = FALSE] = r
  BY <1>3, <1>4 DEF RepRecord
<1>6. Whole(r)
  BY <1>2, <1>3 DEF RepInv, RecordsWhole
<1>7. saving' = saving \cup {[p |-> p, r |-> r]}
  BY <1>1, <1>5
<1>8. RepTypes'
  BY <1>0, <1>3, <1>7 DEF RepTypes
<1>9. RecordsWhole'
  BY <1>0, <1>6, <1>7 DEF RepInv, RecordsWhole
<1>10. AttTypes' /\ WireSigned' /\ RecordsOwned' /\ Keeping'
  BY <1>0 DEF RepInv, AttTypes, WireSigned, RecordsOwned, Keeping
<1>11. Counting'
  BY <1>0 DEF RepInv, Counting, Pending
<1> QED BY <1>8, <1>9, <1>10, <1>11 DEF RepInv

\* The database is written: with a snapshot, or with nothing.
LEMMA RepStored ==
  ASSUME RepInv, NEW p \in Peer, NEW r \in RepRecord, r # R!NoRecord => Whole(r),
         db' = [db EXCEPT ![p] = r], saving' \subseteq saving,
         UNCHANGED <<objs, index, job, reported, accepted, now, wire, own, request>>
  PROVE  RepInv'
<1>1. RepTypes'
  BY DEF RepInv, RepTypes
<1>2. RecordsWhole'
  BY DEF RepInv, RecordsWhole, RepTypes
<1>3. AttTypes' /\ WireSigned' /\ RecordsOwned' /\ Keeping'
  BY DEF RepInv, AttTypes, WireSigned, RecordsOwned, Keeping
<1>4. Counting'
  BY DEF RepInv, Counting, Pending
<1> QED BY <1>1, <1>2, <1>3, <1>4 DEF RepInv

\* Steps that touch neither the tracker nor the database.
LEMMA RepAside ==
  ASSUME RepInv, AttTypes', WireSigned', UNCHANGED <<objs, index, job, reported, db, saving, accepted>>
  PROVE  RepInv'
<1>1. RepTypes'
  BY DEF RepInv, RepTypes, AttTypes
<1>2. RecordsWhole' /\ RecordsOwned' /\ Keeping'
  BY DEF RepInv, RecordsWhole, RecordsOwned, Keeping
<1>3. Counting'
  BY DEF RepInv, Counting, Pending
<1> QED BY <1>1, <1>2, <1>3 DEF RepInv

\* A signed attestation, and its encoding: the time is cut to seconds in what
\* is signed as in what is encoded.
LEMMA SignedTypes ==
  ASSUME NEW q \in Peer, NEW p \in Peer, NEW t \in Int
  PROVE  LET s == R!Signed(R!Att(q, p, t))
         IN  s \in Attestation /\ R!VerifyAttestation(s)
<1>1. t \div 2 \in Int
  OBVIOUS
<1> QED BY <1>1 DEF R!Signed, R!Att, R!Canonical, R!Unix, R!VerifyAttestation, Attestation, Canon

LEMMA Encoded ==
  ASSUME NEW s \in Attestation, R!VerifyAttestation(s)
  PROVE  LET e == R!Encode(s)
         IN  /\ e \in [c : Canon, sig : [key : Peer, of : Canon]]
             /\ e.sig = [key |-> e.c.by, of |-> e.c]
<1>1. s.att.time \div 2 \in Int
  BY DEF Attestation
<1> QED BY <1>1 DEF R!Encode, R!VerifyAttestation, R!Canonical, R!Unix, Attestation, Canon

\* What is decoded verifies, and is an attestation.
LEMMA Decoded ==
  ASSUME RepInv, NEW e \in wire
  PROVE  R!GetAttestation(e) = {R!Decode(e)} /\ R!Decode(e) \in Attestation
<1>1. e \in [c : Canon, sig : [key : Peer, of : Canon]] /\ e.sig = [key |-> e.c.by, of |-> e.c]
  BY DEF RepInv, AttTypes, WireSigned
<1>2. e.c \in Canon /\ e.c.sec \in Int /\ e.c.by \in Peer /\ e.c.about \in Peer
  BY <1>1 DEF Canon
<1>3. (2 * e.c.sec) \div 2 = e.c.sec /\ 2 * e.c.sec \in Int
  BY <1>2
<1>4. e.c = [by |-> e.c.by, about |-> e.c.about, sec |-> e.c.sec]
  BY <1>2 DEF Canon
<1>5. R!Decode(e) \in Attestation
  BY <1>1, <1>2, <1>3 DEF R!Decode, Attestation
<1>6. R!Decode(e).sig = e.sig /\ R!Decode(e).att.by = e.c.by
      /\ R!Canonical(R!Decode(e).att) = e.c
  BY <1>3, <1>4 DEF R!Decode, R!Canonical, R!Unix
<1>7. R!VerifyAttestation(R!Decode(e))
  BY <1>1, <1>6 DEF R!VerifyAttestation
<1> QED BY <1>5, <1>7 DEF R!GetAttestation

LEMMA RepPublishing == RepInv /\ R!Publishing => RepInv'
<1> SUFFICES ASSUME RepInv, R!Publishing PROVE RepInv'
  OBVIOUS
<1>0. AttTypes /\ WireSigned /\ now \in Int /\ Self \in Peer
  BY ReputationAssumption DEF RepInv, AttTypes
<1>1. ASSUME NEW p \in Peer, R!CreateAttestation(p) PROVE RepInv'
  <2>1. R!Signed(R!Att(Self, p, now)) \in Attestation
    BY <1>0, SignedTypes
  <2>2. /\ own' = own \cup {R!Signed(R!Att(Self, p, now))} /\ wire' = wire /\ now' = now
        /\ UNCHANGED <<objs, index, job, reported, db, saving, accepted>>
    BY <1>1 DEF R!CreateAttestation, R!trackVars
  <2>3. AttTypes' /\ WireSigned'
    BY <1>0, <2>1, <2>2 DEF AttTypes, WireSigned
  <2> QED BY <2>2, <2>3, RepAside
<1>2. ASSUME NEW p \in Peer, NEW q \in Peer, R!PeerPublishes(q, p) PROVE RepInv'
  <2>0. PICK s : s = R!Signed(R!Att(q, p, now))
    OBVIOUS
  <2>1. s \in Attestation /\ R!VerifyAttestation(s)
    BY <1>0, <2>0, SignedTypes
  <2>2. /\ wire' = wire \cup {R!Encode(s)} /\ own' = own /\ now' = now
        /\ UNCHANGED <<objs, index, job, reported, db, saving, accepted>>
    BY <1>2, <2>0 DEF R!PeerPublishes, R!trackVars
  <2>3. /\ R!Encode(s) \in [c : Canon, sig : [key : Peer, of : Canon]]
        /\ R!Encode(s).sig = [key |-> R!Encode(s).c.by, of |-> R!Encode(s).c]
    BY <2>1, Encoded
  <2>4. AttTypes' /\ WireSigned'
    BY <1>0, <2>2, <2>3 DEF AttTypes, WireSigned
  <2> QED BY <2>2, <2>4, RepAside
<1>3. ASSUME NEW s \in own, R!PublishAttestation(s) PROVE RepInv'
  <2>1. s \in Attestation /\ R!VerifyAttestation(s)
    BY <1>0, <1>3 DEF AttTypes, R!PublishAttestation
  <2>2. /\ wire' = wire \cup {R!Encode(s)} /\ own' = own /\ now' = now
        /\ UNCHANGED <<objs, index, job, reported, db, saving, accepted>>
    BY <1>3 DEF R!PublishAttestation, R!trackVars
  <2>3. /\ R!Encode(s) \in [c : Canon, sig : [key : Peer, of : Canon]]
        /\ R!Encode(s).sig = [key |-> R!Encode(s).c.by, of |-> R!Encode(s).c]
    BY <2>1, Encoded
  <2>4. AttTypes' /\ WireSigned'
    BY <1>0, <2>2, <2>3 DEF AttTypes, WireSigned
  <2> QED BY <2>2, <2>4, RepAside
<1>4. ASSUME R!Tick PROVE RepInv'
  <2>1. /\ now' = now + 1 /\ UNCHANGED <<wire, own>>
        /\ UNCHANGED <<objs, index, job, reported, db, saving, accepted>>
    BY <1>4 DEF R!Tick, R!trackVars, R!attVars
  <2>2. AttTypes' /\ WireSigned'
    BY <1>0, <2>1 DEF AttTypes, WireSigned
  <2> QED BY <2>1, <2>2, RepAside
<1> QED BY <1>1, <1>2, <1>3, <1>4 DEF R!Publishing

LEMMA RepRequesting == RepInv /\ R!Requesting => RepInv'
<1> SUFFICES ASSUME RepInv, R!Requesting PROVE RepInv'
  OBVIOUS
<1>1. CASE R!Publishing
  BY <1>1, RepPublishing
<1>2. CASE ~R!Publishing
  <2>1. UNCHANGED <<objs, index, job, reported, db, saving, accepted, now, wire, own>>
    BY <1>2 DEF R!Requesting, R!RequestAttestations, R!RespondToAttestationRequest, R!Listen,
                R!RequestTimeout, R!trackVars
  <2>2. AttTypes' /\ WireSigned'
    BY <2>1 DEF RepInv, AttTypes, WireSigned
  <2> QED BY <2>1, <2>2, RepAside
<1> QED BY <1>1, <1>2

LEMMA RepTracking == RepInv /\ R!Tracking => RepInv'
<1> SUFFICES ASSUME RepInv, R!Tracking PROVE RepInv'
  OBVIOUS
<1>1. ASSUME NEW w \in Worker, NEW p \in Peer, NEW e \in R!Event, R!RecordEvent(w, p, e)
      PROVE  RepInv'
  BY <1>1, RepBegin DEF R!RecordEvent, R!attVars, RepEvent
<1>2. ASSUME NEW p \in Peer, R!DeleteRecord(p) PROVE RepInv'
  <2>1. R!NoRecord \in RepRecord
    BY FreshWhole DEF R!NoRecord
  <2> QED BY <1>2, <2>1, RepStored DEF R!DeleteRecord, R!attVars
<1>3. ASSUME NEW s \in saving, R!SaveReaches(s) PROVE RepInv'
  <2>1. s.p \in Peer /\ s.r \in RepRecord /\ Whole(s.r)
    BY DEF RepInv, RepTypes, RecordsWhole
  <2> QED BY <1>3, <2>1, RepStored DEF R!SaveReaches, R!attVars
<1> QED BY <1>1, <1>2, <1>3, RepLookup, RepCreate, RepCount, RepScore, RepSave DEF R!Tracking

LEMMA RepAttesting == RepInv /\ R!Attesting => RepInv'
<1> SUFFICES ASSUME RepInv, R!Attesting PROVE RepInv'
  OBVIOUS
<1>1. ASSUME NEW w \in Worker, NEW e \in wire, R!AddAttestation(w, e) PROVE RepInv'
  <2>1. PICK s \in {R!Decode(e)} :
          /\ R!Begin(w, s.att.about, [op |-> "attest", att |-> s])
          /\ UNCHANGED <<objs, index, db, saving, accepted, now, R!attVars>>
    BY <1>1 DEF R!AddAttestation
  <2>2. s \in Attestation
    BY <2>1, Decoded
  <2>3. s.att.about \in Peer /\ [op |-> "attest", att |-> s] \in RepEvent
    BY <2>2 DEF Attestation, RepEvent
  <2> QED BY <2>1, <2>3, RepBegin DEF R!attVars
<1> QED BY <1>1, RepPublishing, RepLookup, RepCreate, RepCount, RepScore DEF R!Attesting

\* For any peers, goroutines, events and limits: no event is lost, stored
\* records are whole, the latest attestations are kept and what is published
\* verifies (GetOrCreateRecord, ToProto, AddAttestation, VerifyAttestation).
THEOREM ReputationKept == R!Spec => []ReputationSound
<1>1. RepInv /\ [R!Next]_(R!vars) => RepInv'
  <2> SUFFICES ASSUME RepInv, [R!Next]_(R!vars) PROVE RepInv'
    OBVIOUS
  <2>1. CASE UNCHANGED R!vars
    <3>1. UNCHANGED <<objs, index, job, reported, db, saving, now, wire, own, accepted, request>>
      BY <2>1 DEF R!vars
    <3>2. AttTypes' /\ WireSigned'
      BY <3>1 DEF RepInv, AttTypes, WireSigned
    <3> QED BY <3>1, <3>2, RepAside
  <2> QED BY <2>1, RepTracking, RepAttesting, RepRequesting DEF R!Next
<1>2. RepInv => ReputationSound
  <2> SUFFICES ASSUME RepInv PROVE ReputationSound
    OBVIOUS
  <2>1. R!NoEventLost
    <3> SUFFICES ASSUME NEW p \in Peer
                 PROVE  reported[p] = (IF index[p] = 0 THEN 0 ELSE objs[index[p]].events)
                                      + R!Cardinality(Pending(p))
      BY DEF R!NoEventLost, Pending
    <3>1. R!Cardinality(Pending(p)) = Cardinality(Pending(p))
      BY DEF R!Cardinality, Cardinality
    <3> QED BY <3>1 DEF RepInv, Counting
  <2>2. R!StoredRecordWhole
    <3> SUFFICES ASSUME NEW p \in Peer, db[p] # R!NoRecord
                 PROVE  db[p] = R!updateCompositeScore(db[p])
      BY DEF R!StoredRecordWhole
    <3>1. PICK r \in RepRecord : r = db[p]
      BY DEF RepInv, RepTypes
    <3>2. r.score = R!CompositeScore(r) /\ r.tier = R!TierOf(R!CompositeScore(r))
      BY <3>1 DEF RepInv, RecordsWhole, Whole
    <3>3. PICK s : s = R!CompositeScore(r)
      OBVIOUS
    <3>4. PICK t : t = R!TierOf(s)
      OBVIOUS
    <3>5. [r EXCEPT !.score = s, !.tier = t] = r
      BY <3>2, <3>3, <3>4 DEF RepRecord
    <3> QED BY <3>1, <3>3, <3>4, <3>5 DEF R!updateCompositeScore
  <2>3. R!LatestAttestationsKept
    BY DEF R!LatestAttestationsKept, RepInv, Keeping, Latest
  <2>4. R!PublishedVerifies
    BY Decoded DEF R!PublishedVerifies
  <2> QED BY <2>1, <2>2, <2>3, <2>4 DEF ReputationSound, R!ReputationSound
<1> QED BY RepInit, <1>1, <1>2, PTL DEF R!Spec

-----------------------------------------------------------------------------
(* The node.                                                               *)

Connectedness == {"connected", "limited", "notConnected"}
BusEvent == [peer : Peer, state : Connectedness]
NodeCheck ==
  [at : {"none", "reconnect", "prune"}, todo : SUBSET Peer, pruned : Nat, max : Nat,
   above : Nat, left : Nat]

NodeTypes ==
  /\ links \subseteq Peer /\ bus \in Seq(BusEvent) /\ check \in NodeCheck
  /\ peerCount \in Int /\ base \in Int
  /\ keyFile \in Int /\ misreads \in Nat /\ subscribed \in BOOLEAN

\* Every key hosts used beyond the one in the file has cost a start that could
\* not read it; while the file has none, no key is left over for the next host.
KeyKept ==
  /\ IsFiniteSet(keys)
  /\ keyFile > 0 => Cardinality(keys \cup {keyFile}) <= 1 + misreads
  /\ keyFile <= 0 => Cardinality(keys) <= misreads
  /\ stage = "writing" => keyFile <= 0
  /\ stage = "keyed" => keyFile > 0

\* The events that report connections, and those that report their end.
Waiting(b, v) == {i \in 1 .. Len(b) : b[i].state = v}
\* Events wait, and connections are counted, only while the node listens.
CountKept ==
  /\ subscribed => stage \in {"maintain", "storing", "started"}
  /\ ~subscribed => bus = <<>>
  /\ subscribed =>
       peerCount + Cardinality(Waiting(bus, "connected")) - Cardinality(Waiting(bus, "notConnected"))
         = Cardinality(links) - base

\* Connections pruned, and those that went by themselves, are those missing
\* from the number the check began with.
PruneKept ==
  /\ stage = "stopping" => ctxDone
  /\ check.at = "prune" /\ ~ctxDone =>
       /\ check.pruned <= check.max
       /\ Cardinality(links) + check.pruned + check.left > check.above

NodeInv == NodeTypes /\ KeyKept /\ CountKept /\ PruneKept

LEMMA NodeCard == ASSUME NEW S PROVE N!Cardinality(S) = Cardinality(S)
BY DEF N!Cardinality, Cardinality

LEMMA LinksFinite ==
  ASSUME NEW L, L \subseteq Peer PROVE IsFiniteSet(L) /\ Cardinality(L) \in Nat
BY NodeAssumption, FS_Subset, FS_CardinalityType

LEMMA WaitingFinite ==
  ASSUME NEW b \in Seq(BusEvent), NEW v
  PROVE  IsFiniteSet(Waiting(b, v)) /\ Cardinality(Waiting(b, v)) \in Nat
<1>1. Len(b) \in Int /\ 1 \in Int
  OBVIOUS
<1>2. IsFiniteSet(1 .. Len(b))
  BY <1>1, FS_Interval
<1>3. Waiting(b, v) \subseteq 1 .. Len(b)
  BY DEF Waiting
<1> QED BY <1>2, <1>3, FS_Subset, FS_CardinalityType

\* An event joins those of its kind ...
LEMMA WaitingAppend ==
  ASSUME NEW b \in Seq(BusEvent), NEW e \in BusEvent, NEW v
  PROVE  Cardinality(Waiting(Append(b, e), v)) =
           Cardinality(Waiting(b, v)) + IF e.state = v THEN 1 ELSE 0
<1>1. PICK n \in Nat : n = Len(b)
  OBVIOUS
<1>2. PICK c : c = Append(b, e)
  OBVIOUS
<1>3. Len(c) = n + 1 /\ c[n + 1] = e /\ \A i \in 1 .. n : c[i] = b[i]
  BY <1>1, <1>2
<1>4. Waiting(c, v) = IF e.state = v THEN Waiting(b, v) \cup {n + 1} ELSE Waiting(b, v)
  <2>1. \A i : i \in 1 .. n + 1 <=> i \in 1 .. n \/ i = n + 1
    BY <1>1
  <2> QED BY <1>1, <1>3, <2>1 DEF Waiting
<1>5. n + 1 \notin Waiting(b, v)
  BY <1>1 DEF Waiting
<1>6. /\ Cardinality(Waiting(b, v) \cup {n + 1}) = Cardinality(Waiting(b, v)) + 1
      /\ Cardinality(Waiting(b, v)) \in Nat
  BY <1>5, WaitingFinite, FS_AddElement
<1>7. CASE e.state = v
  BY <1>2, <1>4, <1>6, <1>7
<1>8. CASE e.state # v
  BY <1>2, <1>4, <1>6, <1>8
<1> QED BY <1>7, <1>8

\* ... and the first leaves them.
LEMMA WaitingTail ==
  ASSUME NEW b \in Seq(BusEvent), b # <<>>, NEW v
  PROVE  Cardinality(Waiting(b, v)) =
           Cardinality(Waiting(Tail(b), v)) + IF Head(b).state = v THEN 1 ELSE 0
<1>1. PICK n \in Nat : n = Len(Tail(b))
  OBVIOUS
<1>2. PICK c : c = Tail(b)
  OBVIOUS
<1>3. c \in Seq(BusEvent) /\ Len(c) = n /\ Len(b) = n + 1 /\ \A i \in 1 .. n : c[i] = b[i + 1]
  BY <1>1, <1>2
<1> DEFINE S == Waiting(c, v)
           Rest == Waiting(b, v) \ {1}
           f == [i \in S |-> i + 1]
<1>4. f \in [S -> Rest]
  BY <1>3 DEF Waiting
<1>5. \A i, j \in S : f[i] = f[j] => i = j
  BY <1>3 DEF Waiting
<1>6. ASSUME NEW t \in Rest PROVE \E s \in S : f[s] = t
  <2>1. t \in 1 .. n + 1 /\ t # 1 /\ b[t].state = v
    BY <1>3 DEF Waiting
  <2>2. t - 1 \in 1 .. n /\ (t - 1) + 1 = t
    BY <2>1
  <2>3. t - 1 \in S
    BY <1>3, <2>1, <2>2 DEF Waiting
  <2> QED BY <2>2, <2>3
<1>7. f \in Bijection(S, Rest)
  BY <1>4, <1>5, <1>6 DEF Bijection, Injection, Surjection, IsInjective
<1>8. IsFiniteSet(S)
  BY <1>3, WaitingFinite
<1>9. Cardinality(Rest) = Cardinality(S)
  <2>1. ExistsBijection(S, Rest)
    BY <1>7 DEF ExistsBijection
  <2> HIDE DEF S, Rest, f
  <2> QED BY <1>8, <2>1, FS_Bijection
<1>10. 1 \in Waiting(b, v) <=> Head(b).state = v
  <2>1. Head(b) = b[1] /\ 1 \in 1 .. Len(b)
    BY <1>3
  <2> QED BY <2>1 DEF Waiting
<1>11. Cardinality(Rest) = IF 1 \in Waiting(b, v) THEN Cardinality(Waiting(b, v)) - 1
                        ELSE Cardinality(Waiting(b, v))
  BY WaitingFinite, FS_RemoveElement
<1>12. Cardinality(Waiting(b, v)) \in Nat /\ Cardinality(S) \in Nat
  BY <1>3, WaitingFinite
<1> HIDE DEF S, Rest
<1>13. Cardinality(Waiting(b, v)) = Cardinality(S) + IF Head(b).state = v THEN 1 ELSE 0
  BY <1>9, <1>10, <1>11, <1>12
<1> QED BY <1>2, <1>13 DEF S

LEMMA NodeInit == N!Init => NodeInv
<1> SUFFICES ASSUME N!Init PROVE NodeInv
  OBVIOUS
<1>1. NodeTypes
  <2>1. check \in NodeCheck
    BY DEF N!Init, N!NoCheck, NodeCheck
  <2>2. subscribed \in BOOLEAN
    BY DEF N!Init
  <2>3. /\ links \subseteq Peer /\ bus \in Seq(BusEvent) /\ peerCount \in Int /\ base \in Int
        /\ keyFile \in Int /\ misreads \in Nat
    BY DEF N!Init
  <2> QED BY <2>1, <2>2, <2>3 DEF NodeTypes
<1>2. KeyKept
  BY FS_EmptySet DEF N!Init, KeyKept
<1>3. CountKept
  BY DEF N!Init, CountKept
<1>4. PruneKept
  BY DEF N!Init, PruneKept, N!NoCheck
<1> QED BY <1>1, <1>2, <1>3, <1>4 DEF NodeInv

\* Steps of a start, of main and of the background goroutines.
LEMMA NodeStill ==
  ASSUME NodeInv,
         UNCHANGED <<links, bus, check, peerCount, base, keyFile, keys, misreads, subscribed, ctxDone>>,
         \/ stage' = stage
         \/ /\ stage' \notin {"writing", "keyed", "stopping"}
            /\ subscribed => stage' \in {"maintain", "storing", "started"}
  PROVE  NodeInv'
<1>1. NodeTypes'
  BY DEF NodeInv, NodeTypes
<1>2. KeyKept'
  BY DEF NodeInv, KeyKept
<1>3. CountKept'
  BY DEF NodeInv, CountKept
<1>4. PruneKept'
  BY DEF NodeInv, PruneKept
<1> QED BY <1>1, <1>2, <1>3, <1>4 DEF NodeInv

\* The key: what is saved, and what hosts use.
LEMMA NodeKeyed ==
  ASSUME NodeInv, ~subscribed,
         UNCHANGED <<links, bus, check, peerCount, base, subscribed, ctxDone>>,
         stage' # "stopping", keyFile' \in Int, misreads' \in Nat, KeyKept'
  PROVE  NodeInv'
<1>1. NodeTypes'
  BY DEF NodeInv, NodeTypes
<1>3. CountKept'
  BY DEF NodeInv, CountKept
<1>4. PruneKept'
  BY DEF NodeInv, PruneKept
<1> QED BY <1>1, <1>3, <1>4 DEF NodeInv

\* Connections made during bootstrap, before the node listens.
LEMMA NodeBoot ==
  ASSUME NodeInv, ~subscribed, links \subseteq links', links' \subseteq Peer,
         UNCHANGED <<bus, check, peerCount, base, keyFile, keys, misreads, subscribed, ctxDone>>,
         stage' \notin {"writing", "keyed", "stopping"}
  PROVE  NodeInv'
<1>1. NodeTypes'
  BY DEF NodeInv, NodeTypes
<1>2. KeyKept'
  BY DEF NodeInv, KeyKept
<1>3. CountKept'
  BY DEF NodeInv, CountKept
<1>4. PruneKept'
  <2>1. IsFiniteSet(links') /\ Cardinality(links') \in Nat
    BY LinksFinite
  <2>2. Cardinality(links) \in Nat /\ Cardinality(links) <= Cardinality(links')
    BY <2>1, FS_Subset, FS_CardinalityType
  <2>3. check \in NodeCheck
    BY DEF NodeInv, NodeTypes
  <2>4. check.pruned \in Nat /\ check.left \in Nat /\ check.above \in Nat
    BY <2>3 DEF NodeCheck
  <2> QED BY <2>1, <2>2, <2>4 DEF NodeInv, PruneKept
<1> QED BY <1>1, <1>2, <1>3, <1>4 DEF NodeInv

\* A change of connectedness and its event: the count is short by as much as
\* before if what the event will add is what the change added.
LEMMA Reported ==
  ASSUME NodeInv, NEW p \in Peer, NEW s \in Connectedness, N!Report(p, s),
         UNCHANGED <<stage, peerCount, subscribed>>, links' \subseteq Peer, base' \in Int,
         Cardinality(links') - base' = Cardinality(links) - base
           + IF s = "connected" THEN 1 ELSE IF s = "notConnected" THEN -1 ELSE 0
  PROVE  bus' \in Seq(BusEvent) /\ CountKept'
<1>0. links \subseteq Peer /\ bus \in Seq(BusEvent) /\ peerCount \in Int /\ base \in Int
      /\ subscribed \in BOOLEAN
  BY DEF NodeInv, NodeTypes
<1>1. PICK e \in BusEvent : e = [peer |-> p, state |-> s]
  BY DEF BusEvent
<1>2. e.state = s /\ bus' = IF subscribed THEN Append(bus, e) ELSE bus
  BY <1>1 DEF N!Report
<1>3. bus' \in Seq(BusEvent)
  BY <1>0, <1>2
<1>4. CASE subscribed
  <2>1. PICK x \in Nat, y \in Nat, u \in Nat, v \in Nat :
          /\ x = Cardinality(Waiting(bus, "connected"))
          /\ y = Cardinality(Waiting(bus, "notConnected"))
          /\ u = Cardinality(Waiting(bus', "connected"))
          /\ v = Cardinality(Waiting(bus', "notConnected"))
    BY <1>0, <1>3, WaitingFinite
  <2>2. /\ u = x + IF s = "connected" THEN 1 ELSE 0
        /\ v = y + IF s = "notConnected" THEN 1 ELSE 0
    BY <1>0, <1>2, <1>4, <2>1, WaitingAppend
  <2>3. PICK l \in Nat, m \in Nat : l = Cardinality(links) /\ m = Cardinality(links')
    BY <1>0, LinksFinite
  <2>4. peerCount + x - y = l - base
    BY <1>4, <2>1, <2>3 DEF NodeInv, CountKept
  <2>5. m - base' = l - base + IF s = "connected" THEN 1 ELSE IF s = "notConnected" THEN -1 ELSE 0
    BY <2>3
  <2>6. peerCount + u - v = m - base'
    <3>0. PICK n \in Int, o \in Int, k \in Int : n = base' /\ o = base /\ k = peerCount
      BY <1>0
    <3>1. CASE s = "connected"
      <4>1. u = x + 1 /\ v = y + 0 /\ m - n = l - o + 1 /\ k + x - y = l - o
        BY <2>2, <2>4, <2>5, <3>0, <3>1
      <4>2. k + u - v = m - n
        BY <4>1
      <4> QED BY <3>0, <4>2
    <3>2. CASE s = "notConnected"
      <4>1. u = x + 0 /\ v = y + 1 /\ m - n = l - o + (-1) /\ k + x - y = l - o
        BY <2>2, <2>4, <2>5, <3>0, <3>2
      <4>2. k + u - v = m - n
        BY <4>1
      <4> QED BY <3>0, <4>2
    <3>3. CASE s = "limited"
      <4>1. u = x + 0 /\ v = y + 0 /\ m - n = l - o + 0 /\ k + x - y = l - o
        BY <2>2, <2>4, <2>5, <3>0, <3>3
      <4>2. k + u - v = m - n
        BY <4>1
      <4> QED BY <3>0, <4>2
    <3> QED BY <3>1, <3>2, <3>3 DEF Connectedness
  <2>7. CountKept'
    BY <1>4, <2>1, <2>3, <2>6 DEF NodeInv, CountKept
  <2> QED BY <1>3, <2>7
<1>5. CASE ~subscribed
  <2>1. CountKept'
    BY <1>2, <1>5 DEF NodeInv, CountKept
  <2> QED BY <1>3, <2>1
<1> QED BY <1>4, <1>5

\* A connection is made, directly or through a relay, or falls back to one.
LEMMA LinkKept ==
  ASSUME NodeInv, NEW p \in Peer, N!Link(p) \/ N!LinkRelayed(p) \/ N!FallBack(p),
         UNCHANGED <<stage, peerCount, subscribed>>
  PROVE  /\ links' \subseteq Peer /\ bus' \in Seq(BusEvent) /\ base' \in Int /\ CountKept'
         /\ Cardinality(links') >= Cardinality(links)
<1>0. links \subseteq Peer /\ base \in Int
  BY DEF NodeInv, NodeTypes
<1>1. IsFiniteSet(links) /\ Cardinality(links) \in Nat
  BY <1>0, LinksFinite
<1>2. p \notin links => Cardinality(links \cup {p}) = Cardinality(links) + 1
  BY <1>1, FS_AddElement
<1>3. {"connected", "limited", "notConnected"} = Connectedness
  BY DEF Connectedness
<1>4. CASE N!Link(p)
  <2>1. /\ links' = links \cup {p} /\ base' = IF p \in links THEN base - 1 ELSE base
        /\ N!Report(p, "connected")
    BY <1>4 DEF N!Link
  <2>2. links' \subseteq Peer /\ base' \in Int
    BY <1>0, <2>1
  <2>3. CASE p \in links
    <3>1. links' = links /\ base' = base - 1
      BY <2>1, <2>3
    <3>2. Cardinality(links') - base' = Cardinality(links) - base + 1
      BY <1>0, <1>1, <3>1
    <3>3. bus' \in Seq(BusEvent) /\ CountKept'
      BY <1>3, <2>1, <2>2, <3>2, Reported
    <3> QED BY <1>1, <2>2, <3>1, <3>3
  <2>4. CASE p \notin links
    <3>1. Cardinality(links') = Cardinality(links) + 1 /\ base' = base
      BY <1>2, <2>1, <2>4
    <3>2. Cardinality(links') - base' = Cardinality(links) - base + 1
      BY <1>0, <1>1, <3>1
    <3>3. bus' \in Seq(BusEvent) /\ CountKept'
      BY <1>3, <2>1, <2>2, <3>2, Reported
    <3> QED BY <1>1, <2>2, <3>1, <3>3
  <2> QED BY <2>3, <2>4
<1>5. CASE N!LinkRelayed(p)
  <2>1. /\ p \notin links /\ links' = links \cup {p} /\ base' = base + 1
        /\ N!Report(p, "limited")
    BY <1>5 DEF N!LinkRelayed
  <2>2. links' \subseteq Peer /\ base' \in Int
    BY <1>0, <2>1
  <2>3. Cardinality(links') = Cardinality(links) + 1
    BY <1>2, <2>1
  <2>4. Cardinality(links') - base' = Cardinality(links) - base + 0
    BY <1>0, <1>1, <2>1, <2>3
  <2>5. bus' \in Seq(BusEvent) /\ CountKept'
    BY <1>3, <2>1, <2>2, <2>4, Reported
  <2> QED BY <1>1, <2>2, <2>3, <2>5
<1>6. CASE N!FallBack(p)
  <2>1. links' = links /\ base' = base /\ N!Report(p, "limited")
    BY <1>6 DEF N!FallBack
  <2>2. Cardinality(links') - base' = Cardinality(links) - base + 0
    BY <1>0, <1>1, <2>1
  <2>3. bus' \in Seq(BusEvent) /\ CountKept'
    BY <1>0, <1>3, <2>1, <2>2, Reported
  <2> QED BY <1>0, <1>1, <2>1, <2>3
<1> QED BY <1>4, <1>5, <1>6

\* The last connection of a peer ends.
LEMMA UnlinkKept ==
  ASSUME NodeInv, NEW p \in Peer, N!Unlink(p), UNCHANGED <<stage, peerCount, subscribed>>
  PROVE  /\ links' \subseteq Peer /\ bus' \in Seq(BusEvent) /\ base' \in Int /\ CountKept'
         /\ Cardinality(links') = Cardinality(links) - 1
<1>0. links \subseteq Peer /\ base \in Int
  BY DEF NodeInv, NodeTypes
<1>1. /\ links' = links \ {p} /\ p \in links /\ base' = base /\ N!Report(p, "notConnected")
  BY DEF N!Unlink
<1>2. IsFiniteSet(links) /\ Cardinality(links) \in Nat
  BY <1>0, LinksFinite
<1>3. Cardinality(links') = Cardinality(links) - 1
  BY <1>1, <1>2, FS_RemoveElement
<1>4. Cardinality(links') - base' = Cardinality(links) - base + (-1)
  BY <1>0, <1>1, <1>2, <1>3
<1>5. links' \subseteq Peer /\ base' \in Int /\ "notConnected" \in Connectedness
  BY <1>0, <1>1 DEF Connectedness
<1>6. bus' \in Seq(BusEvent) /\ CountKept'
  BY <1>1, <1>4, <1>5, Reported
<1> QED BY <1>3, <1>5, <1>6

\* HandlePeerEvent: what the event stands for goes over to the count.
LEMMA NodeEvent ==
  ASSUME NodeInv, N!HandlePeerEvent PROVE NodeInv'
<1>0. /\ links \subseteq Peer /\ bus \in Seq(BusEvent) /\ bus # <<>> /\ peerCount \in Int
      /\ base \in Int /\ subscribed
      /\ UNCHANGED <<links, check, base, keyFile, keys, misreads, subscribed, ctxDone, stage>>
  BY DEF NodeInv, NodeTypes, N!HandlePeerEvent, N!startVars
<1>1. /\ bus' = Tail(bus)
      /\ \/ Head(bus).state = "connected" /\ peerCount' = peerCount + 1
         \/ Head(bus).state = "notConnected" /\ peerCount' = peerCount - 1
         \/ Head(bus).state = "limited" /\ peerCount' = peerCount
  BY DEF N!HandlePeerEvent
<1>2. bus' \in Seq(BusEvent)
  BY <1>0, <1>1
<1>4. PICK a \in Nat, b \in Nat, c \in Nat, d \in Nat :
        /\ a = Cardinality(Waiting(bus, "connected")) /\ b = Cardinality(Waiting(bus, "notConnected"))
        /\ c = Cardinality(Waiting(bus', "connected")) /\ d = Cardinality(Waiting(bus', "notConnected"))
  BY <1>0, <1>2, WaitingFinite
<1>5. /\ a = c + (IF Head(bus).state = "connected" THEN 1 ELSE 0)
      /\ b = d + (IF Head(bus).state = "notConnected" THEN 1 ELSE 0)
  BY <1>0, <1>1, <1>4, WaitingTail
<1>6. peerCount + a - b = Cardinality(links) - base
  BY <1>0, <1>4 DEF NodeInv, CountKept
<1>7. peerCount' \in Int
  BY <1>0, <1>1
<1>8. peerCount' + c - d = peerCount + a - b
  <2>1. CASE Head(bus).state = "connected"
    <3>1. a = c + 1 /\ b = d + 0
      BY <1>5, <2>1
    <3> QED BY <1>0, <1>1, <2>1, <3>1
  <2>2. CASE Head(bus).state = "notConnected"
    <3>1. a = c + 0 /\ b = d + 1
      BY <1>5, <2>2
    <3> QED BY <1>0, <1>1, <2>2, <3>1
  <2>3. CASE Head(bus).state = "limited"
    <3>1. a = c + 0 /\ b = d + 0
      BY <1>5, <2>3
    <3> QED BY <1>0, <1>1, <2>3, <3>1
  <2> QED BY <1>1, <2>1, <2>2, <2>3
<1>9. CountKept'
  BY <1>0, <1>4, <1>6, <1>8 DEF NodeInv, CountKept
<1>10. NodeTypes'
  BY <1>0, <1>2, <1>7 DEF NodeInv, NodeTypes
<1>11. KeyKept' /\ PruneKept'
  BY <1>0 DEF NodeInv, KeyKept, PruneKept
<1> QED BY <1>9, <1>10, <1>11 DEF NodeInv

LEMMA CheckFields ==
  ASSUME NodeInv
  PROVE  /\ check \in NodeCheck /\ check.pruned \in Nat /\ check.left \in Nat
         /\ check.above \in Nat /\ check.max \in Nat /\ check.todo \subseteq Peer
         /\ links \subseteq Peer /\ Cardinality(links) \in Nat
<1>1. check \in NodeCheck /\ links \subseteq Peer
  BY DEF NodeInv, NodeTypes
<1> QED BY <1>1, LinksFinite DEF NodeCheck

\* Connections come and go by themselves.
LEMMA NodeChurn ==
  ASSUME NodeInv, NEW p \in Peer, N!PeerLinks(p) \/ N!PeerLeaves(p)
  PROVE  NodeInv'
<1>f. /\ check \in NodeCheck /\ check.pruned \in Nat /\ check.left \in Nat
      /\ check.above \in Nat /\ Cardinality(links) \in Nat
  BY CheckFields
<1>1. CASE N!PeerLinks(p)
  <2>0. /\ N!Link(p) \/ N!LinkRelayed(p) \/ N!FallBack(p)
        /\ UNCHANGED <<stage, peerCount, subscribed, check, keyFile, keys, misreads, ctxDone>>
    BY <1>1 DEF N!PeerLinks, N!startVars
  <2>1. /\ links' \subseteq Peer /\ bus' \in Seq(BusEvent) /\ base' \in Int /\ CountKept'
        /\ Cardinality(links') >= Cardinality(links)
    BY <2>0, LinkKept
  <2>2. NodeTypes'
    BY <2>0, <2>1 DEF NodeInv, NodeTypes
  <2>3. KeyKept'
    BY <2>0 DEF NodeInv, KeyKept
  <2>4. ASSUME check.at = "prune", ~ctxDone
        PROVE  check.pruned <= check.max /\ Cardinality(links') + check.pruned + check.left > check.above
    <3>1. check.pruned <= check.max /\ Cardinality(links) + check.pruned + check.left > check.above
      BY <2>4 DEF NodeInv, PruneKept
    <3>3. PICK a \in Nat, b \in Nat, c \in Nat, m \in Nat :
            /\ a = check.pruned /\ b = check.left /\ c = check.above /\ m = Cardinality(links)
      BY <1>f
    <3>4. PICK k \in Nat : k = Cardinality(links')
      BY <2>1, LinksFinite
    <3>5. m + a + b > c /\ k >= m
      BY <2>1, <3>1, <3>3, <3>4
    <3>6. k + a + b > c
      BY ONLY <3>5, a \in Nat, b \in Nat, c \in Nat, m \in Nat, k \in Nat
    <3> QED BY <3>1, <3>3, <3>4, <3>6
  <2>5. PruneKept'
    BY <2>0, <2>4 DEF NodeInv, PruneKept
  <2> QED BY <2>1, <2>2, <2>3, <2>5 DEF NodeInv
<1>2. CASE N!PeerLeaves(p)
  <2>0. N!Unlink(p) /\ UNCHANGED <<stage, peerCount, subscribed, keyFile, keys, misreads, ctxDone>>
    BY <1>2 DEF N!PeerLeaves, N!startVars
  <2>1. /\ links' \subseteq Peer /\ bus' \in Seq(BusEvent) /\ base' \in Int /\ CountKept'
        /\ Cardinality(links') = Cardinality(links) - 1
    BY <2>0, UnlinkKept
  <2>2. PICK n \in Nat : n = IF check.at = "prune" THEN check.left + 1 ELSE check.left
    BY <1>f
  <2>3. check' = [check EXCEPT !.left = n]
    BY <1>2, <2>2 DEF N!PeerLeaves
  <2>4. /\ check' \in NodeCheck /\ check'.at = check.at /\ check'.pruned = check.pruned
        /\ check'.left = n /\ check'.above = check.above /\ check'.max = check.max
    BY <2>3, <1>f DEF NodeCheck
  <2>5. NodeTypes'
    BY <2>0, <2>1, <2>4 DEF NodeInv, NodeTypes
  <2>6. KeyKept'
    BY <2>0 DEF NodeInv, KeyKept
  <2>7. ASSUME check.at = "prune", ~ctxDone
        PROVE  /\ check'.pruned <= check'.max
               /\ Cardinality(links') + check'.pruned + check'.left > check'.above
    <3>1. /\ check.pruned <= check.max
          /\ Cardinality(links) + check.pruned + check.left > check.above
      BY <2>7 DEF NodeInv, PruneKept
    <3>2. n = check.left + 1
      BY <2>2, <2>7
    <3>3. PICK a \in Nat, b \in Nat, c \in Nat, m \in Nat :
            /\ a = check.pruned /\ b = check.left /\ c = check.above /\ m = Cardinality(links)
      BY <1>f
    <3>4. m + a + b > c /\ Cardinality(links') = m - 1 /\ n = b + 1
      BY <2>1, <3>1, <3>2, <3>3
    <3>5. Cardinality(links') + a + n > c
      BY ONLY <3>4, a \in Nat, b \in Nat, c \in Nat, m \in Nat
    <3> QED BY <2>4, <3>1, <3>3, <3>5
  <2>8. PruneKept'
    BY <2>0, <2>4, <2>7 DEF NodeInv, PruneKept
  <2> QED BY <2>1, <2>5, <2>6, <2>8 DEF NodeInv
<1> QED BY <1>1, <1>2

\* A health check begins, with the number of connections there are.
LEMMA NodeCheckBegins ==
  ASSUME NodeInv, N!performHealthCheck PROVE NodeInv'
<1>0. UNCHANGED <<links, bus, peerCount, base, keyFile, keys, misreads, subscribed, ctxDone, stage>>
  BY Zenon DEF N!performHealthCheck, N!startVars, N!eventVars, N!linkVars
<1>f. links \subseteq Peer /\ Cardinality(links) \in Nat
  BY CheckFields
<1>1. PICK n \in Nat : n = Cardinality(links)
  BY <1>f
<1> DEFINE ToppedUp == \E S \in SUBSET N!getLowScorePeers(40) :
             check' = [N!NoCheck EXCEPT !.at = "reconnect", !.todo = S]
           Pruned(x) ==
             check' = [at |-> "prune", todo |-> N!getLowScorePeers(PruneLevels[x].score), pruned |-> 0,
                       max |-> PruneLevels[x].max, above |-> PruneLevels[x].above, left |-> 0]
<1>2. ToppedUp \/ check' = N!NoCheck \/ \E x \in N!Level(n) : Pruned(x)
  <2>1. N!Cardinality(links) = n
    BY <1>1, NodeCard
  <2>2. CASE n < FewPeers
    <3>1. ToppedUp
      BY <2>1, <2>2, Zenon DEF N!performHealthCheck
    <3> HIDE DEF ToppedUp
    <3> QED BY <3>1
  <2>3. CASE ~(n < FewPeers) /\ N!Level(n) = {}
    <3>1. check' = N!NoCheck
      BY <2>1, <2>3, Zenon DEF N!performHealthCheck
    <3> QED BY <3>1
  <2>4. CASE ~(n < FewPeers) /\ N!Level(n) # {}
    <3>1. PICK x \in N!Level(n) : x = CHOOSE y \in N!Level(n) : TRUE
      BY <2>4
    <3>2. Pruned(x)
      BY <2>1, <2>4, <3>1, Zenon DEF N!performHealthCheck
    <3> HIDE DEF ToppedUp, Pruned
    <3> QED BY <3>2
  <2> HIDE DEF ToppedUp, Pruned
  <2> QED BY <2>2, <2>3, <2>4
<1>3. N!NoCheck \in NodeCheck /\ N!NoCheck.at = "none"
  BY DEF N!NoCheck, NodeCheck
<1>4. ASSUME NEW S \in SUBSET N!getLowScorePeers(40),
             check' = [N!NoCheck EXCEPT !.at = "reconnect", !.todo = S]
      PROVE  NodeInv'
  <2>1. S \subseteq Peer
    BY DEF N!getLowScorePeers
  <2>2. check' \in NodeCheck /\ check'.at = "reconnect"
    BY <1>3, <1>4, <2>1 DEF NodeCheck
  <2>3. NodeTypes'
    BY <1>0, <2>2 DEF NodeInv, NodeTypes
  <2>4. KeyKept' /\ CountKept' /\ PruneKept'
    BY <1>0, <2>2 DEF NodeInv, KeyKept, CountKept, PruneKept
  <2> QED BY <2>3, <2>4 DEF NodeInv
<1>5. CASE check' = N!NoCheck
  <2>1. NodeTypes'
    BY <1>0, <1>3, <1>5 DEF NodeInv, NodeTypes
  <2>2. KeyKept' /\ CountKept' /\ PruneKept'
    BY <1>0, <1>3, <1>5 DEF NodeInv, KeyKept, CountKept, PruneKept
  <2> QED BY <2>1, <2>2 DEF NodeInv
<1>6. ASSUME NEW x \in N!Level(n),
             check' = [at |-> "prune", todo |-> N!getLowScorePeers(PruneLevels[x].score), pruned |-> 0,
                       max |-> PruneLevels[x].max, above |-> PruneLevels[x].above, left |-> 0]
      PROVE  NodeInv'
  <2>1. x \in DOMAIN PruneLevels /\ n > PruneLevels[x].above
    BY DEF N!Level
  <2>2. PruneLevels[x] \in [above : Nat, score : Int, max : Nat]
    <3>1. PruneLevels \in Seq([above : Nat, score : Int, max : Nat])
      BY NodeAssumption
    <3>2. PICK B : B = [above : Nat, score : Int, max : Nat]
      OBVIOUS
    <3>3. PruneLevels \in Seq(B) => PruneLevels[x] \in B
      BY <2>1
    <3> QED BY <3>1, <3>2, <3>3
  <2>3. PICK l \in [above : Nat, score : Int, max : Nat] : l = PruneLevels[x]
    BY <2>2
  <2>4. PICK t \in SUBSET Peer : t = N!getLowScorePeers(l.score)
    BY DEF N!getLowScorePeers
  <2>5. check' = [at |-> "prune", todo |-> t, pruned |-> 0, max |-> l.max, above |-> l.above, left |-> 0]
    BY <1>6, <2>3, <2>4
  <2>6. l.above \in Nat /\ l.max \in Nat
    OBVIOUS
  <2>7. /\ check' \in NodeCheck /\ check'.pruned = 0 /\ check'.left = 0 /\ check'.above = l.above
        /\ check'.max = l.max
    BY <2>5, <2>6 DEF NodeCheck
  <2>8. NodeTypes'
    BY <1>0, <2>7 DEF NodeInv, NodeTypes
  <2>9. KeyKept' /\ CountKept'
    BY <1>0 DEF NodeInv, KeyKept, CountKept
  <2>10. /\ check'.pruned <= check'.max
         /\ Cardinality(links) + check'.pruned + check'.left > check'.above
    BY <1>1, <2>1, <2>3, <2>6, <2>7
  <2>11. PruneKept'
    BY <1>0, <2>10 DEF NodeInv, PruneKept
  <2> QED BY <2>8, <2>9, <2>11 DEF NodeInv
<1>7. ToppedUp => NodeInv'
  BY <1>4, Zenon
<1>8. (\E x \in N!Level(n) : Pruned(x)) => NodeInv'
  BY <1>6, Zenon
<1> HIDE DEF ToppedUp, Pruned
<1> QED BY <1>2, <1>5, <1>7, <1>8

\* One peer of a health check: a connection made, or closed within the quota.
LEMMA NodeChecks ==
  ASSUME NodeInv, NEW p \in Peer, N!reconnectToLowScorePeers(p) \/ N!ClosePeer(p)
  PROVE  NodeInv'
<1>f. /\ check \in NodeCheck /\ check.pruned \in Nat /\ check.left \in Nat /\ check.max \in Nat
      /\ check.above \in Nat /\ check.todo \subseteq Peer /\ Cardinality(links) \in Nat
      /\ links \subseteq Peer
  BY CheckFields
<1>1. CASE N!reconnectToLowScorePeers(p)
  <2>0. /\ UNCHANGED <<stage, peerCount, subscribed, keyFile, keys, misreads, ctxDone>>
        /\ check.at = "reconnect" /\ check' = [check EXCEPT !.todo = @ \ {p}]
        /\ N!Link(p) \/ UNCHANGED <<links, bus, base>>
    BY <1>1 DEF N!reconnectToLowScorePeers, N!startVars, N!linkVars
  <2>1. check' \in NodeCheck /\ check'.at = "reconnect"
    BY <2>0, <1>f DEF NodeCheck
  <2>2. links' \subseteq Peer /\ bus' \in Seq(BusEvent) /\ base' \in Int /\ CountKept'
    <3>1. CASE N!Link(p)
      BY <2>0, <3>1, LinkKept
    <3>2. CASE UNCHANGED <<links, bus, base>>
      BY <2>0, <3>2 DEF NodeInv, NodeTypes, CountKept
    <3> QED BY <2>0, <3>1, <3>2
  <2>3. NodeTypes'
    BY <2>0, <2>1, <2>2 DEF NodeInv, NodeTypes
  <2>4. KeyKept' /\ PruneKept'
    BY <2>0, <2>1 DEF NodeInv, KeyKept, PruneKept
  <2> QED BY <2>2, <2>3, <2>4 DEF NodeInv
<1>2. CASE N!ClosePeer(p)
  <2>0. /\ UNCHANGED <<stage, peerCount, subscribed, keyFile, keys, misreads, ctxDone>>
        /\ check.at = "prune" /\ check.pruned < check.max
        /\ \/ /\ N!Unlink(p) \/ UNCHANGED <<links, bus, base>>
              /\ check' = [check EXCEPT !.todo = @ \ {p}, !.pruned = @ + 1]
           \/ check' = [check EXCEPT !.todo = @ \ {p}] /\ UNCHANGED <<links, bus, base>>
    BY <1>2 DEF N!ClosePeer, N!startVars, N!linkVars
  <2>k. KeyKept'
    BY <2>0 DEF NodeInv, KeyKept
  <2>1. CASE /\ N!Unlink(p) \/ UNCHANGED <<links, bus, base>>
             /\ check' = [check EXCEPT !.todo = @ \ {p}, !.pruned = @ + 1]
    <3>1. /\ links' \subseteq Peer /\ bus' \in Seq(BusEvent) /\ base' \in Int /\ CountKept'
          /\ Cardinality(links') \in {Cardinality(links) - 1, Cardinality(links)}
      <4>1. CASE N!Unlink(p)
        BY <2>0, <4>1, UnlinkKept
      <4>2. CASE UNCHANGED <<links, bus, base>>
        BY <2>0, <4>2 DEF NodeInv, NodeTypes, CountKept
      <4> QED BY <2>1, <4>1, <4>2
    <3>2. PICK n \in Nat : n = check.pruned + 1
      BY <1>f
    <3>3. PICK t \in SUBSET Peer : t = check.todo \ {p}
      BY <1>f
    <3>4. check' = [check EXCEPT !.todo = t, !.pruned = n]
      BY <2>1, <3>2, <3>3, <1>f DEF NodeCheck
    <3>5. /\ check' \in NodeCheck /\ check'.pruned = n /\ check'.left = check.left
          /\ check'.above = check.above /\ check'.max = check.max
      BY <3>4, <1>f DEF NodeCheck
    <3>6. NodeTypes'
      BY <2>0, <3>1, <3>5 DEF NodeInv, NodeTypes
    <3>7. ASSUME ~ctxDone
          PROVE  /\ check'.pruned <= check'.max
                 /\ Cardinality(links') + check'.pruned + check'.left > check'.above
      <4>1. Cardinality(links) + check.pruned + check.left > check.above
        BY <2>0, <3>7 DEF NodeInv, PruneKept
      <4>2. PICK a \in Nat, b \in Nat, c \in Nat, m \in Nat, x \in Nat :
              /\ a = check.pruned /\ b = check.left /\ c = check.above /\ m = Cardinality(links)
              /\ x = check.max
        BY <1>f
      <4>3. PICK k \in Nat : k = Cardinality(links')
        BY <3>1, LinksFinite
      <4>4. k \in {m - 1, m} /\ n = a + 1 /\ a < x /\ m + a + b > c
        BY <2>0, <3>1, <3>2, <4>1, <4>2, <4>3
      <4>5. n <= x /\ k + n + b > c
        BY <4>4
      <4> QED BY <3>5, <4>2, <4>3, <4>5
    <3>8. PruneKept'
      BY <2>0, <3>7 DEF NodeInv, PruneKept
    <3> QED BY <2>k, <3>1, <3>6, <3>8 DEF NodeInv
  <2>2. CASE check' = [check EXCEPT !.todo = @ \ {p}] /\ UNCHANGED <<links, bus, base>>
    <3>1. /\ check' \in NodeCheck /\ check'.pruned = check.pruned /\ check'.left = check.left
          /\ check'.above = check.above /\ check'.max = check.max /\ check'.at = check.at
      BY <2>2, <1>f DEF NodeCheck
    <3>2. NodeTypes'
      BY <2>0, <2>2, <3>1 DEF NodeInv, NodeTypes
    <3>3. CountKept' /\ PruneKept'
      BY <2>0, <2>2, <3>1 DEF NodeInv, CountKept, PruneKept
    <3> QED BY <2>k, <3>2, <3>3 DEF NodeInv
  <2> QED BY <2>0, <2>1, <2>2
<1> QED BY <1>1, <1>2

LEMMA NodeStarts ==
  ASSUME NodeInv, N!loadOrGeneratePeerKey \/ N!Start \/ N!StartFails
  PROVE  NodeInv'
<1>0. /\ keyFile \in Int /\ links \subseteq Peer
      /\ subscribed => stage \in {"maintain", "storing", "started"}
  BY DEF NodeInv, NodeTypes, CountKept
<1>k. IsFiniteSet(keys) /\ Cardinality(keys) \in Nat /\ misreads \in Nat
  BY FS_CardinalityType DEF NodeInv, NodeTypes, KeyKept
<1>1. CASE N!loadOrGeneratePeerKey
  <2>1. /\ ~subscribed /\ keys' = keys /\ stage' \in {"keyed", "writing"} /\ keyFile' \in Int
        /\ UNCHANGED <<links, bus, check, peerCount, base, subscribed, ctxDone>>
    BY <1>0, <1>1 DEF N!loadOrGeneratePeerKey, N!Unstarted, N!linkVars
  <2>2. KeyKept' /\ misreads' \in Nat
    <3>1. CASE keyFile > 0 /\ stage' = "keyed" /\ UNCHANGED <<keyFile, misreads>>
      BY <1>k, <2>1, <3>1 DEF NodeInv, KeyKept
    <3>2. CASE keyFile > 0 /\ stage' = "writing" /\ keyFile' = -1 /\ misreads' = misreads + 1
      <4>1. Cardinality(keys \cup {keyFile}) <= 1 + misreads
        BY <3>2 DEF NodeInv, KeyKept
      <4>2. /\ Cardinality(keys \cup {keyFile}) \in Nat
            /\ Cardinality(keys) <= Cardinality(keys \cup {keyFile})
        <5>1. IsFiniteSet(keys \cup {keyFile})
          BY <1>k, FS_AddElement
        <5> QED BY <5>1, FS_CardinalityType, FS_Subset
      <4>3. Cardinality(keys) <= misreads + 1
        BY <1>k, <4>1, <4>2
      <4> QED BY <1>k, <2>1, <3>2, <4>3 DEF KeyKept
    <3>3. CASE keyFile <= 0 /\ stage' = "writing" /\ keyFile' = -1 /\ UNCHANGED misreads
      BY <1>k, <2>1, <3>3 DEF NodeInv, KeyKept
    <3> QED BY <1>1, <3>1, <3>2, <3>3 DEF N!loadOrGeneratePeerKey
  <2> QED BY <2>1, <2>2, NodeKeyed
<1>2. CASE N!SaveKey
  <2>1. PICK k \in 1 .. MaxKeys \ keys : keyFile' = k
    BY <1>2 DEF N!SaveKey
  <2>2. k \in Int /\ k > 0 /\ k \notin keys
    OBVIOUS
  <2>3. /\ ~subscribed /\ keys' = keys /\ stage' = "keyed" /\ stage = "writing" /\ misreads' = misreads
        /\ UNCHANGED <<links, bus, check, peerCount, base, subscribed, ctxDone>>
    BY <1>0, <1>2 DEF N!SaveKey, N!Unstarted, N!linkVars
  <2>4. Cardinality(keys \cup {k}) = Cardinality(keys) + 1
    BY <1>k, <2>2, FS_AddElement
  <2>5. Cardinality(keys) <= misreads
    BY <1>0, <2>3 DEF NodeInv, KeyKept
  <2>6. KeyKept'
    BY <1>k, <2>1, <2>2, <2>3, <2>4, <2>5 DEF KeyKept
  <2> QED BY <1>k, <2>1, <2>2, <2>3, <2>6, NodeKeyed
<1>3. CASE N!NewHost
  <2>1. /\ ~subscribed /\ keys' = keys \cup {keyFile} /\ keyFile' = keyFile /\ stage = "keyed"
        /\ stage' = "stored" /\ misreads' = misreads
        /\ UNCHANGED <<links, bus, check, peerCount, base, subscribed, ctxDone>>
    BY <1>0, <1>3 DEF N!NewHost, N!Unstarted, N!linkVars
  <2>2. IsFiniteSet(keys') /\ keys' \cup {keyFile} = keys \cup {keyFile}
    BY <1>k, <2>1, FS_AddElement
  <2>3. keyFile > 0 /\ Cardinality(keys \cup {keyFile}) <= 1 + misreads
    BY <2>1 DEF NodeInv, KeyKept
  <2>4. KeyKept'
    BY <1>0, <2>1, <2>2, <2>3 DEF KeyKept
  <2> QED BY <1>0, <1>k, <2>1, <2>4, NodeKeyed
<1>4. CASE N!BootstrapStored
  <2>1. /\ ~subscribed /\ stage' = "configured"
        /\ UNCHANGED <<bus, check, peerCount, base, keyFile, keys, misreads, subscribed, ctxDone>>
    BY <1>0, <1>4 DEF N!BootstrapStored, N!Unstarted, N!startVars
  <2>2. links \subseteq links' /\ links' \subseteq Peer
    BY <1>0, <1>4 DEF N!BootstrapStored, N!connectToPeersParallel
  <2> QED BY <2>1, <2>2, NodeBoot
<1>5. CASE N!BootstrapConfig
  <2>1. /\ ~subscribed /\ stage' = "advertise"
        /\ UNCHANGED <<bus, check, peerCount, base, keyFile, keys, misreads, subscribed, ctxDone>>
    BY <1>0, <1>5 DEF N!BootstrapConfig, N!Unstarted, N!startVars
  <2>2. links' = links \/ \E S \in SUBSET BootstrapPeers : links' = links \cup S
    BY <1>5 DEF N!BootstrapConfig
  <2>3. links \subseteq links' /\ links' \subseteq Peer
    BY <1>0, <2>2, NodeAssumption
  <2> QED BY <2>1, <2>3, NodeBoot
<1>6. CASE N!verifyBootstrapPeers
  <2>1. UNCHANGED <<links, bus, check, peerCount, base, keyFile, keys, misreads, subscribed, ctxDone>>
        /\ stage = "advertise" /\ stage' = "subscribe"
    BY <1>6, Zenon DEF N!verifyBootstrapPeers, N!startVars, N!linkVars
  <2>2. ~subscribed
    BY <1>0, <2>1
  <2> QED BY <2>1, <2>2, NodeStill
<1>7. CASE N!subscribePeerEvents
  <2>1. /\ ~subscribed /\ stage' = "maintain" /\ subscribed' = TRUE
        /\ base' = N!Cardinality(links) - peerCount
        /\ UNCHANGED <<links, bus, check, peerCount, keyFile, keys, misreads, ctxDone>>
    BY <1>0, <1>7 DEF N!subscribePeerEvents, N!startVars
  <2>2. bus = <<>> /\ peerCount \in Int
    BY <2>1 DEF NodeInv, NodeTypes, CountKept
  <2>3. PICK n \in Nat : n = Cardinality(links)
    BY <1>0, LinksFinite
  <2>4. base' = n - peerCount
    BY <2>1, <2>3, NodeCard
  <2>5. Waiting(bus, "connected") = {} /\ Waiting(bus, "notConnected") = {}
    BY <2>2 DEF Waiting
  <2>6. Cardinality(Waiting(bus', "connected")) = 0 /\ Cardinality(Waiting(bus', "notConnected")) = 0
    BY <2>1, <2>5, FS_EmptySet
  <2>7. peerCount + 0 - 0 = n - base' /\ base' \in Int
    BY <2>2, <2>4
  <2>8. peerCount' + Cardinality(Waiting(bus', "connected")) - Cardinality(Waiting(bus', "notConnected"))
          = Cardinality(links') - base'
    BY <2>1, <2>3, <2>6, <2>7
  <2>9. CountKept'
    BY <2>1, <2>8 DEF CountKept
  <2>10. NodeTypes'
    <3>1. subscribed' \in BOOLEAN
      BY <2>1
    <3> QED BY <2>1, <2>7, <3>1 DEF NodeInv, NodeTypes
  <2>11. KeyKept' /\ PruneKept'
    BY <2>1 DEF NodeInv, KeyKept, PruneKept
  <2> QED BY <2>9, <2>10, <2>11 DEF NodeInv
<1>8. CASE N!startDHTMaintenance
  <2>1. UNCHANGED <<links, bus, check, peerCount, base, keyFile, keys, misreads, subscribed, ctxDone>>
        /\ stage' = "storing"
    BY <1>8 DEF N!startDHTMaintenance, N!startVars, N!eventVars, N!linkVars
  <2> QED BY <2>1, NodeStill
<1>9. CASE N!StartFails
  <2>1. UNCHANGED <<links, bus, check, peerCount, base, keyFile, keys, misreads, subscribed, ctxDone>>
        /\ stage' = "failed" /\ ~subscribed
    BY <1>0, <1>9 DEF N!StartFails, N!Unstarted, N!startVars, N!linkVars
  <2> QED BY <2>1, NodeStill
<1> QED BY <1>1, <1>2, <1>3, <1>4, <1>5, <1>6, <1>7, <1>8, <1>9 DEF N!Start

\* The end of a check, of the node and of the process.
LEMMA NodeEnds ==
  ASSUME NodeInv, N!CheckEnds \/ N!Stop \/ N!CloseHost \/ N!Crash
  PROVE  NodeInv'
<1>0. N!NoCheck \in NodeCheck /\ N!NoCheck.at = "none"
  BY DEF N!NoCheck, NodeCheck
<1>1. CASE N!CheckEnds
  <2>1. /\ UNCHANGED <<links, bus, peerCount, base, keyFile, keys, misreads, subscribed, ctxDone, stage>>
        /\ check' = N!NoCheck
    BY <1>1 DEF N!CheckEnds, N!startVars, N!eventVars, N!linkVars
  <2>2. NodeTypes'
    BY <1>0, <2>1 DEF NodeInv, NodeTypes
  <2>3. KeyKept' /\ CountKept' /\ PruneKept'
    BY <1>0, <2>1 DEF NodeInv, KeyKept, CountKept, PruneKept
  <2> QED BY <2>2, <2>3 DEF NodeInv
<1>2. CASE N!Stop
  <2>1. /\ UNCHANGED <<links, peerCount, base, keyFile, keys, misreads, check>>
        /\ stage' = "stopping" /\ ctxDone' = TRUE /\ subscribed' = FALSE /\ bus' = <<>>
    BY <1>2 DEF N!Stop, N!startVars
  <2>b. subscribed' \in BOOLEAN
    BY <2>1
  <2>2. bus' \in Seq(BusEvent)
    BY <2>1
  <2>3. NodeTypes'
    BY <2>1, <2>b, <2>2 DEF NodeInv, NodeTypes
  <2>4. KeyKept' /\ CountKept' /\ PruneKept'
    BY <2>1 DEF NodeInv, KeyKept, CountKept, PruneKept
  <2> QED BY <2>3, <2>4 DEF NodeInv
<1>3. CASE N!CloseHost
  <2>1. /\ UNCHANGED <<peerCount, base, keyFile, keys, misreads, check, bus, subscribed, ctxDone>>
        /\ stage = "stopping" /\ stage' = "down" /\ links' = {}
    BY <1>3 DEF N!CloseHost
  <2>2. ctxDone /\ ~subscribed
    BY <2>1 DEF NodeInv, PruneKept, CountKept
  <2>3. NodeTypes'
    BY <2>1 DEF NodeInv, NodeTypes
  <2>4. KeyKept' /\ CountKept' /\ PruneKept'
    BY <2>1, <2>2 DEF NodeInv, KeyKept, CountKept, PruneKept
  <2> QED BY <2>3, <2>4 DEF NodeInv
<1>4. CASE N!Crash
  <2>1. /\ stage' = "down" /\ ctxDone' = FALSE /\ links' = {} /\ bus' = <<>> /\ subscribed' = FALSE
        /\ peerCount' = 0 /\ base' = 0 /\ check' = N!NoCheck /\ UNCHANGED <<keyFile, keys, misreads>>
    BY <1>4 DEF N!Crash
  <2>b. subscribed' \in BOOLEAN
    BY <2>1
  <2>2. bus' \in Seq(BusEvent) /\ peerCount' \in Int /\ base' \in Int
    BY <2>1
  <2>3. NodeTypes'
    BY <1>0, <2>1, <2>b, <2>2 DEF NodeInv, NodeTypes
  <2>4. KeyKept' /\ CountKept' /\ PruneKept'
    BY <1>0, <2>1 DEF NodeInv, KeyKept, CountKept, PruneKept
  <2> QED BY <2>3, <2>4 DEF NodeInv
<1> QED BY <1>1, <1>2, <1>3, <1>4

\* For any peers, levels of pruning and bounds, whenever the process crashes:
\* no more keys than one and the starts that could not read a good one, a peer
\* count that is off by exactly the connections it missed, those before the node
\* listened and those through relays, and no more connections pruned than the
\* quota (loadOrGeneratePeerKey, subscribePeerEvents, performHealthCheck).
THEOREM NodeKept == N!Spec => []NodeSound
<1>1. NodeInv /\ [N!Next]_(N!vars) => NodeInv'
  <2> SUFFICES ASSUME NodeInv, [N!Next]_(N!vars) PROVE NodeInv'
    OBVIOUS
  <2>1. CASE UNCHANGED N!vars
    BY <2>1, NodeStill DEF N!vars, N!startVars, N!eventVars, N!linkVars
  <2>2. CASE N!storeConnectedPeers
    BY <2>2, NodeStill DEF N!storeConnectedPeers, N!eventVars, N!linkVars
  <2>3. CASE N!AdvertiseAtStart \/ N!MaintenanceTick \/ N!MaintenanceEnds
    BY <2>3, NodeStill DEF N!AdvertiseAtStart, N!MaintenanceTick, N!MaintenanceEnds, N!startVars,
                           N!eventVars, N!linkVars
  <2> QED BY <2>1, <2>2, <2>3, NodeStarts, NodeEvent, NodeCheckBegins, NodeEnds, NodeChurn,
             NodeChecks DEF N!Next
<1>2. NodeInv => NodeSound
  <2> SUFFICES ASSUME NodeInv PROVE NodeSound
    OBVIOUS
  <2>0. keyFile \in Int /\ links \subseteq Peer /\ bus \in Seq(BusEvent) /\ check \in NodeCheck
    BY DEF NodeInv, NodeTypes
  <2>1. N!PeerIDStable
    <3>1. IsFiniteSet(keys) /\ Cardinality(keys) \in Nat /\ misreads \in Nat
      BY FS_CardinalityType DEF NodeInv, NodeTypes, KeyKept
    <3>2. CASE keyFile > 0
      <4>1. Cardinality(keys \cup {keyFile}) <= 1 + misreads
        BY <3>2 DEF NodeInv, KeyKept
      <4>2. IsFiniteSet(keys \cup {keyFile})
        BY <3>1, FS_AddElement
      <4>3. Cardinality(keys) <= Cardinality(keys \cup {keyFile})
            /\ Cardinality(keys \cup {keyFile}) \in Nat
        BY <4>2, FS_Subset, FS_CardinalityType
      <4> QED BY <3>1, <4>1, <4>3, NodeCard DEF N!PeerIDStable
    <3>3. CASE keyFile <= 0
      <4>1. Cardinality(keys) <= misreads
        BY <3>3 DEF NodeInv, KeyKept
      <4> QED BY <3>1, <4>1, NodeCard DEF N!PeerIDStable
    <3> QED BY <2>0, <3>2, <3>3
  <2>2. N!PeerCountDrift
    <3>1. {i \in DOMAIN bus : bus[i].state = "connected"} = Waiting(bus, "connected")
      BY <2>0 DEF Waiting, BusEvent
    <3>2. {i \in DOMAIN bus : bus[i].state = "notConnected"} = Waiting(bus, "notConnected")
      BY <2>0 DEF Waiting, BusEvent
    <3>3. /\ N!Cardinality({i \in DOMAIN bus : bus[i].state = "connected"}) = Cardinality(Waiting(bus, "connected"))
          /\ N!Cardinality({i \in DOMAIN bus : bus[i].state = "notConnected"}) = Cardinality(Waiting(bus, "notConnected"))
          /\ N!Cardinality(links) = Cardinality(links)
      BY <3>1, <3>2, NodeCard
    <3> QED BY <3>3 DEF N!PeerCountDrift, NodeInv, CountKept
  <2>3. N!PruneKeepsEnough
    <3> SUFFICES ASSUME check.at = "prune", ~ctxDone
                 PROVE  Cardinality(links) > check.above - check.max - check.left
      BY NodeCard DEF N!PruneKeepsEnough
    <3>1. check.pruned <= check.max /\ Cardinality(links) + check.pruned + check.left > check.above
      BY DEF NodeInv, PruneKept
    <3> QED BY <3>1, CheckFields
  <2> QED BY <2>1, <2>2, <2>3 DEF NodeSound, N!NodeSound
<1> QED BY NodeInit, <1>1, <1>2, PTL DEF N!Spec

=============================================================================
