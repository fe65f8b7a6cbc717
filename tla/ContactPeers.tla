---------------------------- MODULE ContactPeers ----------------------------
(***************************************************************************)
(* How the messaging service finds the peer of a contact: the cache        *)
(* Service.contactPeers, the contact records it is persisted to, the calls *)
(* FindAndConnectToContact and IsContactOnline that any goroutine may be   *)
(* making, and the command line that adds contacts meanwhile.              *)
(*                                                                         *)
(* A peer ID and a list of addresses are numbers, 0 for none.  Connecting  *)
(* and looking a peer up in the DHT may succeed or fail at any time.       *)
(***************************************************************************)
EXTENDS Integers, FiniteSets

CONSTANTS
  Contact, Peer, Addr, Name,
  Caller,        \* goroutines that look for contacts
  MaxCalls       \* bound: calls each of them makes

VARIABLES
  stored,     \* stored[c]: the contact record of storage
  cache,      \* Service.contactPeers
  contactMu,  \* the goroutine that holds Service.contactMu
  call,       \* call[t]: the call goroutine t is making
  calls,      \* calls[t]: how many calls t has made
  adding,     \* the contact the /add command has found to be new
  unsaved     \* contacts storage failed to read or to write when last updated

vars == <<stored, cache, contactMu, call, calls, adding, unsaved>>

NoContact == [name |-> "", peer |-> -1, addrs |-> -1]
NoInfo == [peer |-> 0, addrs |-> 0, connected |-> FALSE]
Free == "free"
Idle == [op |-> "none", at |-> "idle", c |-> 0, info |-> NoInfo, rec |-> NoContact]
NoOne == 0

Exists(c) == stored[c] # NoContact

\* Contacts are added by /add, without peer and addresses, or come with both.
Init ==
  /\ stored \in [Contact -> {NoContact} \cup
                   [name : Name, peer : Peer, addrs : {0}] \cup
                   [name : Name, peer : {0}, addrs : Addr]]
  /\ cache = [c \in Contact |-> NoInfo]
  /\ contactMu = Free
  /\ call = [t \in Caller |-> Idle]
  /\ calls = [t \in Caller |-> 0]
  /\ adding = NoOne
  /\ unsaved = {}

Go(t, r) == call' = [call EXCEPT ![t] = r]
Return(t) == Go(t, Idle)

\* The cache is read first, and answers for a contact that was ever connected.
Begin(t, op, c) ==
  /\ call[t] = Idle /\ calls[t] < MaxCalls
  /\ calls' = [calls EXCEPT ![t] = @ + 1]
  /\ IF cache[c].connected THEN UNCHANGED call
     ELSE Go(t, [op |-> op, at |-> "lookup", c |-> c, info |-> cache[c], rec |-> NoContact])
  /\ UNCHANGED <<stored, cache, contactMu, adding, unsaved>>

\* GetContact; an unknown contact ends the call, and so does, for
\* IsContactOnline, one without peer ID.
GetContact(t) ==
  /\ call[t].at = "lookup"
  /\ LET rec == stored[call[t].c]
     IN  IF rec = NoContact \/ (call[t].op = "IsContactOnline" /\ rec.peer = 0)
         THEN Return(t)
         ELSE Go(t, [call[t] EXCEPT !.at = "connect", !.rec = rec])
  /\ UNCHANGED <<stored, cache, contactMu, calls, adding, unsaved>>

Found(p, a) == [peer |-> p, addrs |-> a, connected |-> TRUE]

\* FindPeer of the node: the addresses the DHT has for a peer, if any.
FindPeer(p) == {a \in Addr : p # 0}

\* What connectToPeerID and the later attempts of FindAndConnectToContact can
\* end with: the cached peer, the stored one, its addresses, or new ones.
FindAndConnectToContact(info, rec) ==
  {Found(info.peer, info.addrs) : x \in Peer \cap {info.peer}}
  \cup {Found(rec.peer, rec.addrs) : x \in (Peer \cap {rec.peer}) \cup (Addr \cap {rec.addrs})}
  \cup {Found(rec.peer, a) : a \in FindPeer(rec.peer)}

IsContactOnline(rec) == {Found(rec.peer, a) : a \in FindPeer(rec.peer)}

\* The network attempts of a call; they may all fail.
Connect(t) ==
  /\ call[t].at = "connect"
  /\ \/ Return(t)
     \/ \E f \in IF call[t].op = "IsContactOnline" THEN IsContactOnline(call[t].rec)
                 ELSE FindAndConnectToContact(call[t].info, call[t].rec) :
          Go(t, [call[t] EXCEPT !.at = "update", !.info = f])
  /\ UNCHANGED <<stored, cache, contactMu, calls, adding, unsaved>>

\* Mutant: contactMu is released before the record is written.
MutantUpdateContactPeer(t) ==
  /\ call[t].at = "update" /\ contactMu = Free
  /\ UNCHANGED contactMu
  /\ cache' = [cache EXCEPT ![call[t].c] = call[t].info]
  /\ Go(t, [call[t] EXCEPT !.at = "read"])
  /\ UNCHANGED <<stored, calls, adding, unsaved>>

\* updateContactPeer: the cache under contactMu, then storage, still under it.
updateContactPeer(t) ==
  /\ call[t].at = "update" /\ contactMu = Free
  /\ contactMu' = t
  /\ cache' = [cache EXCEPT ![call[t].c] = call[t].info]
  /\ Go(t, [call[t] EXCEPT !.at = "read"])
  /\ UNCHANGED <<stored, calls, adding, unsaved>>

\* The record with what a lookup found; an empty finding changes nothing.
Merged(rec, info) ==
  [rec EXCEPT !.peer = IF info.peer # 0 THEN info.peer ELSE @,
              !.addrs = IF info.addrs # 0 THEN info.addrs ELSE @]

\* Mutant: it takes contactMu, which its caller holds.
MutantPersistContactPeer(t) ==
  /\ call[t].at = "read" /\ contactMu = Free
  /\ Return(t)
  /\ UNCHANGED <<stored, cache, contactMu, calls, adding, unsaved>>

\* persistContactPeer reads the record: a failure is logged and forgotten, and an
\* equal record is not written.
ReadFails(t) ==
  /\ Return(t) /\ contactMu' = Free
  /\ unsaved' = unsaved \cup {call[t].c}

ReadContact(t) ==
  LET rec == stored[call[t].c]
  IN  IF rec = NoContact \/ Merged(rec, call[t].info) = rec
      THEN /\ Return(t) /\ contactMu' = Free
           /\ unsaved' = unsaved \ {call[t].c}
      ELSE /\ Go(t, [call[t] EXCEPT !.at = "write", !.rec = Merged(rec, call[t].info)])
           /\ UNCHANGED <<contactMu, unsaved>>

persistContactPeer(t) ==
  /\ call[t].at = "read"
  /\ ReadFails(t) \/ ReadContact(t)
  /\ UNCHANGED <<stored, cache, calls, adding>>

\* ... and writes it; a failure is logged and forgotten.
AddContact(t) ==
  /\ call[t].at = "write"
  /\ \/ /\ stored' = [stored EXCEPT ![call[t].c] = call[t].rec]
        /\ unsaved' = unsaved \ {call[t].c}
     \/ UNCHANGED stored /\ unsaved' = unsaved \cup {call[t].c}
  /\ contactMu' = Free
  /\ Return(t)
  /\ UNCHANGED <<cache, calls, adding>>

\* /add: a contact that exists is left alone ...
handleAdd(c) ==
  /\ adding = NoOne /\ ~Exists(c)
  /\ adding' = c
  /\ UNCHANGED <<stored, cache, contactMu, call, calls, unsaved>>

\* ... a new one is stored without peer and addresses.
handleAddStore(n) ==
  /\ adding # NoOne
  /\ adding' = NoOne
  /\ stored' = [stored EXCEPT ![adding] = [name |-> n, peer |-> 0, addrs |-> 0]]
  /\ UNCHANGED <<cache, contactMu, call, calls, unsaved>>

Step(t) ==
  \/ GetContact(t) \/ Connect(t)
  \/ updateContactPeer(t) \/ persistContactPeer(t) \/ AddContact(t)

Next ==
  \/ \E t \in Caller :
       \/ \E c \in Contact, op \in {"FindAndConnectToContact", "IsContactOnline"} : Begin(t, op, c)
       \/ Step(t)
  \/ \E c \in Contact : handleAdd(c)
  \/ \E n \in Name : handleAddStore(n)

Fairness == \A t \in Caller : WF_vars(Step(t))

Spec == Init /\ [][Next]_vars /\ Fairness

-----------------------------------------------------------------------------
\* When nobody is updating a contact, storage has the peer and the addresses
\* the cache has, however the calls that found them interleaved: both are
\* written under contactMu (updateContactPeer).
CacheMatchesStore ==
  contactMu = Free =>
    \A c \in Contact :
      cache[c].connected /\ c \notin unsaved =>
        stored[c] # NoContact /\ Merged(stored[c], cache[c]) = stored[c]

\* Every call returns, although the calls wait for one another in
\* updateContactPeer, provided that scheduled goroutines run and network
\* calls time out.
CallsReturn == \A t \in Caller : call[t] # Idle ~> call[t] = Idle
=============================================================================
