--------------------------- MODULE ContactTracker ---------------------------
(***************************************************************************)
(* peerstore.ContactTracker: the presence of the contacts, kept in objects *)
(* that the periodic refresh goes on updating after it has released the    *)
(* lock, and written back to the contact records of storage.               *)
(*                                                                         *)
(* Peer IDs and address lists are numbers, 0 for none; Home[a] is the peer *)
(* whose addresses a are.                                                  *)
(***************************************************************************)
EXTENDS Integers, Sequences, FiniteSets

CONSTANTS
  Contact, Peer, Addr, Home,
  MaxOps,       \* bound: calls of the rest of the program
  MaxObjects    \* bound: presence objects ever allocated

VARIABLES
  records,      \* records[c]: the stored contact, or NoContact
  infos,        \* the ContactPeerInfo objects allocated so far
  contactPeers, \* contactPeers[c]: which of them is c's, 0 for none
  online,       \* the peers that the DHT finds
  refresh,      \* the refresh goroutine: where it is and its pending objects
  setter,       \* SetContactOnline between its steps, holding ct.mu
  ops,          \* how many calls were made
  strayed       \* contacts for which addresses of another peer were found or stored

vars == <<records, infos, contactPeers, online, refresh, setter, ops, strayed>>

NoContact == [peer |-> -1, addrs |-> 0]
Info(c, p, a) == [c |-> c, peer |-> p, addrs |-> a, isOnline |-> FALSE, connectedByUs |-> FALSE]
Resting == [at |-> "rest", todo |-> {}, obj |-> 0, addrs |-> 0, peer |-> 0, rec |-> NoContact]
NoSetter == [at |-> "none", c |-> 0, peer |-> 0, addrs |-> 0, rec |-> NoContact]

\* ct.mu is free: only SetContactOnline keeps it from one step to the next.
Unlocked == setter = NoSetter

Tracked(c) == contactPeers[c] # 0
InfoOf(c) == infos[contactPeers[c]]

Init ==
  /\ records \in [Contact -> {NoContact} \cup {[peer |-> p, addrs |-> 0] : p \in Peer}]
  /\ infos = <<>>
  /\ contactPeers = [c \in Contact |-> 0]
  /\ online \in SUBSET Peer
  /\ refresh = Resting /\ setter = NoSetter
  /\ ops = 0 /\ strayed = {}

Called == Unlocked /\ ops < MaxOps /\ ops' = ops + 1

\* A new object for c; the old one stays with whoever holds it.
Replace(c, info) ==
  /\ Len(infos) < MaxObjects
  /\ infos' = Append(infos, info)
  /\ contactPeers' = [contactPeers EXCEPT ![c] = Len(infos) + 1]

\* LoadContacts: the table is rebuilt from storage, everybody offline.
LoadContacts ==
  /\ Called
  /\ LET S == {c \in Contact : records[c] # NoContact}
         num == CHOOSE f \in [S -> 1 .. Cardinality(S)] : \A c, d \in S : c # d => f[c] # f[d]
     IN  /\ Len(infos) + Cardinality(S) <= MaxObjects
         /\ infos' = infos \o [i \in 1 .. Cardinality(S) |->
                       LET c == CHOOSE d \in S : num[d] = i
                       IN  Info(c, records[c].peer, records[c].addrs)]
         /\ contactPeers' = [c \in Contact |-> IF c \in S THEN Len(infos) + num[c] ELSE 0]
  /\ UNCHANGED <<records, online, refresh, setter, strayed>>

\* UpdateContact replaces the object of a contact by a fresh, offline one.
UpdateContact(c, p) ==
  /\ Called
  /\ Replace(c, Info(c, p, 0))
  /\ UNCHANGED <<records, online, refresh, setter, strayed>>

\* Mutant: the addresses are taken from the object, which may be another peer's.
MutantSetContactOnline(c, a) ==
  /\ Called
  /\ IF Tracked(c)
     THEN /\ infos' = [infos EXCEPT ![contactPeers[c]].peer = Home[a], ![contactPeers[c]].isOnline = TRUE]
          /\ UNCHANGED contactPeers
          /\ setter' = [at |-> "read", c |-> c, peer |-> Home[a], addrs |-> InfoOf(c).addrs, rec |-> NoContact]
     ELSE /\ Replace(c, [Info(c, Home[a], a) EXCEPT !.isOnline = TRUE])
          /\ setter' = [at |-> "read", c |-> c, peer |-> Home[a], addrs |-> a, rec |-> NoContact]
  /\ UNCHANGED <<records, online, refresh, strayed>>

\* SetContactOnline changes the object in place, creating it if need be, and
\* goes on to storage with the lock held.
SetContactOnline(c, a) ==
  LET info == [Info(c, Home[a], a) EXCEPT !.isOnline = TRUE]
  IN  /\ Called
      /\ IF Tracked(c)
         THEN /\ infos' = [infos EXCEPT ![contactPeers[c]] =
                             [info EXCEPT !.connectedByUs = InfoOf(c).connectedByUs]]
              /\ UNCHANGED contactPeers
         ELSE Replace(c, info)
      /\ setter' = [at |-> "read", c |-> c, peer |-> Home[a], addrs |-> a, rec |-> NoContact]
      /\ strayed' = IF /\ refresh.at \in {"mark", "read"} /\ refresh.obj = contactPeers[c]
                     /\ InfoOf(c).peer # Home[a]
                  THEN strayed \cup {c} ELSE strayed
      /\ UNCHANGED <<records, online, refresh>>

\* updateContactInStorage: a contact that is not stored is not created.
updateContactInStorage(rec, p, a) == IF rec = NoContact THEN rec ELSE [peer |-> p, addrs |-> a]

SetterRead ==
  /\ setter.at = "read"
  /\ setter' = IF records[setter.c] = NoContact THEN NoSetter
               ELSE [setter EXCEPT !.at = "write", !.rec = records[setter.c]]
  /\ UNCHANGED <<records, infos, contactPeers, online, refresh, ops, strayed>>

SetterWrite ==
  /\ setter.at = "write"
  /\ records' = [records EXCEPT ![setter.c] =
                   updateContactInStorage(setter.rec, setter.peer, setter.addrs)]
  /\ setter' = NoSetter
  /\ UNCHANGED <<infos, contactPeers, online, refresh, ops, strayed>>

SetContactOffline(c) ==
  /\ Called /\ Tracked(c)
  /\ infos' = [infos EXCEPT ![contactPeers[c]].isOnline = FALSE]
  /\ UNCHANGED <<records, contactPeers, online, refresh, setter, strayed>>

SetConnected(c, connected) ==
  /\ Called /\ Tracked(c)
  /\ infos' = [infos EXCEPT ![contactPeers[c]].connectedByUs = connected]
  /\ UNCHANGED <<records, contactPeers, online, refresh, setter, strayed>>

-----------------------------------------------------------------------------
(* RefreshOnlineStatus, on every tick.                                     *)

\* The objects with a peer ID are collected under the lock ...
RefreshOnlineStatus ==
  /\ Unlocked /\ refresh.at = "rest"
  /\ refresh' = [Resting EXCEPT !.at = "next",
       !.todo = {contactPeers[c] : c \in {d \in Contact : Tracked(d) /\ InfoOf(d).peer # 0}}]
  /\ UNCHANGED <<records, infos, contactPeers, online, setter, ops, strayed>>

\* FindPeer of the node: what it finds for a peer, or the closest peer's
\* addresses in its place.
FindPeer(p) == IF p \in online THEN Addr ELSE {0}

\* ... and looked up without it, by the peer ID they have by then.
RefreshFind(o) ==
  /\ refresh.at = "next" /\ o \in refresh.todo
  /\ \E a \in FindPeer(infos[o].peer) :
       /\ refresh' = [refresh EXCEPT !.at = "mark", !.obj = o, !.addrs = a, !.todo = @ \ {o}]
       /\ strayed' = IF a # 0 /\ Home[a] # infos[o].peer THEN strayed \cup {infos[o].c} ELSE strayed
  /\ UNCHANGED <<records, infos, contactPeers, online, setter, ops>>

\* Mutant: a failed lookup leaves the contact as it was.
MutantRefreshMark ==
  /\ Unlocked /\ refresh.at = "mark"
  /\ LET o == refresh.obj
     IN  IF refresh.addrs # 0
         THEN /\ infos' = [infos EXCEPT ![o].isOnline = TRUE, ![o].addrs = refresh.addrs]
              /\ refresh' = [refresh EXCEPT !.at = "read"]
         ELSE UNCHANGED infos /\ refresh' = [refresh EXCEPT !.at = "next"]
  /\ UNCHANGED <<records, contactPeers, online, setter, ops, strayed>>

\* The outcome goes to the object under the lock; what is found goes to
\* storage too, under the peer ID that the object has now.
RefreshMark ==
  /\ Unlocked /\ refresh.at = "mark"
  /\ LET o == refresh.obj
     IN  IF refresh.addrs # 0
         THEN /\ infos' = [infos EXCEPT ![o].isOnline = TRUE, ![o].addrs = refresh.addrs]
              /\ refresh' = [refresh EXCEPT !.at = "read"]
         ELSE /\ infos' = [infos EXCEPT ![o].isOnline = FALSE]
              /\ refresh' = [refresh EXCEPT !.at = "next"]
  /\ UNCHANGED <<records, contactPeers, online, setter, ops, strayed>>

RefreshRead ==
  /\ refresh.at = "read"
  /\ LET info == infos[refresh.obj]
     IN  refresh' = [refresh EXCEPT !.at = "write", !.peer = info.peer, !.rec = records[info.c]]
  /\ UNCHANGED <<records, infos, contactPeers, online, setter, ops, strayed>>

RefreshWrite ==
  /\ refresh.at = "write"
  /\ records' = IF refresh.rec = NoContact THEN records
       ELSE [records EXCEPT ![infos[refresh.obj].c] =
               updateContactInStorage(refresh.rec, refresh.peer, refresh.addrs)]
  /\ refresh' = [Resting EXCEPT !.at = "next", !.todo = refresh.todo]
  /\ UNCHANGED <<infos, contactPeers, online, setter, ops, strayed>>

RefreshDone ==
  /\ Unlocked /\ refresh.at = "next" /\ refresh.todo = {}
  /\ refresh' = Resting
  /\ UNCHANGED <<records, infos, contactPeers, online, setter, ops, strayed>>

\* Peers come and go, and contacts are added by the rest of the program.
PeerComesOrGoes(p) ==
  /\ ops < MaxOps /\ ops' = ops + 1
  /\ online' = IF p \in online THEN online \ {p} ELSE online \cup {p}
  /\ UNCHANGED <<records, infos, contactPeers, refresh, setter, strayed>>

StartPeriodicRefresh ==
  \/ RefreshOnlineStatus \/ RefreshMark \/ RefreshRead \/ RefreshWrite \/ RefreshDone
  \/ \E o \in refresh.todo : RefreshFind(o)

Setter == SetterRead \/ SetterWrite

Next ==
  \/ LoadContacts
  \/ \E c \in Contact :
       \/ \E p \in Peer : UpdateContact(c, p)
       \/ \E a \in Addr : SetContactOnline(c, a)
       \/ SetContactOffline(c)
       \/ \E b \in BOOLEAN : SetConnected(c, b)
  \/ \E p \in Peer : PeerComesOrGoes(p)
  \/ StartPeriodicRefresh
  \/ Setter

Fairness == WF_vars(StartPeriodicRefresh) /\ WF_vars(Setter)

Spec == Init /\ [][Next]_vars /\ Fairness

-----------------------------------------------------------------------------
\* The peer and the addresses stored for a contact belong together, unless the
\* DHT answered with a close peer instead, or the contact was given another
\* peer between a lookup and the storing of what it found: those are the two
\* ways to stored addresses of another peer (contact_tracker.go:232, 241).
AddrsBelongToPeer ==
  \A c \in Contact :
    records[c].addrs = 0 \/ Home[records[c].addrs] = records[c].peer \/ c \in strayed

\* Presence catches up: once calls and peers have settled, what is tracked as
\* online is what the DHT finds, although objects are replaced under a
\* refresh (RefreshOnlineStatus, UpdateContact).
PresenceCatchesUp ==
  <>[](\A c \in Contact : Tracked(c) /\ InfoOf(c).peer # 0 =>
         (InfoOf(c).isOnline <=> InfoOf(c).peer \in online))
=============================================================================
