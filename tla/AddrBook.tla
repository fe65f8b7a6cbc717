------------------------------ MODULE AddrBook ------------------------------
(***************************************************************************)
(* peerstore.AddrBook: peers by identity key, at most MaxPeers of them, in *)
(* memory and in peers.json, which every change overwrites in place.  The  *)
(* mutex makes the operations follow one another, so a save in progress is *)
(* seen only by a crash or a failing disk: either leaves a torn file.      *)
(***************************************************************************)
EXTENDS Integers, FiniteSets

CONSTANTS
  PubKey, Addr, \* identity keys and addresses (0: none)
  MaxPeers,     \* the limit of the book
  MaxTime,      \* bound: seconds that pass
  MaxChanges    \* bound: changes made to the book

VARIABLES
  peers,    \* peers[k]: the record of k
  file,     \* what peers.json holds
  phase,    \* whether the process is down, up, or saving with the lock held
  clock,    \* the time in seconds, as the records keep it
  changes,  \* how many changes were made
  saved     \* the book as it was last saved completely

vars == <<peers, file, phase, clock, changes, saved>>

Absent == [state |-> "absent", peers |-> <<>>]
Torn == [state |-> "torn", peers |-> <<>>]
Whole(b) == [state |-> "whole", peers |-> b]

Init ==
  /\ peers = <<>> /\ file = Absent /\ phase = "down"
  /\ clock = 0 /\ changes = 0 /\ saved = <<>>

\* Mutant: a file that does not parse is an empty book.
MutantNewAddrBook ==
  /\ phase = "down"
  /\ peers' = file.peers
  /\ phase' = "up"
  /\ UNCHANGED <<file, clock, changes, saved>>

\* NewAddrBook: an absent file is an empty book, one that does not parse is an
\* error, and the process goes on without an address book.
NewAddrBook ==
  /\ phase = "down" /\ file # Torn
  /\ peers' = file.peers
  /\ phase' = "up"
  /\ UNCHANGED <<file, clock, changes, saved>>

\* saveLocked begins: the file is truncated.
saveLocked ==
  /\ file' = Torn /\ phase' = "saving"
  /\ UNCHANGED <<clock, saved>>

Change == phase = "up" /\ changes < MaxChanges /\ changes' = changes + 1

\* Mutant: the newest is removed.
MutantRemoveOldestPeer(b) ==
  {[k \in DOMAIN b \ {o} |-> b[k]] : o \in {k \in DOMAIN b : \A j \in DOMAIN b : b[k].seen >= b[j].seen}}

\* The record with the lowest LastSeen, any one of several.
removeOldestPeer(b) ==
  {[k \in DOMAIN b \ {o} |-> b[k]] : o \in {k \in DOMAIN b : \A j \in DOMAIN b : b[k].seen <= b[j].seen}}

AddContact(k, a) ==
  LET old == k \in DOMAIN peers
      rec == [addrs |-> a, seen |-> clock, connected |-> old /\ peers[k].connected]
      b == [j \in DOMAIN peers \cup {k} |-> IF j = k THEN rec ELSE peers[j]]
  IN  /\ Change
      /\ peers' \in IF ~old /\ Cardinality(DOMAIN b) > MaxPeers THEN removeOldestPeer(b) ELSE {b}
      /\ saveLocked

UpdateAddresses(k, a) ==
  /\ Change /\ k \in DOMAIN peers
  /\ peers' = [peers EXCEPT ![k].addrs = a, ![k].seen = clock]
  /\ saveLocked

\* SetConnected is not saved.
SetConnected(k, connected) ==
  /\ Change /\ k \in DOMAIN peers
  /\ peers' = [peers EXCEPT ![k].connected = connected]
  /\ UNCHANGED <<file, phase, clock, saved>>

DeleteContact(k) ==
  /\ Change /\ k \in DOMAIN peers
  /\ peers' = [j \in DOMAIN peers \ {k} |-> peers[j]]
  /\ saveLocked

\* ConnectToAll marks the peers it reaches, any of those with an address, and
\* saves if there are some.
ConnectToAll ==
  \E S \in SUBSET {k \in DOMAIN peers : peers[k].addrs # 0} :
    /\ Change
    /\ peers' = [k \in DOMAIN peers |->
                   IF k \in S THEN [peers[k] EXCEPT !.connected = TRUE] ELSE peers[k]]
    /\ IF S # {} THEN saveLocked ELSE UNCHANGED <<file, phase, clock, saved>>

\* The file is written, or the disk refuses: the caller gets an error and the
\* book in memory stays changed.
Written ==
  /\ phase = "saving" /\ phase' = "up"
  /\ file' = Whole(peers) /\ saved' = peers
  /\ UNCHANGED <<peers, clock, changes>>

WriteFails ==
  /\ phase = "saving" /\ phase' = "up"
  /\ UNCHANGED <<peers, file, clock, changes, saved>>

\* The process ends, by a crash or by exiting, which saves nothing.
Crash ==
  /\ phase # "down" /\ phase' = "down"
  /\ peers' = <<>>
  /\ UNCHANGED <<file, clock, changes, saved>>

Tick == clock < MaxTime /\ clock' = clock + 1 /\ UNCHANGED <<peers, file, phase, changes, saved>>

Next ==
  \/ NewAddrBook \/ ConnectToAll \/ Written \/ WriteFails \/ Crash \/ Tick
  \/ \E k \in PubKey :
       \/ \E a \in {0} \cup Addr : AddContact(k, a) \/ UpdateAddresses(k, a)
       \/ \E b \in BOOLEAN : SetConnected(k, b)
       \/ DeleteContact(k)

Spec == Init /\ [][Next]_vars

-----------------------------------------------------------------------------
\* Starting brings back the whole book that was last saved and never a part of
\* it, whenever the process before ended: what a crash in the middle of a save
\* leaves behind is refused (load, saveLocked).
LoadsWhole == phase = "down" /\ phase' = "up" => peers' = saved

\* The book keeps its limit by giving up the peer seen longest ago, whose
\* record may be the one just added when times are equal (removeOldestPeer).
EvictsOldest ==
  /\ Cardinality(DOMAIN peers') <= MaxPeers
  /\ DOMAIN peers' \ DOMAIN peers # {} /\ phase = "up" =>
       \A gone \in DOMAIN peers \ DOMAIN peers' : \A k \in DOMAIN peers' :
         peers[gone].seen <= peers'[k].seen

\* No step loses a peer of the book silently: not a start, whenever the process
\* before ended, and not the limit (load, saveLocked, removeOldestPeer).
BookKept == [][LoadsWhole /\ EvictsOldest]_vars
=============================================================================
