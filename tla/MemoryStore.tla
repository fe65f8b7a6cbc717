---------------------------- MODULE MemoryStore ----------------------------
(***************************************************************************)
(* MemoryStorage (pkg/storage/memory.go), the Storage the repository's     *)
(* tests run on: one Go map per table, and the messages of a contact in    *)
(* the order they came.  A listing walks a map, in any order.  Identity    *)
(* documents, prekeys and sessions are not part of it.                     *)
(*                                                                         *)
(* The maps hold the very objects callers pass and get back, so that a     *)
(* caller can change what is stored without a call (CallerWrites,          *)
(* EnvelopeWrites).  mem and messages are what the objects say now, reply  *)
(* is what they said when the call answered.  Callers leave the field an   *)
(* object is filed under alone: a record is in one row.                    *)
(***************************************************************************)
EXTENDS Integers, Sequences, FiniteSetsExt, SequencesExt

CONSTANTS Key, Val, Contact, Envelope, Group, Limits, PeerInfo, Source,   \* as in Store
          MaxMessages   \* bound on the messages of a contact

VARIABLES mem,       \* mem[t]: the map of table t
          messages,  \* messages[c]: the envelopes of contact c
          reply      \* the answer of the last call

vars == <<mem, messages, reply>>

Reply(op, t, found, list) == [op |-> op, table |-> t, rows |-> found, list |-> list]
Pairs(t) == {<<k, mem[t][k]>> : k \in DOMAIN mem[t]}
Found(t, k) == {r \in Pairs(t) : r[1] = k}

NewMemoryStorage ==
  /\ mem = [t \in DOMAIN Key |-> [k \in {} |-> 0]]
  /\ messages = [c \in Contact |-> <<>>]
  /\ reply = Reply("none", "none", {}, <<>>)

Answer(op, t, found, list) ==
  reply' = Reply(op, t, found, list) /\ UNCHANGED <<mem, messages>>
Assign(t, new, op) ==
  /\ mem' = [mem EXCEPT ![t] = new]
  /\ reply' = Reply(op, t, {}, <<>>)
  /\ UNCHANGED messages
Written(f, k, v) == [i \in DOMAIN f \cup {k} |-> IF i = k THEN v ELSE f[i]]
SetRow(t, k, v) == Assign(t, Written(mem[t], k, v), "Save")
DropRow(t, k) == Assign(t, [i \in DOMAIN mem[t] \ {k} |-> mem[t][i]], "Delete")

-----------------------------------------------------------------------------

AddContact(pub, v) == SetRow("contact", <<pub>>, v)
GetContact(pub) == Answer("Get", "contact", Found("contact", <<pub>>), <<>>)
GetContactX25519Key(pub) == (\E r \in Found("contact", <<pub>>) : r[2] # 0) /\ GetContact(pub)
ListContacts == Answer("List", "contact", Pairs("contact"), <<>>)
DeleteContact(pub) == DropRow("contact", <<pub>>)

\* Mutant of AddMessage: the first envelope of a contact is lost when its list
\* is created.
MutantAddMessage(c, e) ==
  /\ messages' = [messages EXCEPT ![c] = IF @ = <<>> THEN @ ELSE Append(@, e)]
  /\ reply' = Reply("Save", "message", {}, <<>>)
  /\ UNCHANGED mem

AddMessage(c, e) ==
  /\ messages' = [messages EXCEPT ![c] = Append(@, e)]
  /\ reply' = Reply("Save", "message", {}, <<>>)
  /\ UNCHANGED mem

GetMessages(c, limit, offset) ==
  LET all == messages[c]
      end == IF limit > 0 /\ offset + limit < Len(all) THEN offset + limit ELSE Len(all)
  IN  Answer("List", "message", {},
             IF offset >= Len(all) THEN <<>> ELSE SubSeq(all, offset + 1, end))

DeleteMessages(c) ==
  /\ messages' = [messages EXCEPT ![c] = <<>>]
  /\ reply' = Reply("DeleteAll", "message", {}, <<>>)
  /\ UNCHANGED mem

AddPeer(id, v) == SetRow("peer", <<id>>, v)
GetPeer(id) == Answer("Get", "peer", Found("peer", <<id>>), <<>>)
DeletePeer(id) == DropRow("peer", <<id>>)

\* A map is walked in any order, until there are limit peers.
ListPeers(limit) ==
  \E S \in SUBSET Pairs("peer") :
    /\ IF limit > 0 /\ limit < Cardinality(Pairs("peer"))
       THEN Cardinality(S) = limit ELSE S = Pairs("peer")
    /\ Answer("List", "peer", S, <<>>)
ListPeersBySource(s) ==
  Answer("ListBySource", "peer", {r \in Pairs("peer") : PeerInfo[r[2]].source = s}, <<>>)
PrunePeers == Answer("Prune", "peer", {}, <<>>)

GetConfig(key) == Answer("Get", "config", Found("config", <<key>>), <<>>)
SetConfig(key, v) == SetRow("config", <<key>>, v)
DeleteConfig(key) == DropRow("config", <<key>>)
BlacklistPeer(id, v) == SetRow("blacklist", <<id>>, v)
IsBlacklisted(id) == Answer("Get", "blacklist", Found("blacklist", <<id>>), <<>>)
ListBlacklisted == Answer("List", "blacklist", Pairs("blacklist"), <<>>)
RemoveFromBlacklist(id) == DropRow("blacklist", <<id>>)

SaveGroup(g, v) == SetRow("group", <<g>>, v)
GetGroup(g) == Answer("Get", "group", Found("group", <<g>>), <<>>)
ListGroups == Answer("List", "group", Pairs("group"), <<>>)
DeleteGroup(g) == DropRow("group", <<g>>)

OfGroup(t, g) == {r \in Pairs(t) : r[1][1] = g}
SaveSenderKey(g, s, v) == SetRow("senderKey", <<g, s>>, v)
GetSenderKey(g, s) == Answer("Get", "senderKey", Found("senderKey", <<g, s>>), <<>>)
ListSenderKeys(g) == Answer("List", "senderKey", OfGroup("senderKey", g), <<>>)
DeleteSenderKey(g, s) == DropRow("senderKey", <<g, s>>)
DeleteAllSenderKeys(g) ==
  Assign("senderKey", [k \in {i \in DOMAIN mem["senderKey"] : i[1] # g} |-> mem["senderKey"][k]],
         "DeleteAll")

SaveChannel(c, v) == SetRow("channel", <<c>>, v)
GetChannel(c) == Answer("Get", "channel", Found("channel", <<c>>), <<>>)
ListChannels == Answer("List", "channel", Pairs("channel"), <<>>)
DeleteChannel(c) == DropRow("channel", <<c>>)
SaveChannelPost(c, p, prev) ==
  /\ mem' = [mem EXCEPT
       !["post"] = Written(@, <<c, p>>, prev),
       !["channel"] = IF <<c>> \in DOMAIN @ THEN Written(@, <<c>>, prev) ELSE @]
  /\ reply' = Reply("Save", "post", {}, <<>>)
  /\ UNCHANGED messages
GetChannelPosts(c, limit, offset) ==
  LET all  == OfGroup("post", c)
      rest == IF offset >= Cardinality(all) THEN 0 ELSE Cardinality(all) - offset
      size == IF limit > 0 /\ rest > limit THEN limit ELSE rest
  IN  \E S \in kSubset(size, all) : Answer("List", "post", S, <<>>)
GetLatestChannelPostCID(c) == Answer("Get", "channel", Found("channel", <<c>>), <<>>)

-----------------------------------------------------------------------------

\* The tables of objects; the entries of the blacklist are made by the store but
\* handed out by ListBlacklisted.  Values of the configuration are strings.
Live == {"contact", "peer", "blacklist", "group", "senderKey", "channel", "post"}

\* A caller changes a record it has stored or was given.
CallerWrites(t, k, v) ==
  /\ k \in DOMAIN mem[t]
  /\ mem' = [mem EXCEPT ![t] = Written(@, k, v)]
  /\ UNCHANGED messages

\* A caller changes an envelope, wherever it has stored it.
EnvelopeWrites(old, e) ==
  /\ \E W \in SUBSET UNION {{c} \X {i \in 1 .. Len(messages[c]) : messages[c][i] = old} : c \in Contact} :
       messages' = [c \in Contact |->
         [i \in 1 .. Len(messages[c]) |-> IF <<c, i>> \in W THEN e ELSE messages[c][i]]]
  /\ UNCHANGED mem

SharedWrite ==
  /\ UNCHANGED reply
  /\ \/ \E t \in Live : \E k \in Key[t], v \in Val[t] : CallerWrites(t, k, v)
     \/ \E old, e \in Envelope : EnvelopeWrites(old, e)

\* Clear, which is not a call of the interface: contacts and messages go.
Clear ==
  /\ UNCHANGED reply
  /\ mem' = [mem EXCEPT !["contact"] = [k \in {} |-> 0]]
  /\ messages' = [c \in Contact |-> <<>>]

-----------------------------------------------------------------------------

\* The error of GetContactX25519Key, the only call that can fail.
NoX25519Key(pub) ==
  /\ \A r \in Found("contact", <<pub>>) : r[2] = 0
  /\ Answer("error", "none", {}, <<>>)

ContactOps ==
  \/ \E k \in Key["contact"] :
       \/ \E v \in Val["contact"] : AddContact(k[1], v)
       \/ GetContact(k[1]) \/ GetContactX25519Key(k[1]) \/ NoX25519Key(k[1])
       \/ DeleteContact(k[1])
  \/ ListContacts
MessageOps ==
  \E c \in Contact :
    \/ \E e \in Envelope : Len(messages[c]) < MaxMessages /\ AddMessage(c, e)
    \/ \E n, o \in Limits : GetMessages(c, n, o)
    \/ DeleteMessages(c)
PeerOps ==
  \/ \E k \in Key["peer"] :
       \/ \E v \in Val["peer"] : AddPeer(k[1], v)
       \/ GetPeer(k[1]) \/ DeletePeer(k[1])
  \/ \E n \in Limits : ListPeers(n)
  \/ \E s \in Source : ListPeersBySource(s)
  \/ PrunePeers
ConfigOps ==
  \E k \in Key["config"] :
    \/ \E v \in Val["config"] : SetConfig(k[1], v)
    \/ GetConfig(k[1]) \/ DeleteConfig(k[1])
BlacklistOps ==
  \/ \E k \in Key["blacklist"] :
       \/ \E v \in Val["blacklist"] : BlacklistPeer(k[1], v)
       \/ IsBlacklisted(k[1]) \/ RemoveFromBlacklist(k[1])
  \/ ListBlacklisted
GroupOps ==
  \/ \E k \in Key["group"] :
       \/ \E v \in Val["group"] : SaveGroup(k[1], v)
       \/ GetGroup(k[1]) \/ DeleteGroup(k[1])
  \/ ListGroups
SenderKeyOps ==
  \/ \E k \in Key["senderKey"] :
       \/ \E v \in Val["senderKey"] : SaveSenderKey(k[1], k[2], v)
       \/ GetSenderKey(k[1], k[2]) \/ DeleteSenderKey(k[1], k[2])
  \/ \E g \in Group : ListSenderKeys(g) \/ DeleteAllSenderKeys(g)
ChannelOps ==
  \/ \E k \in Key["channel"] :
       \/ \E v \in Val["channel"] : SaveChannel(k[1], v)
       \/ GetChannel(k[1]) \/ DeleteChannel(k[1]) \/ GetLatestChannelPostCID(k[1])
       \/ \E n, o \in Limits : GetChannelPosts(k[1], n, o)
  \/ \E k \in Key["post"], v \in Val["post"] : SaveChannelPost(k[1], k[2], v)
  \/ ListChannels

\* The calls on the tables of scope.
NextOn(scope) ==
  \/ "contact" \in scope /\ ContactOps
  \/ "message" \in scope /\ MessageOps
  \/ "peer" \in scope /\ PeerOps
  \/ "config" \in scope /\ ConfigOps
  \/ "blacklist" \in scope /\ BlacklistOps
  \/ "group" \in scope /\ GroupOps
  \/ "senderKey" \in scope /\ SenderKeyOps
  \/ "channel" \in scope /\ ChannelOps
  \/ SharedWrite
  \/ Clear

-----------------------------------------------------------------------------
(* Properties. *)

Msgs == [c \in Contact |-> [e \in Envelope |->
          Cardinality({i \in DOMAIN messages[c] : messages[c][i] = e})]]
Abstract == INSTANCE Store WITH rows <- mem, msgs <- Msgs, out <- reply

\* The store of the tests implements the interface the program's store does, so
\* that what a test on it establishes carries over, but for two things: a caller
\* that goes on writing to an object it has stored or got changes what is stored,
\* and Clear takes contacts and messages away at once (memory.go:14).
Implements ==
  Abstract!Init /\ [][SharedWrite \/ Clear \/ Abstract!Next]_(Abstract!vars)
=============================================================================
