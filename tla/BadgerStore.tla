---------------------------- MODULE BadgerStore ----------------------------
(***************************************************************************)
(* BadgerStorage (pkg/storage/badger.go, groups.go, channels.go and        *)
(* identity_v1.go): one ordered key space in which every table has a       *)
(* prefix of its own and every function is one transaction.  A key is the  *)
(* sequence of the parts it is concatenated from; the prefixes end in ':'  *)
(* and none begins another.  Ids have a fixed width, so parts never run    *)
(* into each other.                                                        *)
(*                                                                         *)
(* Marshalling and unmarshalling a record give the record back (protobuf,  *)
(* JSON); a transaction that Badger refuses has no effect.                 *)
(***************************************************************************)
EXTENDS Integers, Sequences, FiniteSets, SequencesExt

CONSTANTS
  Key, Val, Contact, Envelope, Group, Limits,   \* as in Store
  PeerInfo,      \* PeerInfo[v]: seen, connects, fails and source of the peer record v
  Source,        \* where peers are discovered
  Keep, Cutoff,  \* arguments PrunePeers is called with
  Time,          \* readings of the clock (seconds)
  PrefetchSize   \* items a Badger iterator reads ahead (100)

VARIABLES db,    \* the key space: keys to values
          open,  \* the database is open
          out    \* the answer of the last call

vars == <<db, open, out>>

Has(k) == k \in DOMAIN db
Scan(prefix) == {k \in DOMAIN db : IsPrefix(prefix, k)}
Reply(op, t, found, list) == [op |-> op, table |-> t, rows |-> found, list |-> list]

\* Keys of one table are ordered by their numbers.
KeyLess(j, k) ==
  \E i \in DOMAIN j : (\A h \in 1 .. i - 1 : j[h] = k[h]) /\ j[i] # k[i] /\ j[i] < k[i]
InOrder(S) ==
  [i \in 1 .. Cardinality(S) |->
     CHOOSE k \in S : Cardinality({j \in S : KeyLess(j, k)}) = i - 1]

contactKey(pub) == <<"c:", pub>>
messageKey(contact, timestamp, nonce) == <<"m:", contact, timestamp, nonce>>
peerKey(id) == <<"p:", id>>
configKey(key) == <<"cfg:", key>>
groupKey(g) == <<"g:", g>>
senderKeyKey(g, s) == <<"sk:", g, ":", s>>
blacklistKey(id) == <<"bl:", id>>
channelKey(c) == <<"ch:", c>>
channelPostKey(c, p) == <<"chp:", c, ":", p>>
identityKey(hash) == <<"id:", hash>>
deviceKey(id) == <<"dev:", id>>
spkKey(id) == <<"spk:", id>>

\* Mutant of opkKey: the prefix of the signed prekeys.
MutantOpkKey(id) == <<"spk:", id>>
opkKey(id) == <<"opk:", id>>

sessionKey(id) == <<"dr:", id>>
prekeyBundleKey(hash) == <<"pb:", hash>>

\* The key of the row with key k of table t.
KeyOf(t, k) ==
  CASE t = "contact"   -> contactKey(k[1])
    [] t = "peer"      -> peerKey(k[1])
    [] t = "config"    -> configKey(k[1])
    [] t = "blacklist" -> blacklistKey(k[1])
    [] t = "group"     -> groupKey(k[1])
    [] t = "senderKey" -> senderKeyKey(k[1], k[2])
    [] t = "channel"   -> channelKey(k[1])
    [] t = "post"      -> channelPostKey(k[1], k[2])
    [] t = "identity"  -> identityKey(k[1])
    [] t = "device"    -> deviceKey(k[1])
    [] t = "spk"       -> spkKey(k[1])
    [] t = "opk"       -> opkKey(k[1])
    [] t = "session"   -> sessionKey(k[1])
    [] t = "bundle"    -> prekeyBundleKey(k[1])

Init ==
  /\ db = [k \in {} |-> 0]
  /\ open = TRUE
  /\ out = Reply("none", "none", {}, <<>>)

-----------------------------------------------------------------------------
(* Transactions. *)

Written(f, k, v) == [i \in DOMAIN f \cup {k} |-> IF i = k THEN v ELSE f[i]]
Set(k, v) == Written(db, k, v)
Deleted(S) == [k \in DOMAIN db \ S |-> db[k]]

Update(new, op, t) ==
  /\ open
  /\ db' = new
  /\ out' = Reply(op, t, {}, <<>>)
  /\ UNCHANGED open

View(op, t, found, list) ==
  /\ open
  /\ out' = Reply(op, t, found, list)
  /\ UNCHANGED <<db, open>>

\* The row of key k of table t, as the set of rows found.
Row(t, k) == IF Has(KeyOf(t, k)) THEN {<<k, db[KeyOf(t, k)]>>} ELSE {}

\* The numbers in a key, which name the row.
RowKey(k) == IF Len(k) = 4 THEN <<k[2], k[4]>> ELSE <<k[2]>>
RowsAt(keys) == {<<RowKey(k), db[k]>> : k \in keys}

\* Mutant of Page: the loop stops at the limit, skipped items counted.
MutantPage(items, limit, offset) ==
  SubSeq(items, offset + 1, IF limit > 0 /\ limit < Len(items) THEN limit ELSE Len(items))

\* A page: skip offset items, stop after limit of them (0: no limit).
Page(items, limit, offset) ==
  SubSeq(items, offset + 1,
         IF limit > 0 /\ offset + limit < Len(items) THEN offset + limit ELSE Len(items))

-----------------------------------------------------------------------------
(* Contacts and messages. *)

AddContact(pub, v) == Update(Set(contactKey(pub), v), "Save", "contact")
GetContact(pub) == View("Get", "contact", Row("contact", <<pub>>), <<>>)
ListContacts == View("List", "contact", RowsAt(Scan(<<"c:">>)), <<>>)
DeleteContact(pub) == Update(Deleted({contactKey(pub)}), "Delete", "contact")

\* The value 0 is a contact without an X25519 key: an error, as is no contact.
GetContactX25519Key(pub) ==
  /\ \A r \in Row("contact", <<pub>>) : r[2] # 0
  /\ Row("contact", <<pub>>) # {}
  /\ GetContact(pub)

\* The timestamp in the key is the time of the call; the nonce is the envelope's.
AddMessage(contact, env) ==
  \E timestamp \in Time :
    Update(Set(messageKey(contact, timestamp, env), env), "Save", "message")

History(contact) ==
  LET ordered == InOrder(Scan(<<"m:", contact>>))
  IN  [i \in DOMAIN ordered |-> db[ordered[i]]]

GetMessages(contact, limit, offset) ==
  View("List", "message", {}, Page(History(contact), limit, offset))

DeleteMessages(contact) ==
  Update(Deleted(Scan(<<"m:", contact>>)), "DeleteAll", "message")

-----------------------------------------------------------------------------
(* Peers, configuration and blacklist. *)

AddPeer(id, v) == Update(Set(peerKey(id), v), "Save", "peer")
GetPeer(id) == View("Get", "peer", Row("peer", <<id>>), <<>>)
DeletePeer(id) == Update(Deleted({peerKey(id)}), "Delete", "peer")

ListPeers(limit) ==
  View("List", "peer", RowsAt(ToSet(Page(InOrder(Scan(<<"p:">>)), limit, 0))), <<>>)

OfSource(s) == {k \in Scan(<<"p:">>) : PeerInfo[db[k]].source = s}
ListPeersBySource(s) == View("ListBySource", "peer", RowsAt(OfSource(s)), <<>>)

\* Rate a is higher than rate b; without connections the rate is 0.
HigherRate(a, b) ==
  LET n(p) == PeerInfo[p].connects + PeerInfo[p].fails
  IN  IF n(b) = 0 THEN PeerInfo[a].connects > 0
      ELSE PeerInfo[a].connects * n(b) > PeerInfo[b].connects * n(a)

Outranks(a, b) ==
  \/ HigherRate(a, b)
  \/ ~HigherRate(b, a) /\ PeerInfo[a].seen > PeerInfo[b].seen

Stale(k, cutoff) == PeerInfo[db[k]].seen < cutoff

\* Mutant of Best: the lowest ranked peers are kept.
MutantBest(top, keepCount) ==
  /\ Cardinality(top) = keepCount
  /\ \A j \in top, k \in Scan(<<"p:">>) \ top : ~Outranks(db[j], db[k])

\* The keepCount best ranked of all peers, equals in any order.
Best(top, keepCount) ==
  /\ Cardinality(top) = keepCount
  /\ \A j \in top, k \in Scan(<<"p:">>) \ top : ~Outranks(db[k], db[j])

Pruned(cutoff, keepCount, gone) ==
  LET all   == Scan(<<"p:">>)
      stale == {k \in all : Stale(k, cutoff)}
  IN  IF keepCount > 0 /\ Cardinality(all) > keepCount
      THEN \E top \in SUBSET all : Best(top, keepCount) /\ gone = stale \cup (all \ top)
      ELSE gone = stale

PrunePeers(cutoff, keepCount) ==
  \E gone \in SUBSET Scan(<<"p:">>) :
    Pruned(cutoff, keepCount, gone) /\ Update(Deleted(gone), "Prune", "peer")

GetConfig(key) == View("Get", "config", Row("config", <<key>>), <<>>)
SetConfig(key, v) == Update(Set(configKey(key), v), "Save", "config")
DeleteConfig(key) == Update(Deleted({configKey(key)}), "Delete", "config")

\* Entries are written without an expiry time and so never expire.
BlacklistPeer(id, v) == Update(Set(blacklistKey(id), v), "Save", "blacklist")
IsBlacklisted(id) == View("Get", "blacklist", Row("blacklist", <<id>>), <<>>)
ListBlacklisted == View("List", "blacklist", RowsAt(Scan(<<"bl:">>)), <<>>)
RemoveFromBlacklist(id) == Update(Deleted({blacklistKey(id)}), "Delete", "blacklist")

-----------------------------------------------------------------------------
(* Groups and sender keys. *)

SaveGroup(g, v) == Update(Set(groupKey(g), v), "Save", "group")
GetGroup(g) == View("Get", "group", Row("group", <<g>>), <<>>)
ListGroups == View("List", "group", RowsAt(Scan(<<"g:">>)), <<>>)
DeleteGroup(g) == Update(Deleted({groupKey(g)}), "Delete", "group")

SaveSenderKey(g, s, v) == Update(Set(senderKeyKey(g, s), v), "Save", "senderKey")
GetSenderKey(g, s) == View("Get", "senderKey", Row("senderKey", <<g, s>>), <<>>)
ListSenderKeys(g) == View("List", "senderKey", RowsAt(Scan(<<"sk:", g, ":">>)), <<>>)
DeleteSenderKey(g, s) == Update(Deleted({senderKeyKey(g, s)}), "Delete", "senderKey")

\* The keys the iterator reads from the first of prefix on: those with the
\* prefix, the sender keys of later groups, then the signed prekeys ("spk:").
FromGroup(g) ==
  InOrder({k \in Scan(<<"sk:">>) : k[2] >= g}) \o InOrder(Scan(<<"spk:">>))

\* DeleteAllSenderKeys keeps the iterator's key buffers, not copies of them:
\* a buffer is recycled for the key PrefetchSize items further on.
Collected(g) ==
  LET read == FromGroup(g)
      n    == Cardinality(Scan(<<"sk:", g, ":">>))
      seen == IF n + PrefetchSize < Len(read) THEN n + PrefetchSize ELSE Len(read)
  IN  {read[i + PrefetchSize * ((seen - i) \div PrefetchSize)] : i \in 1 .. n}

\* Mutant of DeleteAllSenderKeys: the prefix without the group.
MutantDeleteAllSenderKeys(g) ==
  Update(Deleted(Scan(<<"sk:">>)), "DeleteAll", "senderKey")

DeleteAllSenderKeys(g) == Update(Deleted(Collected(g)), "DeleteAll", "senderKey")

-----------------------------------------------------------------------------
(* Channels. *)

SaveChannel(c, v) == Update(Set(channelKey(c), v), "Save", "channel")
GetChannel(c) == View("Get", "channel", Row("channel", <<c>>), <<>>)
ListChannels == View("List", "channel", RowsAt(Scan(<<"ch:">>)), <<>>)
DeleteChannel(c) == Update(Deleted({channelKey(c)}), "Delete", "channel")

\* The post and its channel, whose latest post becomes the previous of this
\* one, are written in one transaction.
SaveChannelPost(c, p, prev) ==
  LET stored == Set(channelPostKey(c, p), prev)
  IN  Update(IF Has(channelKey(c)) THEN Written(stored, channelKey(c), prev) ELSE stored,
             "Save", "post")

GetChannelPosts(c, limit, offset) ==
  View("List", "post",
       RowsAt(ToSet(Page(InOrder(Scan(<<"chp:", c, ":">>)), limit, offset))), <<>>)

\* The latest post of a channel: the value of its row.
GetLatestChannelPostCID(c) == View("Get", "channel", Row("channel", <<c>>), <<>>)

-----------------------------------------------------------------------------
(* Identity documents, devices, prekeys, sessions. *)

SaveIdentityDocument(i, v) == Update(Set(identityKey(i), v), "Save", "identity")
GetIdentityDocument(i) == View("Get", "identity", Row("identity", <<i>>), <<>>)
SaveDeviceCertificate(d, v) == Update(Set(deviceKey(d), v), "Save", "device")
GetDeviceCertificate(d) == View("Get", "device", Row("device", <<d>>), <<>>)
SaveSignedPrekey(id, v) == Update(Set(spkKey(id), v), "Save", "spk")
GetSignedPrekey(id) == View("Get", "spk", Row("spk", <<id>>), <<>>)
SaveOneTimePrekey(id, v) == Update(Set(opkKey(id), v), "Save", "opk")
GetOneTimePrekey(id) == View("Get", "opk", Row("opk", <<id>>), <<>>)
DeleteOneTimePrekey(id) == Update(Deleted({opkKey(id)}), "Delete", "opk")
ListOneTimePrekeys == View("List", "opk", RowsAt(Scan(<<"opk:">>)), <<>>)
CountOneTimePrekeys == View("Count", "opk", {}, <<Cardinality(Scan(<<"opk:">>))>>)
SaveSessionState(s, v) == Update(Set(sessionKey(s), v), "Save", "session")
GetSessionState(s) == View("Get", "session", Row("session", <<s>>), <<>>)
SavePrekeyBundleCache(i, v) == Update(Set(prekeyBundleKey(i), v), "Save", "bundle")
GetPrekeyBundleCache(i) == View("Get", "bundle", Row("bundle", <<i>>), <<>>)

-----------------------------------------------------------------------------

Failed == out' = Reply("error", "none", {}, <<>>)

\* A transaction that Badger refuses, or any call after Close.
StorageError == Failed /\ UNCHANGED <<db, open>>
Close == open /\ open' = FALSE /\ UNCHANGED <<db, out>>
NewBadgerStorage == ~open /\ open' = TRUE /\ UNCHANGED <<db, out>>

ContactOps ==
  \/ \E k \in Key["contact"] :
       \/ \E v \in Val["contact"] : AddContact(k[1], v)
       \/ GetContact(k[1]) \/ GetContactX25519Key(k[1]) \/ DeleteContact(k[1])
  \/ ListContacts
MessageOps ==
  \E c \in Contact :
    \/ \E e \in Envelope : AddMessage(c, e)
    \/ \E n, o \in Limits : GetMessages(c, n, o)
    \/ DeleteMessages(c)
PeerOps ==
  \/ \E k \in Key["peer"] :
       \/ \E v \in Val["peer"] : AddPeer(k[1], v)
       \/ GetPeer(k[1]) \/ DeletePeer(k[1])
  \/ \E n \in Limits : ListPeers(n)
  \/ \E s \in Source : ListPeersBySource(s)
  \/ \E c \in Cutoff, n \in Keep : PrunePeers(c, n)
ConfigOps ==
  \E k \in Key["config"] :
    \/ \E v \in Val["config"] : SetConfig(k[1], v)
    \/ GetConfig(k[1]) \/ DeleteConfig(k[1])
BlacklistOps ==
  \/ \E k \in Key["blacklist"] :
       \/ \E v \in Val["blacklist"] : BlacklistPeer(k[1], v)
       \/ IsBlacklisted(k[1]) \/ RemoveFromBlacklist(k[1])
  \/ ListBlacklisted
GroupOps ==
  \/ \E k \in Key["group"] :
       \/ \E v \in Val["group"] : SaveGroup(k[1], v)
       \/ GetGroup(k[1]) \/ DeleteGroup(k[1])
  \/ ListGroups
SenderKeyOps ==
  \/ \E k \in Key["senderKey"] :
       \/ \E v \in Val["senderKey"] : SaveSenderKey(k[1], k[2], v)
       \/ GetSenderKey(k[1], k[2]) \/ DeleteSenderKey(k[1], k[2])
  \/ \E g \in Group : ListSenderKeys(g) \/ DeleteAllSenderKeys(g)
ChannelOps ==
  \/ \E k \in Key["channel"] :
       \/ \E v \in Val["channel"] : SaveChannel(k[1], v)
       \/ GetChannel(k[1]) \/ DeleteChannel(k[1]) \/ GetLatestChannelPostCID(k[1])
       \/ \E n, o \in Limits : GetChannelPosts(k[1], n, o)
  \/ \E k \in Key["post"], v \in Val["post"] : SaveChannelPost(k[1], k[2], v)
  \/ ListChannels
IdentityOps ==
  \/ \E k \in Key["identity"] :
       GetIdentityDocument(k[1]) \/ \E v \in Val["identity"] : SaveIdentityDocument(k[1], v)
  \/ \E k \in Key["device"] :
       GetDeviceCertificate(k[1]) \/ \E v \in Val["device"] : SaveDeviceCertificate(k[1], v)
  \/ \E k \in Key["bundle"] :
       GetPrekeyBundleCache(k[1]) \/ \E v \in Val["bundle"] : SavePrekeyBundleCache(k[1], v)
  \/ \E k \in Key["session"] :
       GetSessionState(k[1]) \/ \E v \in Val["session"] : SaveSessionState(k[1], v)
PrekeyOps ==
  \/ \E k \in Key["spk"] :
       GetSignedPrekey(k[1]) \/ \E v \in Val["spk"] : SaveSignedPrekey(k[1], v)
  \/ \E k \in Key["opk"] :
       \/ \E v \in Val["opk"] : SaveOneTimePrekey(k[1], v)
       \/ GetOneTimePrekey(k[1]) \/ DeleteOneTimePrekey(k[1])
  \/ ListOneTimePrekeys \/ CountOneTimePrekeys

\* The calls on the tables of scope.
NextOn(scope) ==
  \/ "contact" \in scope /\ ContactOps
  \/ "message" \in scope /\ MessageOps
  \/ "peer" \in scope /\ PeerOps
  \/ "config" \in scope /\ ConfigOps
  \/ "blacklist" \in scope /\ BlacklistOps
  \/ "group" \in scope /\ GroupOps
  \/ "senderKey" \in scope /\ SenderKeyOps
  \/ "channel" \in scope /\ ChannelOps
  \/ "identity" \in scope /\ IdentityOps
  \/ "prekey" \in scope /\ PrekeyOps
  \/ StorageError \/ Close \/ NewBadgerStorage

-----------------------------------------------------------------------------
(* Properties. *)

\* The rows and messages the key space stands for.
Rows == [t \in DOMAIN Key |->
          LET present == {k \in Key[t] : Has(KeyOf(t, k))}
          IN  [k \in present |-> db[KeyOf(t, k)]]]
Msgs == [c \in Contact |-> [e \in Envelope |->
          Cardinality({k \in Scan(<<"m:", c>>) : db[k] = e})]]
Abstract == INSTANCE Store WITH rows <- Rows, msgs <- Msgs

\* The Badger store implements the Storage interface: every function acts on the
\* rows of its own table and answers what that table holds, although all tables
\* share one key space and listings are prefix scans (storage.go:72).
Implements == Abstract!Spec

\* Every key belongs to one row of one table: no two tables, and no two rows of
\* one, run into the same key (the key functions of badger.go, groups.go,
\* channels.go and identity_v1.go).
KeysApart ==
  \A d \in DOMAIN db :
    LET owners == {<<"message", m>> : m \in {i \in Contact \X Time \X Envelope :
                                                messageKey(i[1], i[2], i[3]) = d}}
                  \cup UNION {{<<t, k>> : k \in {i \in Key[t] : KeyOf(t, i) = d}} : t \in DOMAIN Key}
    IN  Cardinality(owners) = 1

\* Reading the history page by page, as the chat view does, shows every stored
\* message once and in order, whatever the page size (badger.go:277-285).
PagesTileHistory ==
  \A c \in Contact : \A n \in Limits \ {0} :
    LET H == History(c)
        page(p) == Page(H, n, p * n)
        place(i) == ((i - 1) % n) + 1
    IN  /\ \A i \in DOMAIN H :
             place(i) \in DOMAIN page((i - 1) \div n) /\ page((i - 1) \div n)[place(i)] = H[i]
        /\ \A p \in 0 .. Len(H) : \A i \in DOMAIN page(p) : i <= n /\ p * n + i <= Len(H)

\* The one key space serves all tables: keys stay apart and the pages of a
\* history are the history (badger.go).
KeySpaceSound == KeysApart /\ PagesTileHistory
=============================================================================
