---------------------------- MODULE StoresProofs ----------------------------
(***************************************************************************)
(* Proofs about the two stores, for any contacts, envelopes, keys, values, *)
(* page sizes and sequences of calls.                                      *)
(*                                                                         *)
(* The keys of rows and messages are told apart by their prefix and their  *)
(* numbers, so a scan with the prefix of a table or a group finds its rows *)
(* and nothing else (ScanTable, ScanGroup, ScanMessages), and what is      *)
(* written or deleted under a key changes one row of one table (RowPut,    *)
(* RowsDeleted).  KeyInv says that no other key is ever stored.  InOrder   *)
(* lists such a set of keys, each once (InOrderLists), and a page of a     *)
(* list is the part of it the interface asks for (PageOf).                 *)
(*                                                                         *)
(* With that every call of the Badger store is a step of Store             *)
(* (BadgerStep), except for DeleteAllSenderKeys when the iterator recycles *)
(* a key it still needs, which ReadAhead excludes; every call of the       *)
(* memory store is one without exception (MemoryNext).                     *)
(***************************************************************************)
EXTENDS MCStores, FiniteSetTheorems, SequenceTheorems, WellFoundedInduction, TLAPS

-----------------------------------------------------------------------------
(* Keys *)

\* The prefix of the keys of table t.
Tag(t) ==
  CASE t = "contact"   -> "c:"
    [] t = "peer"      -> "p:"
    [] t = "config"    -> "cfg:"
    [] t = "blacklist" -> "bl:"
    [] t = "group"     -> "g:"
    [] t = "senderKey" -> "sk:"
    [] t = "channel"   -> "ch:"
    [] t = "post"      -> "chp:"
    [] t = "identity"  -> "id:"
    [] t = "device"    -> "dev:"
    [] t = "spk"       -> "spk:"
    [] t = "opk"       -> "opk:"
    [] t = "session"   -> "dr:"
    [] t = "bundle"    -> "pb:"

\* The tables whose rows have two numbers for a key.
Pair == {"senderKey", "post"}

RowKeys == {B!KeyOf(o[1], o[2]) : o \in UNION {{t} \X Key[t] : t \in DOMAIN Key}}
MessageKeys == {B!messageKey(m[1], m[2], m[3]) : m \in Contact \X Time \X Envelope}

LEMMA TagApart ==
  ASSUME NEW t \in DOMAIN Key, NEW u \in DOMAIN Key, Tag(t) = Tag(u)
  PROVE  t = u
BY KeyAssumption DEF Tag, B!Abstract!Table

LEMMA TagNotMessage ==
  ASSUME NEW t \in DOMAIN Key
  PROVE  Tag(t) # "m:"
BY KeyAssumption DEF Tag, B!Abstract!Table

\* A row has its table's prefix and the numbers of its key.
LEMMA KeyForm ==
  ASSUME NEW t \in DOMAIN Key, NEW k
  PROVE  B!KeyOf(t, k) = IF t \in Pair THEN <<Tag(t), k[1], ":", k[2]>> ELSE <<Tag(t), k[1]>>
<1> USE KeyAssumption DEF Pair, Tag, B!KeyOf
<1>1. CASE t \in {"contact", "peer", "config", "blacklist"}
  BY <1>1 DEF B!contactKey, B!peerKey, B!configKey, B!blacklistKey
<1>2. CASE t \in {"group", "senderKey", "channel", "post"}
  BY <1>2 DEF B!groupKey, B!senderKeyKey, B!channelKey, B!channelPostKey
<1>3. CASE t \in {"identity", "device", "spk"}
  BY <1>3 DEF B!identityKey, B!deviceKey, B!spkKey
<1>4. CASE t \in {"opk", "session", "bundle"}
  BY <1>4 DEF B!opkKey, B!sessionKey, B!prekeyBundleKey
<1> QED
  BY <1>1, <1>2, <1>3, <1>4 DEF B!Abstract!Table

LEMMA KeyNumbers ==
  ASSUME NEW t \in DOMAIN Key, NEW k \in Key[t]
  PROVE  /\ t \in Pair => k = <<k[1], k[2]>> /\ k[1] \in Int /\ k[2] \in Int
         /\ t \notin Pair => k = <<k[1]>> /\ k[1] \in Int
BY KeyAssumption DEF Pair

\* No two rows, of one table or of two, have one key.
LEMMA KeyOfApart ==
  ASSUME NEW t \in DOMAIN Key, NEW u \in DOMAIN Key, NEW j \in Key[t], NEW k \in Key[u],
         B!KeyOf(t, j) = B!KeyOf(u, k)
  PROVE  t = u /\ j = k
<1>1. B!KeyOf(t, j)[1] = Tag(t) /\ B!KeyOf(u, k)[1] = Tag(u)
  BY KeyForm
<1>2. t = u
  BY <1>1, TagApart
<1>3. CASE t \in Pair
  <2>1. <<Tag(t), j[1], ":", j[2]>> = <<Tag(t), k[1], ":", k[2]>>
    BY <1>2, <1>3, KeyForm
  <2> QED
    BY <2>1, <1>2, <1>3, KeyNumbers
<1>4. CASE t \notin Pair
  <2>1. <<Tag(t), j[1]>> = <<Tag(t), k[1]>>
    BY <1>2, <1>4, KeyForm
  <2> QED
    BY <2>1, <1>2, <1>4, KeyNumbers
<1> QED
  BY <1>2, <1>3, <1>4

LEMMA MessageApart ==
  ASSUME NEW t \in DOMAIN Key, NEW k, NEW c, NEW s, NEW e
  PROVE  B!KeyOf(t, k) # B!messageKey(c, s, e)
<1>1. B!messageKey(c, s, e) = <<"m:", c, s, e>>
  BY DEF B!messageKey
<1>2. Tag(t) # "m:"
  BY TagNotMessage
<1> QED
  BY <1>1, <1>2, KeyForm

LEMMA MessageKeyOf ==
  ASSUME NEW c1, NEW s1, NEW e1, NEW c2, NEW s2, NEW e2,
         B!messageKey(c1, s1, e1) = B!messageKey(c2, s2, e2)
  PROVE  c1 = c2 /\ s1 = s2 /\ e1 = e2
BY DEF B!messageKey

-----------------------------------------------------------------------------
(* The invariant of the key space *)

\* The database is a finite map, every key is one of a row or of a message, a
\* message is stored under its own nonce and the value of a peer is a peer record.
KeyInv ==
  /\ db = [k \in DOMAIN db |-> db[k]]
  /\ IsFiniteSet(DOMAIN db)
  /\ DOMAIN db \subseteq RowKeys \cup MessageKeys
  /\ \A c \in Contact, s \in Time, e \in Envelope :
       B!messageKey(c, s, e) \in DOMAIN db => db[B!messageKey(c, s, e)] = e
  /\ \A k \in Key["peer"] :
       B!KeyOf("peer", k) \in DOMAIN db => db[B!KeyOf("peer", k)] \in Val["peer"]

LEMMA RowKey ==
  ASSUME NEW t \in DOMAIN Key, NEW k \in Key[t]
  PROVE  B!KeyOf(t, k) \in RowKeys
<1>1. <<t, k>> \in UNION {{u} \X Key[u] : u \in DOMAIN Key}
  OBVIOUS
<1> QED
  BY <1>1 DEF RowKeys

LEMMA RowKeyOf ==
  ASSUME NEW d \in RowKeys
  PROVE  \E t \in DOMAIN Key : \E k \in Key[t] : d = B!KeyOf(t, k)
<1>1. PICK o \in UNION {{u} \X Key[u] : u \in DOMAIN Key} : d = B!KeyOf(o[1], o[2])
  BY DEF RowKeys
<1>2. PICK t \in DOMAIN Key : o \in {t} \X Key[t]
  BY <1>1
<1>3. o[1] = t /\ o[2] \in Key[t]
  BY <1>2
<1> QED
  BY <1>1, <1>3

LEMMA MessageKeyIn ==
  ASSUME NEW c \in Contact, NEW s \in Time, NEW e \in Envelope
  PROVE  B!messageKey(c, s, e) \in MessageKeys
<1>1. <<c, s, e>> \in Contact \X Time \X Envelope
  OBVIOUS
<1> QED
  BY <1>1 DEF MessageKeys

LEMMA MessageKeyFrom ==
  ASSUME NEW d \in MessageKeys
  PROVE  \E c \in Contact, s \in Time, e \in Envelope : d = B!messageKey(c, s, e)
<1>1. PICK m \in Contact \X Time \X Envelope : d = B!messageKey(m[1], m[2], m[3])
  BY DEF MessageKeys
<1>2. m[1] \in Contact /\ m[2] \in Time /\ m[3] \in Envelope
  OBVIOUS
<1> QED
  BY <1>1, <1>2

\* Writing a row.
LEMMA RowWritten ==
  ASSUME KeyInv, NEW t \in DOMAIN Key, NEW k \in Key[t], NEW v,
         t = "peer" => v \in Val["peer"],
         db' = B!Written(db, B!KeyOf(t, k), v)
  PROVE  KeyInv'
<1> DEFINE d == B!KeyOf(t, k)
<1>1. db' = [i \in DOMAIN db \cup {d} |-> IF i = d THEN v ELSE db[i]]
  BY DEF B!Written
<1>2. d \in RowKeys
  BY RowKey
<1>3. \A c, s, e : B!messageKey(c, s, e) # d
  BY MessageApart
<1>4. \A j \in Key["peer"] : B!KeyOf("peer", j) = d => t = "peer"
  BY KeyOfApart, KeyAssumption DEF B!Abstract!Table
<1> HIDE DEF d
<1>5. DOMAIN db' = DOMAIN db \cup {d} /\ db' = [i \in DOMAIN db' |-> db'[i]]
  BY <1>1
<1>6. IsFiniteSet(DOMAIN db')
  BY <1>5, FS_AddElement DEF KeyInv
<1>7. DOMAIN db' \subseteq RowKeys \cup MessageKeys
  BY <1>5, <1>2 DEF KeyInv
<1>8. ASSUME NEW c \in Contact, NEW s \in Time, NEW e \in Envelope,
             B!messageKey(c, s, e) \in DOMAIN db'
      PROVE  db'[B!messageKey(c, s, e)] = e
  BY <1>8, <1>1, <1>3 DEF KeyInv
<1>9. ASSUME NEW j \in Key["peer"], B!KeyOf("peer", j) \in DOMAIN db'
      PROVE  db'[B!KeyOf("peer", j)] \in Val["peer"]
  BY <1>9, <1>1, <1>4 DEF KeyInv
<1>10. RowKeys' = RowKeys /\ MessageKeys' = MessageKeys
  OBVIOUS
<1> QED
  BY <1>5, <1>6, <1>7, <1>8, <1>9, <1>10 DEF KeyInv

\* Storing a message.
LEMMA MessageWritten ==
  ASSUME KeyInv, NEW c \in Contact, NEW s \in Time, NEW e \in Envelope,
         db' = B!Written(db, B!messageKey(c, s, e), e)
  PROVE  KeyInv'
<1> DEFINE d == B!messageKey(c, s, e)
<1>1. db' = [i \in DOMAIN db \cup {d} |-> IF i = d THEN e ELSE db[i]]
  BY DEF B!Written
<1>2. d \in MessageKeys
  BY MessageKeyIn
<1>3. \A c1, s1, e1 : B!messageKey(c1, s1, e1) = d => e1 = e
  BY MessageKeyOf
<1>4. \A j \in Key["peer"] : B!KeyOf("peer", j) # d
  BY MessageApart, KeyAssumption DEF B!Abstract!Table
<1> HIDE DEF d
<1>5. DOMAIN db' = DOMAIN db \cup {d} /\ db' = [i \in DOMAIN db' |-> db'[i]]
  BY <1>1
<1>6. IsFiniteSet(DOMAIN db')
  BY <1>5, FS_AddElement DEF KeyInv
<1>7. DOMAIN db' \subseteq RowKeys \cup MessageKeys
  BY <1>5, <1>2 DEF KeyInv
<1>8. ASSUME NEW c1 \in Contact, NEW s1 \in Time, NEW e1 \in Envelope,
             B!messageKey(c1, s1, e1) \in DOMAIN db'
      PROVE  db'[B!messageKey(c1, s1, e1)] = e1
  BY <1>8, <1>1, <1>3 DEF KeyInv
<1>9. ASSUME NEW j \in Key["peer"], B!KeyOf("peer", j) \in DOMAIN db'
      PROVE  db'[B!KeyOf("peer", j)] \in Val["peer"]
  BY <1>9, <1>1, <1>4 DEF KeyInv
<1> QED
  BY <1>5, <1>6, <1>7, <1>8, <1>9 DEF KeyInv

\* Deleting keys.
LEMMA KeysDeleted ==
  ASSUME KeyInv, NEW S, db' = B!Deleted(S)
  PROVE  KeyInv'
<1>1. db' = [k \in DOMAIN db \ S |-> db[k]]
  BY DEF B!Deleted
<1>2. DOMAIN db' = DOMAIN db \ S /\ db' = [i \in DOMAIN db' |-> db'[i]]
  BY <1>1
<1>3. IsFiniteSet(DOMAIN db')
  BY <1>2, FS_Subset DEF KeyInv
<1>4. ASSUME NEW c \in Contact, NEW s \in Time, NEW e \in Envelope,
             B!messageKey(c, s, e) \in DOMAIN db'
      PROVE  db'[B!messageKey(c, s, e)] = e
  BY <1>4, <1>1 DEF KeyInv
<1>5. ASSUME NEW j \in Key["peer"], B!KeyOf("peer", j) \in DOMAIN db'
      PROVE  db'[B!KeyOf("peer", j)] \in Val["peer"]
  BY <1>5, <1>1 DEF KeyInv
<1> QED
  BY <1>2, <1>3, <1>4, <1>5 DEF KeyInv

-----------------------------------------------------------------------------
(* Rows and messages the key space stands for *)

LEMMA RowsOf ==
  /\ DOMAIN B!Rows = DOMAIN Key
  /\ \A t \in DOMAIN Key :
       B!Rows[t] = [k \in {j \in Key[t] : B!KeyOf(t, j) \in DOMAIN db} |-> db[B!KeyOf(t, k)]]
BY DEF B!Rows, B!Has

\* The scan for the messages of a contact finds no row.
LEMMA RowNotMessage ==
  ASSUME NEW t \in DOMAIN Key, NEW k, NEW c
  PROVE  ~B!IsPrefix(<<"m:", c>>, B!KeyOf(t, k))
<1>1. Tag(t) # "m:"
  BY TagNotMessage
<1>2. CASE t \in Pair
  <2>1. B!KeyOf(t, k) = <<Tag(t), k[1], ":", k[2]>>
    BY <1>2, KeyForm
  <2> QED
    BY <1>1, <2>1 DEF B!IsPrefix
<1>3. CASE t \notin Pair
  <2>1. B!KeyOf(t, k) = <<Tag(t), k[1]>>
    BY <1>3, KeyForm
  <2> QED
    BY <1>1, <2>1 DEF B!IsPrefix
<1> QED
  BY <1>2, <1>3

\* Messages are untouched by what happens to other keys.
LEMMA MsgsKept ==
  ASSUME NEW S, \A i \in S : \A c : ~B!IsPrefix(<<"m:", c>>, i),
         DOMAIN db' \ S = DOMAIN db \ S, \A i \in DOMAIN db \ S : db'[i] = db[i]
  PROVE  B!Msgs' = B!Msgs
<1> DEFINE Of(f, c, e) == {k \in {j \in DOMAIN f : B!IsPrefix(<<"m:", c>>, j)} : f[k] = e}
<1>1. \A c, e : Of(db', c, e) = Of(db, c, e)
  OBVIOUS
<1>2. B!Msgs = [c \in Contact |-> [e \in Envelope |-> B!Cardinality(Of(db, c, e))]]
  BY DEF B!Msgs, B!Scan
<1>3. B!Msgs' = [c \in Contact |-> [e \in Envelope |-> B!Cardinality(Of(db', c, e))]]
  BY DEF B!Msgs, B!Scan
<1> HIDE DEF Of
<1> QED
  BY <1>1, <1>2, <1>3

\* The rows of table t that the key space f stands for.
RowIn(f, t) == [k \in {j \in Key[t] : B!KeyOf(t, j) \in DOMAIN f} |-> f[B!KeyOf(t, k)]]

\* Writing a row puts it into its table and leaves the others alone.
LEMMA RowPut ==
  ASSUME NEW f, NEW t \in DOMAIN Key, NEW k \in Key[t], NEW v
  PROVE  /\ RowIn(B!Written(f, B!KeyOf(t, k), v), t) = B!Abstract!Put(RowIn(f, t), k, v)
         /\ \A u \in DOMAIN Key : u # t => RowIn(B!Written(f, B!KeyOf(t, k), v), u) = RowIn(f, u)
<1> DEFINE d == B!KeyOf(t, k)
           g == B!Written(f, d, v)
           Present(h, u) == {j \in Key[u] : B!KeyOf(u, j) \in DOMAIN h}
<1>1. g = [i \in DOMAIN f \cup {d} |-> IF i = d THEN v ELSE f[i]]
  BY DEF B!Written
<1>2. \A h, u : RowIn(h, u) = [j \in Present(h, u) |-> h[B!KeyOf(u, j)]]
  BY DEF RowIn
<1> HIDE DEF g
<1>3. ASSUME NEW u \in DOMAIN Key, u # t
      PROVE  RowIn(g, u) = RowIn(f, u)
  <2>1. \A j \in Key[u] : B!KeyOf(u, j) # d
    BY <1>3, KeyOfApart
  <2>2. Present(g, u) = Present(f, u)
    BY <2>1, <1>1
  <2>3. \A j \in Present(f, u) : g[B!KeyOf(u, j)] = f[B!KeyOf(u, j)]
    BY <2>1, <1>1
  <2>4. RowIn(g, u) = [j \in Present(f, u) |-> g[B!KeyOf(u, j)]]
    BY <1>2, <2>2
  <2> HIDE DEF Present
  <2> QED
    BY <1>2, <2>3, <2>4
<1>4. RowIn(g, t) = B!Abstract!Put(RowIn(f, t), k, v)
  <2>1. \A j \in Key[t] : B!KeyOf(t, j) = d <=> j = k
    BY KeyOfApart
  <2>2. Present(g, t) = Present(f, t) \cup {k}
    BY <2>1, <1>1
  <2>3. \A j \in Present(f, t) \cup {k} :
          g[B!KeyOf(t, j)] = IF j = k THEN v ELSE f[B!KeyOf(t, j)]
    BY <2>1, <1>1
  <2>4. /\ DOMAIN RowIn(f, t) = Present(f, t)
        /\ \A j \in Present(f, t) : RowIn(f, t)[j] = f[B!KeyOf(t, j)]
    BY <1>2
  <2>5. RowIn(g, t) = [j \in Present(f, t) \cup {k} |-> g[B!KeyOf(t, j)]]
    BY <1>2, <2>2
  <2> HIDE DEF Present
  <2> QED
    BY <2>3, <2>4, <2>5 DEF B!Abstract!Put
<1> QED
  BY <1>3, <1>4 DEF g

LEMMA RowsIn ==
  B!Rows = [t \in DOMAIN Key |-> RowIn(db, t)] /\ B!Rows' = [t \in DOMAIN Key |-> RowIn(db', t)]
BY DEF B!Rows, B!Has, RowIn

\* What a row is after writing the row with key k of table t.
LEMMA RowsWritten ==
  ASSUME NEW t \in DOMAIN Key, NEW k \in Key[t], NEW v,
         db' = B!Written(db, B!KeyOf(t, k), v)
  PROVE  /\ B!Rows' = [B!Rows EXCEPT ![t] = B!Abstract!Put(@, k, v)]
         /\ B!Msgs' = B!Msgs
<1> DEFINE d == B!KeyOf(t, k)
<1>1. db' = [i \in DOMAIN db \cup {d} |-> IF i = d THEN v ELSE db[i]]
  BY DEF B!Written
<1>2. /\ RowIn(db', t) = B!Abstract!Put(RowIn(db, t), k, v)
      /\ \A u \in DOMAIN Key : u # t => RowIn(db', u) = RowIn(db, u)
  BY RowPut
<1>3. B!Rows' = [B!Rows EXCEPT ![t] = B!Abstract!Put(@, k, v)]
  BY <1>2, RowsIn
<1>4. ASSUME NEW c PROVE ~B!IsPrefix(<<"m:", c>>, d)
  BY RowNotMessage
<1>5. B!Msgs' = B!Msgs
  <2> HIDE DEF d
  <2>1. DOMAIN db' \ {d} = DOMAIN db \ {d} /\ \A i \in DOMAIN db \ {d} : db'[i] = db[i]
    BY <1>1
  <2> QED
    BY <1>4, <2>1, MsgsKept
<1> QED
  BY <1>3, <1>5

\* What is left of the rows after deleting those of table t with the keys in G.
LEMMA RowsDeleted ==
  ASSUME NEW t \in DOMAIN Key, NEW G \in SUBSET Key[t],
         db' = B!Deleted({B!KeyOf(t, k) : k \in G})
  PROVE  /\ B!Rows' = [B!Rows EXCEPT ![t] = B!Abstract!Without(@, G)]
         /\ B!Msgs' = B!Msgs
<1> DEFINE S == {B!KeyOf(t, k) : k \in G}
           Present(f, u) == {j \in Key[u] : B!KeyOf(u, j) \in DOMAIN f}
           Row(f, u) == [j \in Present(f, u) |-> f[B!KeyOf(u, j)]]
<1>1. db' = [i \in DOMAIN db \ S |-> db[i]]
  BY DEF B!Deleted
<1>2. B!Rows = [u \in DOMAIN Key |-> Row(db, u)] /\ B!Rows' = [u \in DOMAIN Key |-> Row(db', u)]
  BY DEF B!Rows, B!Has
<1>3. ASSUME NEW u \in DOMAIN Key, u # t
      PROVE  Row(db', u) = Row(db, u)
  <2>1. \A j \in Key[u] : B!KeyOf(u, j) \notin S
    BY <1>3, KeyOfApart
  <2> HIDE DEF S
  <2>2. Present(db', u) = Present(db, u)
    BY <2>1, <1>1
  <2>3. \A j \in Present(db, u) : db'[B!KeyOf(u, j)] = db[B!KeyOf(u, j)]
    BY <2>1, <1>1
  <2> QED
    BY <2>2, <2>3
<1>4. Row(db', t) = B!Abstract!Without(Row(db, t), G)
  <2>1. \A j \in Key[t] : B!KeyOf(t, j) \in S <=> j \in G
    BY KeyOfApart
  <2> HIDE DEF S
  <2>2. Present(db', t) = Present(db, t) \ G
    BY <2>1, <1>1
  <2>3. \A j \in Present(db, t) \ G : db'[B!KeyOf(t, j)] = Row(db, t)[j]
    BY <2>1, <1>1
  <2>4. DOMAIN Row(db, t) = Present(db, t)
    OBVIOUS
  <2> HIDE DEF Present
  <2>5. Row(db', t) = [j \in Present(db, t) \ G |-> db'[B!KeyOf(t, j)]]
    BY <2>2
  <2> QED
    BY <2>3, <2>4, <2>5 DEF B!Abstract!Without
<1>5. B!Rows' = [B!Rows EXCEPT ![t] = B!Abstract!Without(@, G)]
  <2> HIDE DEF Row, Present
  <2> QED
    BY <1>2, <1>3, <1>4
<1>6. ASSUME NEW i \in S, NEW c PROVE ~B!IsPrefix(<<"m:", c>>, i)
  <2>1. PICK k \in G : i = B!KeyOf(t, k)
    OBVIOUS
  <2> QED
    BY <2>1, RowNotMessage
<1>7. B!Msgs' = B!Msgs
  <2> HIDE DEF S
  <2>1. DOMAIN db' \ S = DOMAIN db \ S /\ \A i \in DOMAIN db \ S : db'[i] = db[i]
    BY <1>1
  <2> QED
    BY <1>6, <2>1, MsgsKept
<1> QED
  BY <1>5, <1>7

\* Rows are untouched by what happens to messages.
LEMMA RowsKept ==
  ASSUME NEW S, S \cap RowKeys = {}, DOMAIN db' \ S = DOMAIN db \ S,
         \A i \in DOMAIN db \ S : db'[i] = db[i]
  PROVE  B!Rows' = B!Rows
<1> DEFINE Present(f, u) == {j \in Key[u] : B!KeyOf(u, j) \in DOMAIN f}
           Row(f, u) == [j \in Present(f, u) |-> f[B!KeyOf(u, j)]]
<1>1. B!Rows = [u \in DOMAIN Key |-> Row(db, u)] /\ B!Rows' = [u \in DOMAIN Key |-> Row(db', u)]
  BY DEF B!Rows, B!Has
<1>2. ASSUME NEW u \in DOMAIN Key
      PROVE  Row(db', u) = Row(db, u)
  <2>1. \A j \in Key[u] : B!KeyOf(u, j) \notin S
    BY RowKey
  <2>2. Present(db', u) = Present(db, u)
    BY <2>1
  <2>3. \A j \in Present(db, u) : db'[B!KeyOf(u, j)] = db[B!KeyOf(u, j)]
    BY <2>1
  <2> QED
    BY <2>2, <2>3
<1> HIDE DEF Row
<1> QED
  BY <1>1, <1>2

-----------------------------------------------------------------------------
(* Scans *)

LEMMA PrefixOne ==
  ASSUME NEW p, NEW t \in DOMAIN Key, NEW k
  PROVE  B!IsPrefix(<<p>>, B!KeyOf(t, k)) <=> p = Tag(t)
<1>1. CASE t \in Pair
  <2>1. B!KeyOf(t, k) = <<Tag(t), k[1], ":", k[2]>>
    BY <1>1, KeyForm
  <2> QED
    BY <2>1 DEF B!IsPrefix
<1>2. CASE t \notin Pair
  <2>1. B!KeyOf(t, k) = <<Tag(t), k[1]>>
    BY <1>2, KeyForm
  <2> QED
    BY <2>1 DEF B!IsPrefix
<1> QED
  BY <1>1, <1>2

LEMMA PrefixGroup ==
  ASSUME NEW p, NEW g, NEW t \in DOMAIN Key, NEW k
  PROVE  B!IsPrefix(<<p, g, ":">>, B!KeyOf(t, k)) <=> t \in Pair /\ p = Tag(t) /\ g = k[1]
<1>1. CASE t \in Pair
  <2>1. B!KeyOf(t, k) = <<Tag(t), k[1], ":", k[2]>>
    BY <1>1, KeyForm
  <2> QED
    BY <1>1, <2>1 DEF B!IsPrefix
<1>2. CASE t \notin Pair
  <2>1. B!KeyOf(t, k) = <<Tag(t), k[1]>>
    BY <1>2, KeyForm
  <2> QED
    BY <1>2, <2>1 DEF B!IsPrefix
<1> QED
  BY <1>1, <1>2

\* Neither is the key of a message.
LEMMA PrefixMessage ==
  ASSUME NEW t \in DOMAIN Key, NEW g, NEW c, NEW s, NEW e
  PROVE  /\ ~B!IsPrefix(<<Tag(t)>>, B!messageKey(c, s, e))
         /\ ~B!IsPrefix(<<Tag(t), g, ":">>, B!messageKey(c, s, e))
         /\ B!IsPrefix(<<"m:", g>>, B!messageKey(c, s, e)) <=> g = c
<1>1. Tag(t) # "m:"
  BY TagNotMessage
<1> QED
  BY <1>1 DEF B!messageKey, B!IsPrefix

\* A scan with the prefix of a table finds its rows.
LEMMA ScanTable ==
  ASSUME KeyInv, NEW t \in DOMAIN Key
  PROVE  B!Scan(<<Tag(t)>>) = {B!KeyOf(t, k) : k \in DOMAIN B!Rows[t]}
<1>1. DOMAIN B!Rows[t] = {j \in Key[t] : B!KeyOf(t, j) \in DOMAIN db}
  BY RowsOf
<1>2. ASSUME NEW d \in B!Scan(<<Tag(t)>>)
      PROVE  d \in {B!KeyOf(t, k) : k \in DOMAIN B!Rows[t]}
  <2>1. d \in DOMAIN db /\ B!IsPrefix(<<Tag(t)>>, d)
    BY DEF B!Scan
  <2>2. d \notin MessageKeys
    <3> SUFFICES ASSUME d \in MessageKeys PROVE FALSE
      OBVIOUS
    <3>1. PICK x \in Contact, s \in Time, e \in Envelope : d = B!messageKey(x, s, e)
      BY MessageKeyFrom
    <3> QED
      BY <2>1, <3>1, PrefixMessage
  <2>3. PICK u \in DOMAIN Key : \E k \in Key[u] : d = B!KeyOf(u, k)
    BY <2>1, <2>2, RowKeyOf DEF KeyInv
  <2>4. PICK k \in Key[u] : d = B!KeyOf(u, k)
    BY <2>3
  <2>5. u = t
    BY <2>1, <2>4, PrefixOne, TagApart
  <2> QED
    BY <2>1, <2>4, <2>5, <1>1
<1>3. ASSUME NEW k \in DOMAIN B!Rows[t]
      PROVE  B!KeyOf(t, k) \in B!Scan(<<Tag(t)>>)
  BY <1>1, PrefixOne DEF B!Scan
<1> QED
  BY <1>2, <1>3

\* A scan with the prefix of a group or channel finds the rows whose key begins
\* with it.
LEMMA ScanGroup ==
  ASSUME KeyInv, NEW t \in Pair, NEW g
  PROVE  B!Scan(<<Tag(t), g, ":">>) = {B!KeyOf(t, k) : k \in {j \in DOMAIN B!Rows[t] : j[1] = g}}
<1>0. t \in DOMAIN Key
  BY KeyAssumption DEF Pair, B!Abstract!Table
<1>1. DOMAIN B!Rows[t] = {j \in Key[t] : B!KeyOf(t, j) \in DOMAIN db}
  BY <1>0, RowsOf
<1>2. ASSUME NEW d \in B!Scan(<<Tag(t), g, ":">>)
      PROVE  d \in {B!KeyOf(t, k) : k \in {j \in DOMAIN B!Rows[t] : j[1] = g}}
  <2>1. d \in DOMAIN db /\ B!IsPrefix(<<Tag(t), g, ":">>, d)
    BY DEF B!Scan
  <2>2. d \notin MessageKeys
    <3> SUFFICES ASSUME d \in MessageKeys PROVE FALSE
      OBVIOUS
    <3>1. PICK x \in Contact, s \in Time, e \in Envelope : d = B!messageKey(x, s, e)
      BY MessageKeyFrom
    <3> QED
      BY <1>0, <2>1, <3>1, PrefixMessage
  <2>3. PICK u \in DOMAIN Key : \E k \in Key[u] : d = B!KeyOf(u, k)
    BY <2>1, <2>2, RowKeyOf DEF KeyInv
  <2>4. PICK k \in Key[u] : d = B!KeyOf(u, k)
    BY <2>3
  <2>5. u = t /\ g = k[1]
    BY <1>0, <2>1, <2>4, PrefixGroup, TagApart
  <2> QED
    BY <2>1, <2>4, <2>5, <1>1
<1>3. ASSUME NEW k \in DOMAIN B!Rows[t], k[1] = g
      PROVE  B!KeyOf(t, k) \in B!Scan(<<Tag(t), g, ":">>)
  BY <1>0, <1>1, <1>3, PrefixGroup DEF B!Scan
<1> QED
  BY <1>2, <1>3

\* The scan for a contact finds its messages.
LEMMA ScanMessages ==
  ASSUME KeyInv, NEW c \in Contact, NEW d \in B!Scan(<<"m:", c>>)
  PROVE  /\ d \in MessageKeys /\ d \in DOMAIN db
         /\ \E s \in Time, e \in Envelope : d = <<"m:", c, s, e>> /\ db[d] = e
<1>1. d \in DOMAIN db /\ B!IsPrefix(<<"m:", c>>, d)
  BY DEF B!Scan
<1>2. d \in MessageKeys
  BY <1>1, RowNotMessage, RowKeyOf DEF KeyInv
<1>3. PICK x \in Contact, s \in Time, e \in Envelope : d = B!messageKey(x, s, e)
  BY <1>2, MessageKeyFrom
<1>4. "peer" \in DOMAIN Key
  BY KeyAssumption DEF B!Abstract!Table
<1>5. x = c
  BY <1>1, <1>3, <1>4, PrefixMessage
<1> QED
  BY <1>1, <1>2, <1>3, <1>5 DEF KeyInv, B!messageKey

LEMMA ScanFinite ==
  ASSUME KeyInv, NEW p
  PROVE  IsFiniteSet(B!Scan(p))
BY FS_Subset DEF KeyInv, B!Scan

-----------------------------------------------------------------------------
(* Keys in order *)

LEMMA Counts ==
  ASSUME NEW S
  PROVE  /\ B!Cardinality(S) = Cardinality(S)
         /\ B!Abstract!Cardinality(S) = Cardinality(S)
         /\ M!Cardinality(S) = Cardinality(S)
         /\ M!Abstract!Cardinality(S) = Cardinality(S)
BY DEF B!Cardinality, B!Abstract!Cardinality, M!Cardinality, M!Abstract!Cardinality, Cardinality

\* KeyLess orders the keys of S.
Ordered(S) ==
  /\ \A a \in S : ~B!KeyLess(a, a)
  /\ \A a, b \in S : a # b => B!KeyLess(a, b) \/ B!KeyLess(b, a)
  /\ \A a, b, c \in S : B!KeyLess(a, b) /\ B!KeyLess(b, c) => B!KeyLess(a, c)

Below(S, k) == {j \in S : B!KeyLess(j, k)}

LEMMA RankGrows ==
  ASSUME NEW S, IsFiniteSet(S), Ordered(S), NEW a \in S, NEW b \in S, B!KeyLess(a, b)
  PROVE  Cardinality(Below(S, a)) < Cardinality(Below(S, b))
<1>1. Below(S, a) \subseteq Below(S, b) /\ a \in Below(S, b) /\ a \notin Below(S, a)
  BY DEF Ordered, Below
<1>2. IsFiniteSet(Below(S, b)) /\ IsFiniteSet(Below(S, a))
  BY FS_Subset DEF Below
<1>3. /\ Cardinality(Below(S, a)) <= Cardinality(Below(S, b))
      /\ Cardinality(Below(S, b)) = Cardinality(Below(S, a)) => Below(S, b) = Below(S, a)
  BY <1>1, <1>2, FS_Subset
<1>4. Cardinality(Below(S, a)) \in Nat /\ Cardinality(Below(S, b)) \in Nat
  BY <1>2, FS_CardinalityType
<1>5. Cardinality(Below(S, b)) # Cardinality(Below(S, a))
  BY <1>1, <1>3
<1> QED
  BY <1>3, <1>4, <1>5

LEMMA RankBounded ==
  ASSUME NEW S, IsFiniteSet(S), Ordered(S), NEW k \in S
  PROVE  Cardinality(Below(S, k)) \in 0 .. Cardinality(S) - 1
<1>1. Below(S, k) \subseteq S \ {k}
  BY DEF Ordered, Below
<1>2. IsFiniteSet(S \ {k}) /\ Cardinality(S \ {k}) = Cardinality(S) - 1
  BY FS_RemoveElement
<1>3. IsFiniteSet(Below(S, k)) /\ Cardinality(Below(S, k)) <= Cardinality(S \ {k})
  BY <1>1, <1>2, FS_Subset
<1>4. Cardinality(Below(S, k)) \in Nat /\ Cardinality(S) \in Nat
  BY <1>3, FS_CardinalityType
<1> QED
  BY <1>2, <1>3, <1>4

\* InOrder lists a set of ordered keys, each once and after the smaller ones.
LEMMA InOrderLists ==
  ASSUME NEW S, IsFiniteSet(S), Ordered(S)
  PROVE  /\ Cardinality(S) \in Nat
         /\ B!InOrder(S) = [i \in 1 .. Cardinality(S) |-> B!InOrder(S)[i]]
         /\ \A i \in 1 .. Cardinality(S) :
              B!InOrder(S)[i] \in S /\ Cardinality(Below(S, B!InOrder(S)[i])) = i - 1
         /\ \A k \in S : /\ Cardinality(Below(S, k)) + 1 \in 1 .. Cardinality(S)
                         /\ B!InOrder(S)[Cardinality(Below(S, k)) + 1] = k
<1> DEFINE n == Cardinality(S)
           Rank(k) == B!Cardinality({j \in S : B!KeyLess(j, k)})
           f == [k \in S |-> Rank(k) + 1]
<1>0. \A k : Rank(k) = Cardinality(Below(S, k))
  BY Counts DEF Below
<1>1. n \in Nat
  BY FS_CardinalityType
<1>2. \A k \in S : Rank(k) \in 0 .. n - 1
  BY <1>0, RankBounded
<1>3. \A a, b \in S : B!KeyLess(a, b) => Rank(a) < Rank(b)
  BY <1>0, RankGrows
<1>4. B!InOrder(S) = [i \in 1 .. n |-> CHOOSE k \in S : Rank(k) = i - 1]
  <2>1. B!Cardinality(S) = n
    BY Counts
  <2> HIDE DEF n
  <2>2. B!InOrder(S) = [i \in 1 .. B!Cardinality(S) |-> CHOOSE k \in S : Rank(k) = i - 1]
    BY DEF B!InOrder
  <2> QED
    BY ONLY <2>1, <2>2
<1> HIDE DEF n, Rank
<1>5. \A a, b \in S : Rank(a) = Rank(b) => a = b
  <2> SUFFICES ASSUME NEW a \in S, NEW b \in S, Rank(a) = Rank(b), a # b PROVE FALSE
    OBVIOUS
  <2>1. B!KeyLess(a, b) \/ B!KeyLess(b, a)
    BY DEF Ordered
  <2>2. Rank(a) \in Int /\ Rank(b) \in Int
    BY <1>1, <1>2
  <2> QED
    BY <2>1, <2>2, <1>3
<1>6. \A k \in S : f[k] \in 1 .. n /\ f[k] = Rank(k) + 1 /\ Rank(k) \in Int
  BY <1>1, <1>2
<1>7. f \in Injection(S, 1 .. n)
  <2>1. f \in [S -> 1 .. n]
    BY <1>6
  <2>2. \A a, b \in S : f[a] = f[b] => a = b
    BY <1>5, <1>6
  <2> HIDE DEF f
  <2> QED
    BY <2>1, <2>2 DEF Injection, IsInjective
<1>8. IsFiniteSet(1 .. n) /\ Cardinality(1 .. n) = n
  BY <1>1, FS_Interval
<1>9. f \in Surjection(S, 1 .. n)
  <2> HIDE DEF f
  <2> QED
    BY <1>7, <1>8, FS_Injection DEF n
<1>10. \A i \in 1 .. n : \E k \in S : Rank(k) = i - 1
  <2> SUFFICES ASSUME NEW i \in 1 .. n PROVE \E k \in S : Rank(k) = i - 1
    OBVIOUS
  <2>1. PICK k \in S : f[k] = i
    <3> HIDE DEF f
    <3> QED
      BY <1>9 DEF Surjection
  <2> QED
    BY <2>1, <1>6
<1>11. \A i \in 1 .. n : B!InOrder(S)[i] \in S /\ Rank(B!InOrder(S)[i]) = i - 1
  <2> SUFFICES ASSUME NEW i \in 1 .. n
               PROVE  B!InOrder(S)[i] \in S /\ Rank(B!InOrder(S)[i]) = i - 1
    OBVIOUS
  <2>1. B!InOrder(S)[i] = CHOOSE k \in S : Rank(k) = i - 1
    BY <1>4
  <2> QED
    BY <1>10, <2>1
<1>12. ASSUME NEW k \in S PROVE Rank(k) + 1 \in 1 .. n /\ B!InOrder(S)[Rank(k) + 1] = k
  <2>1. Rank(k) \in Int /\ Rank(k) + 1 \in 1 .. n
    BY <1>1, <1>2
  <2>2. B!InOrder(S)[Rank(k) + 1] \in S /\ Rank(B!InOrder(S)[Rank(k) + 1]) = Rank(k)
    BY <1>11, <2>1
  <2> QED
    BY <2>1, <2>2, <1>5
<1>13. B!InOrder(S) = [i \in 1 .. n |-> B!InOrder(S)[i]]
  <2> DEFINE g == [i \in 1 .. n |-> CHOOSE k \in S : Rank(k) = i - 1]
  <2>1. g = [i \in 1 .. n |-> g[i]]
    OBVIOUS
  <2> QED
    BY <2>1, <1>4
<1> QED
  BY <1>0, <1>1, <1>11, <1>12, <1>13 DEF n

LEMMA LessOne ==
  ASSUME NEW p, NEW a \in Int, NEW b \in Int
  PROVE  B!KeyLess(<<p, a>>, <<p, b>>) <=> a < b
<1> DEFINE j == <<p, a>>
           k == <<p, b>>
<1>1. DOMAIN j = {1, 2} /\ j[1] = p /\ j[2] = a /\ k[1] = p /\ k[2] = b
  OBVIOUS
<1>2. 1 .. (1 - 1) = {} /\ 1 .. (2 - 1) = {1}
  OBVIOUS
<1>3. B!KeyLess(j, k) <=>
        \E i \in {1, 2} : (\A h \in 1 .. i - 1 : j[h] = k[h]) /\ j[i] # k[i] /\ j[i] < k[i]
  BY <1>1 DEF B!KeyLess
<1> HIDE DEF j, k
<1>4. B!KeyLess(j, k) <=>
        \/ j[1] # k[1] /\ j[1] < k[1]
        \/ j[1] = k[1] /\ j[2] # k[2] /\ j[2] < k[2]
  BY <1>2, <1>3
<1> QED
  BY <1>1, <1>4 DEF j, k

LEMMA LessFour ==
  ASSUME NEW p, NEW a1 \in Int, NEW a2, NEW a3 \in Int, NEW b1 \in Int, NEW b2, NEW b3 \in Int,
         (a2 \in Int /\ b2 \in Int) \/ a2 = b2
  PROVE  B!KeyLess(<<p, a1, a2, a3>>, <<p, b1, b2, b3>>) <=>
           \/ a1 < b1
           \/ a1 = b1 /\ a2 # b2 /\ a2 < b2
           \/ a1 = b1 /\ a2 = b2 /\ a3 < b3
<1> DEFINE j == <<p, a1, a2, a3>>
           k == <<p, b1, b2, b3>>
<1>1. /\ DOMAIN j = {1, 2, 3, 4} /\ j[1] = p /\ j[2] = a1 /\ j[3] = a2 /\ j[4] = a3
      /\ k[1] = p /\ k[2] = b1 /\ k[3] = b2 /\ k[4] = b3
  OBVIOUS
<1>2. 1 .. (1 - 1) = {} /\ 1 .. (2 - 1) = {1} /\ 1 .. (3 - 1) = {1, 2} /\ 1 .. (4 - 1) = {1, 2, 3}
  OBVIOUS
<1>3. B!KeyLess(j, k) <=>
        \E i \in {1, 2, 3, 4} : (\A h \in 1 .. i - 1 : j[h] = k[h]) /\ j[i] # k[i] /\ j[i] < k[i]
  BY <1>1 DEF B!KeyLess
<1> HIDE DEF j, k
<1>4. B!KeyLess(j, k) <=>
        \/ j[1] # k[1] /\ j[1] < k[1]
        \/ j[1] = k[1] /\ j[2] # k[2] /\ j[2] < k[2]
        \/ j[1] = k[1] /\ j[2] = k[2] /\ j[3] # k[3] /\ j[3] < k[3]
        \/ j[1] = k[1] /\ j[2] = k[2] /\ j[3] = k[3] /\ j[4] # k[4] /\ j[4] < k[4]
  BY <1>2, <1>3
<1> QED
  BY <1>1, <1>4 DEF j, k

\* The keys of one table are ordered, as are those of one contact's messages.
LEMMA TableOrdered ==
  ASSUME NEW t \in DOMAIN Key, NEW S \in SUBSET {B!KeyOf(t, k) : k \in Key[t]}
  PROVE  Ordered(S)
<1>1. CASE t \in Pair
  <2>1. ASSUME NEW d \in S
        PROVE  \E a \in Int, b \in Int : d = <<Tag(t), a, ":", b>>
    <3>1. PICK k \in Key[t] : d = B!KeyOf(t, k)
      OBVIOUS
    <3> QED
      BY <3>1, <1>1, KeyForm, KeyNumbers
  <2>2. ASSUME NEW a1 \in Int, NEW a2 \in Int, NEW b1 \in Int, NEW b2 \in Int
        PROVE  B!KeyLess(<<Tag(t), a1, ":", a2>>, <<Tag(t), b1, ":", b2>>) <=>
                 a1 < b1 \/ (a1 = b1 /\ a2 < b2)
    BY LessFour
  <2>3. ASSUME NEW d \in S PROVE ~B!KeyLess(d, d)
    BY <2>1, <2>2
  <2>4. ASSUME NEW d \in S, NEW e \in S, d # e PROVE B!KeyLess(d, e) \/ B!KeyLess(e, d)
    BY <2>1, <2>2, <2>4
  <2>5. ASSUME NEW d \in S, NEW e \in S, NEW f \in S, B!KeyLess(d, e), B!KeyLess(e, f)
        PROVE  B!KeyLess(d, f)
    <3>1. PICK a1 \in Int, a2 \in Int : d = <<Tag(t), a1, ":", a2>>
      BY <2>1
    <3>2. PICK b1 \in Int, b2 \in Int : e = <<Tag(t), b1, ":", b2>>
      BY <2>1
    <3>3. PICK c1 \in Int, c2 \in Int : f = <<Tag(t), c1, ":", c2>>
      BY <2>1
    <3> QED
      BY <3>1, <3>2, <3>3, <2>5, <2>2
  <2> QED
    BY <2>3, <2>4, <2>5 DEF Ordered
<1>2. CASE t \notin Pair
  <2>1. ASSUME NEW d \in S
        PROVE  \E a \in Int : d = <<Tag(t), a>>
    <3>1. PICK k \in Key[t] : d = B!KeyOf(t, k)
      OBVIOUS
    <3> QED
      BY <3>1, <1>2, KeyForm, KeyNumbers
  <2>2. ASSUME NEW a \in Int, NEW b \in Int
        PROVE  B!KeyLess(<<Tag(t), a>>, <<Tag(t), b>>) <=> a < b
    BY LessOne
  <2> QED
    BY <2>1, <2>2 DEF Ordered
<1> QED
  BY <1>1, <1>2

LEMMA MessagesOrdered ==
  ASSUME KeyInv, NEW c \in Contact
  PROVE  Ordered(B!Scan(<<"m:", c>>))
<1> DEFINE S == B!Scan(<<"m:", c>>)
<1>1. ASSUME NEW d \in S
      PROVE  \E a \in Int, b \in Int : d = <<"m:", c, a, b>>
  BY ScanMessages, KeyAssumption
<1>2. ASSUME NEW a1 \in Int, NEW a2 \in Int, NEW b1 \in Int, NEW b2 \in Int
      PROVE  B!KeyLess(<<"m:", c, a1, a2>>, <<"m:", c, b1, b2>>) <=>
               a1 < b1 \/ (a1 = b1 /\ a2 < b2)
  <2>1. c \in Int
    BY KeyAssumption
  <2> QED
    BY <2>1, LessFour
<1> HIDE DEF S
<1>3. ASSUME NEW d \in S PROVE ~B!KeyLess(d, d)
  BY <1>1, <1>2
<1>4. ASSUME NEW d \in S, NEW e \in S, d # e PROVE B!KeyLess(d, e) \/ B!KeyLess(e, d)
  BY <1>1, <1>2, <1>4
<1>5. ASSUME NEW d \in S, NEW e \in S, NEW f \in S, B!KeyLess(d, e), B!KeyLess(e, f)
      PROVE  B!KeyLess(d, f)
  <2>1. PICK a1 \in Int, a2 \in Int : d = <<"m:", c, a1, a2>>
    BY <1>1
  <2>2. PICK b1 \in Int, b2 \in Int : e = <<"m:", c, b1, b2>>
    BY <1>1
  <2>3. PICK c1 \in Int, c2 \in Int : f = <<"m:", c, c1, c2>>
    BY <1>1
  <2> QED
    BY <2>1, <2>2, <2>3, <1>5, <1>2
<1>6. Ordered(S)
  BY <1>3, <1>4, <1>5 DEF Ordered
<1> QED
  BY <1>6 DEF S

-----------------------------------------------------------------------------
(* Pages *)

\* A page of n items is a run of them from the offset on.
LEMMA PageOf ==
  ASSUME NEW n \in Nat, NEW V, NEW s \in [1 .. n -> V], NEW limit \in Nat, NEW offset \in Nat
  PROVE  LET size == B!Abstract!PageSize(n, limit, offset)
             page == B!Page(s, limit, offset)
         IN  /\ size \in Nat /\ Len(page) = size /\ page \in [1 .. size -> V]
             /\ \A i \in 1 .. size : page[i] = s[offset + i] /\ offset + i \in 1 .. n
<1> DEFINE size == B!Abstract!PageSize(n, limit, offset)
           page == B!Page(s, limit, offset)
           end == IF limit > 0 /\ offset + limit < n THEN offset + limit ELSE n
           first == offset + 1
<1>1. s \in Seq(V) /\ Len(s) = n
  <2>1. s \in Seq(V)
    BY SeqDef
  <2> QED
    BY <2>1, LenProperties
<1>2. page = SubSeq(s, first, end)
  BY <1>1 DEF B!Page
<1>3. /\ size \in Nat /\ size = IF first <= end THEN end - first + 1 ELSE 0
      /\ end \in 0 .. n /\ first \in Nat \ {0}
  BY DEF B!Abstract!PageSize
<1>4. \A i \in first .. end : s[i] \in V
  <2> HIDE DEF first, end
  <2> QED
    BY <1>3
<1>5. page \in Seq(V) /\ Len(page) = size /\ \A i \in 1 .. end - first + 1 : page[i] = s[first + i - 1]
  <2> HIDE DEF size, page, end, first
  <2>1. first \in Int /\ end \in Int
    BY <1>3
  <2> QED
    BY <1>2, <1>3, <1>4, <2>1, SubSeqProperties
<1>6. ASSUME NEW i \in 1 .. size PROVE page[i] = s[offset + i] /\ offset + i \in 1 .. n
  <2>1. offset + i = first + i - 1
    <3> HIDE DEF size
    <3> QED
      BY <1>3
  <2> HIDE DEF size, page, end
  <2>2. i \in 1 .. end - first + 1 /\ offset + i \in 1 .. n
    BY <1>3
  <2> HIDE DEF first
  <2> QED
    BY <2>1, <2>2, <1>5
<1>7. page \in [1 .. size -> V]
  <2> HIDE DEF size, page
  <2> QED
    BY <1>3, <1>5, LenProperties, ElementOfSeq
<1> QED
  BY <1>3, <1>5, <1>6, <1>7

\* A key of a table gives back the key of its row.
LEMMA RowKeyBack ==
  ASSUME NEW t \in DOMAIN Key, NEW k \in Key[t]
  PROVE  B!RowKey(B!KeyOf(t, k)) = k
<1>1. CASE t \in Pair
  <2>1. B!KeyOf(t, k) = <<Tag(t), k[1], ":", k[2]>> /\ k = <<k[1], k[2]>>
    BY <1>1, KeyForm, KeyNumbers
  <2> QED
    BY <2>1 DEF B!RowKey
<1>2. CASE t \notin Pair
  <2>1. B!KeyOf(t, k) = <<Tag(t), k[1]>> /\ k = <<k[1]>>
    BY <1>2, KeyForm, KeyNumbers
  <2> QED
    BY <2>1 DEF B!RowKey
<1> QED
  BY <1>1, <1>2

\* The rows of table t with the keys in K.
PairsOf(t, K) == {<<k, B!Rows[t][k]>> : k \in K}

LEMMA RowsFound ==
  ASSUME NEW t \in DOMAIN Key, NEW K \in SUBSET DOMAIN B!Rows[t]
  PROVE  B!RowsAt({B!KeyOf(t, k) : k \in K}) = PairsOf(t, K)
<1>1. \A k \in K : k \in Key[t] /\ B!Rows[t][k] = db[B!KeyOf(t, k)]
  BY RowsOf
<1>2. \A k \in K : B!RowKey(B!KeyOf(t, k)) = k
  BY <1>1, RowKeyBack
<1> QED
  BY <1>1, <1>2 DEF B!RowsAt, PairsOf

LEMMA PairsCounted ==
  ASSUME KeyInv, NEW t \in DOMAIN Key, NEW K \in SUBSET DOMAIN B!Rows[t]
  PROVE  /\ IsFiniteSet(PairsOf(t, K)) /\ IsFiniteSet(K)
         /\ Cardinality(PairsOf(t, K)) = Cardinality(K)
         /\ Cardinality({B!KeyOf(t, k) : k \in K}) = Cardinality(K)
<1> DEFINE S == {B!KeyOf(t, k) : k \in K}
           f == [k \in K |-> B!KeyOf(t, k)]
           g == [k \in K |-> <<k, B!Rows[t][k]>>]
<1>1. \A k \in K : k \in Key[t] /\ B!KeyOf(t, k) \in DOMAIN db
  BY RowsOf
<1>2. IsFiniteSet(S)
  BY <1>1, FS_Subset DEF KeyInv
<1>3. f \in Bijection(K, S)
  <2>1. f \in [K -> S]
    OBVIOUS
  <2>2. \A a, b \in K : f[a] = f[b] => a = b
    BY <1>1, KeyOfApart
  <2>3. \A x \in S : \E k \in K : f[k] = x
    OBVIOUS
  <2> HIDE DEF f, S
  <2> QED
    BY <2>1, <2>2, <2>3 DEF Bijection, Injection, Surjection, IsInjective
<1>4. IsFiniteSet(K) /\ Cardinality(S) = Cardinality(K)
  <2> HIDE DEF f, S
  <2>1. f \in Injection(K, S) /\ f \in Surjection(K, S)
    BY <1>3 DEF Bijection
  <2> QED
    BY <2>1, <1>2, FS_Injection
<1>5. g \in Bijection(K, PairsOf(t, K))
  <2>1. g \in [K -> PairsOf(t, K)]
    BY DEF PairsOf
  <2>2. \A a, b \in K : g[a] = g[b] => a = b
    OBVIOUS
  <2>3. \A x \in PairsOf(t, K) : \E k \in K : g[k] = x
    BY DEF PairsOf
  <2> HIDE DEF g
  <2> QED
    BY <2>1, <2>2, <2>3 DEF Bijection, Injection, Surjection, IsInjective
<1>6. IsFiniteSet(PairsOf(t, K)) /\ Cardinality(PairsOf(t, K)) = Cardinality(K)
  <2> HIDE DEF g
  <2> QED
    BY <1>4, <1>5, FS_Bijection DEF ExistsBijection
<1> QED
  BY <1>4, <1>6

\* A page of the keys of some rows shows that many of those rows.
LEMMA RowsPaged ==
  ASSUME KeyInv, NEW t \in DOMAIN Key, NEW K \in SUBSET DOMAIN B!Rows[t],
         NEW limit \in Nat, NEW offset \in Nat
  PROVE  LET found == B!RowsAt(B!ToSet(B!Page(B!InOrder({B!KeyOf(t, k) : k \in K}), limit, offset)))
         IN  /\ found \subseteq PairsOf(t, K)
             /\ Cardinality(found) = B!Abstract!PageSize(Cardinality(K), limit, offset)
<1> DEFINE S == {B!KeyOf(t, k) : k \in K}
           n == Cardinality(K)
           list == B!InOrder(S)
           page == B!Page(list, limit, offset)
           size == B!Abstract!PageSize(n, limit, offset)
           found == B!RowsAt(B!ToSet(page))
           f == [i \in 1 .. size |-> <<B!RowKey(page[i]), db[page[i]]>>]
<1>1. \A k \in K : k \in Key[t] /\ B!KeyOf(t, k) \in DOMAIN db
  BY RowsOf
<1>2. IsFiniteSet(S) /\ Cardinality(S) = n /\ Ordered(S)
  <2>1. S \subseteq DOMAIN db /\ S \in SUBSET {B!KeyOf(t, k) : k \in Key[t]}
    BY <1>1
  <2>2. Ordered(S)
    <3> HIDE DEF S
    <3> QED
      BY <2>1, TableOrdered
  <2>3. Cardinality(S) = n
    BY PairsCounted
  <2> HIDE DEF S
  <2> QED
    BY <2>1, <2>2, <2>3, FS_Subset DEF KeyInv
<1>3. /\ n \in Nat /\ list = [i \in 1 .. n |-> list[i]]
      /\ \A i \in 1 .. n : list[i] \in S /\ Cardinality(Below(S, list[i])) = i - 1
  <2> HIDE DEF S, n
  <2> QED
    BY <1>2, InOrderLists
<1>4. /\ size \in Nat /\ page \in [1 .. size -> S]
      /\ \A i \in 1 .. size : page[i] = list[offset + i] /\ offset + i \in 1 .. n
  <2> HIDE DEF list, n, f, S, found
  <2>1. list \in [1 .. n -> S]
    BY <1>3
  <2> QED
    BY <1>3, <2>1, PageOf
<1>5. found = {f[i] : i \in 1 .. size}
  <2> HIDE DEF page, size
  <2>1. B!ToSet(page) = {page[i] : i \in 1 .. size}
    BY <1>4 DEF B!ToSet
  <2> QED
    BY <2>1 DEF B!RowsAt
<1>6. ASSUME NEW i \in 1 .. size PROVE \E k \in K : page[i] = B!KeyOf(t, k) /\ f[i] = <<k, B!Rows[t][k]>>
  <2>1. page[i] \in S
    <3> HIDE DEF page, list, S, n, size, f
    <3> QED
      BY <1>3, <1>4
  <2>2. PICK k \in K : page[i] = B!KeyOf(t, k)
    BY <2>1
  <2> HIDE DEF page
  <2>3. B!RowKey(page[i]) = k
    BY <2>2, <1>1, RowKeyBack
  <2>4. db[page[i]] = B!Rows[t][k]
    <3>1. B!Rows[t][k] = db[B!KeyOf(t, k)]
      BY RowsOf
    <3> QED
      BY <3>1, <2>2
  <2> HIDE DEF size
  <2> QED
    BY <2>2, <2>3, <2>4
<1>7. \A i, j \in 1 .. size : page[i] = page[j] => i = j
  <2> HIDE DEF page, list, S, n, size, f
  <2> SUFFICES ASSUME NEW i \in 1 .. size, NEW j \in 1 .. size, page[i] = page[j]
               PROVE  i = j
    OBVIOUS
  <2>1. /\ offset + i \in 1 .. n /\ offset + j \in 1 .. n /\ list[offset + i] = list[offset + j]
    BY <1>4
  <2>2. offset + i - 1 = offset + j - 1
    BY <1>3, <2>1
  <2> QED
    BY <2>2
<1>8. f \in Bijection(1 .. size, found)
  <2>1. \A i, j \in 1 .. size : f[i] = f[j] => i = j
    <3> SUFFICES ASSUME NEW i \in 1 .. size, NEW j \in 1 .. size, f[i] = f[j]
                 PROVE  i = j
      OBVIOUS
    <3>1. PICK a \in K : page[i] = B!KeyOf(t, a) /\ f[i] = <<a, B!Rows[t][a]>>
      BY <1>6
    <3>2. PICK b \in K : page[j] = B!KeyOf(t, b) /\ f[j] = <<b, B!Rows[t][b]>>
      BY <1>6
    <3> HIDE DEF f, page, size
    <3>3. <<a, B!Rows[t][a]>> = <<b, B!Rows[t][b]>>
      BY <3>1, <3>2
    <3>4. a = b
      BY <3>3
    <3> QED
      BY <3>1, <3>2, <3>4, <1>7
  <2>2. f = [i \in 1 .. size |-> f[i]]
    OBVIOUS
  <2> HIDE DEF f, page, size, found
  <2> QED
    BY <2>1, <2>2, <1>5 DEF Bijection, Injection, Surjection, IsInjective
<1>9. Cardinality(found) = size
  <2> HIDE DEF f, size, found
  <2> QED
    BY <1>4, <1>8, FS_CountingElements DEF ExistsBijection
<1>10. found \subseteq PairsOf(t, K)
  <2> HIDE DEF f, size, found, page
  <2> QED
    BY <1>5, <1>6 DEF PairsOf
<1> QED
  BY <1>9, <1>10

-----------------------------------------------------------------------------
(* Messages *)

\* The stored messages of contact c with envelope e.
Copies(c, e) == {k \in B!Scan(<<"m:", c>>) : db[k] = e}

LEMMA CopiesCounted ==
  ASSUME KeyInv, NEW c \in Contact, NEW e \in Envelope
  PROVE  /\ IsFiniteSet(Copies(c, e))
         /\ B!Msgs[c][e] = Cardinality(Copies(c, e)) /\ B!Msgs[c][e] \in Nat
<1>1. IsFiniteSet(Copies(c, e))
  BY ScanFinite, FS_Subset DEF Copies
<1>2. B!Msgs[c][e] = B!Cardinality(Copies(c, e))
  BY DEF B!Msgs, Copies
<1> QED
  BY <1>1, <1>2, Counts, FS_CardinalityType

\* The elements of S with label e, and cnt[e] of every label e.
Labelled(S, lab, e) == {k \in S : lab[k] = e}
Tally(cnt) == UNION {{e} \X (1 .. cnt[e]) : e \in Envelope}

\* Counted label by label, the elements of a set are the elements of the set.
LEMMA LabelTotal ==
  ASSUME NEW S, IsFiniteSet(S), NEW lab \in [S -> Envelope], NEW cnt,
         \A e \in Envelope : cnt[e] = Cardinality(Labelled(S, lab, e))
  PROVE  Cardinality(Tally(cnt)) = Cardinality(S)
<1> DEFINE Of(e) == {k \in S : lab[k] = e}
           U == UNION {{e} \X (1 .. cnt[e]) : e \in Envelope}
           g == [e \in Envelope |-> CHOOSE f : f \in Bijection(1 .. cnt[e], Of(e))]
           h == [p \in U |-> g[p[1]][p[2]]]
<1>1. ASSUME NEW e \in Envelope
      PROVE  g[e] \in Bijection(1 .. cnt[e], Of(e))
  <2>1. IsFiniteSet(Of(e)) /\ cnt[e] = Cardinality(Of(e))
    BY FS_Subset DEF Labelled
  <2>2. ExistsBijection(1 .. cnt[e], Of(e))
    BY <2>1, FS_CardinalityType
  <2>3. \E f : f \in Bijection(1 .. cnt[e], Of(e))
    BY <2>2 DEF ExistsBijection
  <2> QED
    BY <2>3
<1>2. ASSUME NEW p \in U
      PROVE  /\ p[1] \in Envelope /\ p[2] \in 1 .. cnt[p[1]] /\ p = <<p[1], p[2]>>
             /\ h[p] = g[p[1]][p[2]] /\ h[p] \in Of(p[1])
  <2>1. PICK e \in Envelope : p \in {e} \X (1 .. cnt[e])
    OBVIOUS
  <2>2. p[1] = e /\ p[2] \in 1 .. cnt[e] /\ p = <<p[1], p[2]>>
    BY <2>1
  <2>3. g[e][p[2]] \in Of(e)
    <3> HIDE DEF g, Of
    <3> QED
      BY <2>2, <1>1 DEF Bijection, Injection
  <2> HIDE DEF g, U, Of
  <2> QED
    BY <2>2, <2>3
<1>3. h \in [U -> S]
  <2>1. \A p \in U : h[p] \in S
    BY <1>2
  <2> HIDE DEF U, g
  <2> QED
    BY <2>1
<1>4. ASSUME NEW p \in U, NEW q \in U, h[p] = h[q]
      PROVE  p = q
  <2> HIDE DEF h, U, g
  <2>1. p[1] = q[1]
    BY <1>2, <1>4
  <2>2. PICK e \in Envelope : e = p[1]
    BY <1>2
  <2> HIDE DEF Of
  <2>3. g[e] \in Bijection(1 .. cnt[e], Of(e))
    BY <1>1
  <2>4. p[2] \in 1 .. cnt[e] /\ q[2] \in 1 .. cnt[e] /\ g[e][p[2]] = g[e][q[2]]
    BY <1>2, <1>4, <2>1, <2>2
  <2>5. p[2] = q[2]
    BY <2>3, <2>4 DEF Bijection, Injection, IsInjective
  <2> QED
    BY <1>2, <2>1, <2>5
<1>5. ASSUME NEW k \in S
      PROVE  \E p \in U : h[p] = k
  <2>1. PICK e \in Envelope : lab[k] = e
    OBVIOUS
  <2>2. k \in Of(e)
    BY <2>1
  <2>3. PICK i \in 1 .. cnt[e] : g[e][i] = k
    <3> HIDE DEF g, h, U, Of
    <3> QED
      BY <1>1, <2>2 DEF Bijection, Surjection
  <2>4. <<e, i>> \in U
    OBVIOUS
  <2> HIDE DEF g, U
  <2> QED
    BY <2>3, <2>4
<1>6. h \in Injection(U, S) /\ h \in Surjection(U, S)
  <2> HIDE DEF h, U
  <2> QED
    BY <1>3, <1>4, <1>5 DEF Injection, Surjection, IsInjective
<1> HIDE DEF h, U
<1>7. Cardinality(U) = Cardinality(S)
  BY <1>6, FS_Injection
<1> QED
  BY <1>7 DEF U, Tally

\* Counted envelope by envelope the messages of a contact are what its scan finds.
LEMMA MessagesTotal ==
  ASSUME KeyInv, NEW c \in Contact
  PROVE  B!Abstract!Total(c) = Cardinality(B!Scan(<<"m:", c>>))
<1> DEFINE S == B!Scan(<<"m:", c>>)
           lab == [k \in S |-> db[k]]
           cnt == B!Msgs[c]
<1>1. IsFiniteSet(S)
  BY ScanFinite
<1>2. lab \in [S -> Envelope]
  BY ScanMessages
<1>3. ASSUME NEW e \in Envelope PROVE cnt[e] = Cardinality(Labelled(S, lab, e))
  <2>1. Copies(c, e) = {k \in S : lab[k] = e}
    BY DEF Copies
  <2> QED
    BY <2>1, CopiesCounted DEF Labelled
<1>4. B!Abstract!Total(c) = B!Abstract!Cardinality(Tally(cnt))
  BY DEF B!Abstract!Total, Tally
<1> HIDE DEF S, lab, cnt
<1>5. Cardinality(Tally(cnt)) = Cardinality(S)
  <2>1. \A e \in Envelope : cnt[e] = Cardinality(Labelled(S, lab, e))
    BY <1>3
  <2> QED
    BY <1>1, <1>2, <2>1, LabelTotal
<1> QED
  BY <1>4, <1>5, Counts DEF S

\* The history of a contact: its messages, each once.
LEMMA HistoryOf ==
  ASSUME KeyInv, NEW c \in Contact
  PROVE  LET n == Cardinality(B!Scan(<<"m:", c>>))
             ordered == B!InOrder(B!Scan(<<"m:", c>>))
         IN  /\ n \in Nat /\ B!History(c) \in [1 .. n -> Envelope] /\ Len(B!History(c)) = n
             /\ \A i \in 1 .. n : ordered[i] \in Copies(c, B!History(c)[i])
             /\ \A i, j \in 1 .. n : ordered[i] = ordered[j] => i = j
<1> DEFINE S == B!Scan(<<"m:", c>>)
           n == Cardinality(S)
           ordered == B!InOrder(S)
           H == B!History(c)
<1>1. IsFiniteSet(S) /\ Ordered(S)
  BY ScanFinite, MessagesOrdered
<1>2. \A k \in S : db[k] \in Envelope
  BY ScanMessages
<1>3. H = [i \in DOMAIN ordered |-> db[ordered[i]]]
  BY DEF B!History
<1> HIDE DEF S, H
<1>4. /\ n \in Nat /\ ordered = [i \in 1 .. n |-> ordered[i]]
      /\ \A i \in 1 .. n : ordered[i] \in S /\ Cardinality(Below(S, ordered[i])) = i - 1
  BY <1>1, InOrderLists
<1> HIDE DEF ordered, n
<1>5. DOMAIN ordered = 1 .. n
  BY <1>4
<1>6. H = [i \in 1 .. n |-> db[ordered[i]]]
  BY <1>3, <1>5
<1>7. H \in [1 .. n -> Envelope]
  BY <1>2, <1>4, <1>6
<1>8. Len(H) = n
  <2>1. H \in Seq(Envelope)
    BY <1>4, <1>7, SeqDef
  <2> QED
    BY <2>1, <1>4, <1>7, LenProperties
<1>9. \A i \in 1 .. n : ordered[i] \in Copies(c, H[i])
  BY <1>4, <1>6 DEF Copies, S
<1>10. ASSUME NEW i \in 1 .. n, NEW j \in 1 .. n, ordered[i] = ordered[j]
       PROVE  i = j
  <2>1. i - 1 = j - 1
    BY <1>4, <1>10
  <2> QED
    BY <2>1
<1> QED
  BY <1>4, <1>7, <1>8, <1>9, <1>10 DEF S, n, ordered, H

\* What is unchanged when the key space is.
LEMMA Unwritten ==
  ASSUME db' = db
  PROVE  B!Rows' = B!Rows /\ B!Msgs' = B!Msgs
<1>1. B!Rows' = B!Rows
  BY DEF B!Rows, B!Has
<1>2. B!Msgs' = B!Msgs
  BY DEF B!Msgs, B!Scan
<1> QED
  BY <1>1, <1>2

\* Reading a page of messages.
LEMMA GetMessagesStep ==
  ASSUME KeyInv, NEW c \in Contact, NEW limit \in Nat, NEW offset \in Nat,
         B!GetMessages(c, limit, offset)
  PROVE  B!Abstract!GetMessages(c, limit, offset)
<1> DEFINE n == Cardinality(B!Scan(<<"m:", c>>))
           ordered == B!InOrder(B!Scan(<<"m:", c>>))
           H == B!History(c)
           page == B!Page(H, limit, offset)
           size == B!Abstract!PageSize(n, limit, offset)
<1>1. /\ out' = [op |-> "List", table |-> "message", rows |-> {}, list |-> page]
      /\ db' = db
  BY DEF B!GetMessages, B!View, B!Reply
<1>2. /\ n \in Nat /\ H \in [1 .. n -> Envelope]
      /\ \A i \in 1 .. n : ordered[i] \in Copies(c, H[i])
      /\ \A i, j \in 1 .. n : ordered[i] = ordered[j] => i = j
  BY HistoryOf
<1>3. B!Abstract!Total(c) = n
  BY MessagesTotal
<1> HIDE DEF n, ordered, H
<1>4. /\ size \in Nat /\ Len(page) = size
      /\ \A i \in 1 .. size : page[i] = H[offset + i] /\ offset + i \in 1 .. n
  <2>1. n \in Nat /\ H \in [1 .. n -> Envelope]
    BY <1>2
  <2>2. size \in Nat /\ page \in [1 .. size -> Envelope]
    BY <2>1, PageOf
  <2>3. Len(page) = size
    <3> HIDE DEF page, size
    <3>1. page \in Seq(Envelope)
      BY <2>2, SeqDef
    <3> QED
      BY <3>1, <2>2, LenProperties
  <2>4. \A i \in 1 .. size : page[i] = H[offset + i] /\ offset + i \in 1 .. n
    BY <2>1, PageOf
  <2> QED
    BY <2>2, <2>3, <2>4
<1> HIDE DEF page, size
<1>5. ASSUME NEW e \in Envelope
      PROVE  Cardinality({i \in 1 .. size : page[i] = e}) <= B!Msgs[c][e]
  <2> DEFINE I == {i \in 1 .. size : page[i] = e}
             f == [i \in I |-> ordered[offset + i]]
  <2>1. f \in [I -> Copies(c, e)]
    BY <1>2, <1>4
  <2>2. \A i, j \in I : f[i] = f[j] => i = j
    <3> SUFFICES ASSUME NEW i \in I, NEW j \in I, f[i] = f[j] PROVE i = j
      OBVIOUS
    <3>1. offset + i = offset + j
      BY <1>2, <1>4
    <3> QED
      BY <3>1, <1>4
  <2>3. f \in Injection(I, Copies(c, e))
    <3> HIDE DEF f, I
    <3> QED
      BY <2>1, <2>2 DEF Injection, IsInjective
  <2> HIDE DEF f, I
  <2>4. Cardinality(I) <= B!Msgs[c][e]
    BY <2>3, CopiesCounted, FS_Injection
  <2> QED
    BY <2>4 DEF I
<1>6. UNCHANGED <<B!Rows, B!Msgs>>
  BY <1>1, Unwritten
<1>7. out'.op = "List" /\ out'.table = "message" /\ out'.rows = {} /\ out'.list = page
  BY <1>1
<1>8. B!Abstract!PageSize(B!Abstract!Total(c), limit, offset) = size
  BY <1>3 DEF size
<1>9. \A S : B!Abstract!Cardinality(S) = Cardinality(S)
  BY Counts
<1> QED
  BY <1>4, <1>5, <1>6, <1>7, <1>8, <1>9 DEF B!Abstract!GetMessages, B!Abstract!Called

\* Storing a message, again or for the first time.
LEMMA AddMessageStep ==
  ASSUME KeyInv, NEW c \in Contact, NEW e \in Envelope, B!AddMessage(c, e)
  PROVE  KeyInv' /\ B!Abstract!AddMessage(c, e)
<1>1. PICK s \in Time : B!Update(B!Set(B!messageKey(c, s, e), e), "Save", "message")
  BY DEF B!AddMessage
<1> DEFINE d == B!messageKey(c, s, e)
<1>2. /\ db' = B!Written(db, d, e)
      /\ out' = [op |-> "Save", table |-> "message", rows |-> {}, list |-> << >>]
  BY <1>1 DEF B!Update, B!Set, B!Reply
<1>3. KeyInv'
  BY <1>2, MessageWritten
<1>4. db' = [i \in DOMAIN db \cup {d} |-> IF i = d THEN e ELSE db[i]]
  BY <1>2 DEF B!Written
<1>5. out' = B!Abstract!Reply("Save", "message", {}, << >>)
  BY <1>2 DEF B!Abstract!Reply
<1>6. ASSUME NEW x \in Contact PROVE B!IsPrefix(<<"m:", x>>, d) <=> x = c
  BY DEF B!messageKey, B!IsPrefix
<1>7. d \notin RowKeys
  BY RowKeyOf, MessageApart
<1>8. d \in DOMAIN db => db[d] = e
  BY DEF KeyInv
<1>9. db = [i \in DOMAIN db |-> db[i]]
  BY DEF KeyInv
<1> HIDE DEF d
<1>10. B!Rows' = B!Rows
  <2>1. /\ {d} \cap RowKeys = {} /\ DOMAIN db' \ {d} = DOMAIN db \ {d}
        /\ \A i \in DOMAIN db \ {d} : db'[i] = db[i]
    BY <1>4, <1>7
  <2> QED
    BY <2>1, RowsKept
<1>11. CASE d \in DOMAIN db
  <2>1. db' = db
    BY <1>4, <1>8, <1>9, <1>11
  <2>2. B!Msgs' = B!Msgs
    BY <2>1, Unwritten
  <2>3. d \in Copies(c, e)
    BY <1>6, <1>8, <1>11 DEF Copies, B!Scan
  <2>4. B!Msgs[c][e] > 0
    BY <2>3, CopiesCounted, FS_EmptySet
  <2> QED
    BY <1>3, <1>5, <1>10, <2>2, <2>4 DEF B!Abstract!AddMessage
<1>12. CASE d \notin DOMAIN db
  <2>1. ASSUME NEW x \in Contact, NEW y \in Envelope
        PROVE  Copies(x, y)' = IF x = c /\ y = e THEN Copies(c, e) \cup {d} ELSE Copies(x, y)
    <3>1. Copies(x, y)' = {k \in DOMAIN db' : B!IsPrefix(<<"m:", x>>, k) /\ db'[k] = y}
      BY DEF Copies, B!Scan
    <3>2. Copies(x, y) = {k \in DOMAIN db : B!IsPrefix(<<"m:", x>>, k) /\ db[k] = y}
      BY DEF Copies, B!Scan
    <3>3. B!IsPrefix(<<"m:", x>>, d) <=> x = c
      BY <1>6
    <3>4. Copies(x, y)' = IF x = c /\ y = e THEN Copies(x, y) \cup {d} ELSE Copies(x, y)
      BY <3>1, <3>2, <3>3, <1>4, <1>12
    <3> QED
      BY <3>4
  <2>2. ASSUME NEW x \in Contact, NEW y \in Envelope
        PROVE  B!Msgs[x][y]' = IF x = c /\ y = e THEN B!Msgs[c][e] + 1 ELSE B!Msgs[x][y]
    <3>1. B!Msgs[x][y]' = Cardinality(Copies(x, y)')
      <4>1. B!Msgs[x][y]' = B!Cardinality(Copies(x, y)')
        BY DEF B!Msgs, Copies
      <4> QED
        BY <4>1, Counts
    <3>2. B!Msgs[x][y] = Cardinality(Copies(x, y)) /\ IsFiniteSet(Copies(c, e))
      BY CopiesCounted
    <3>3. d \notin Copies(c, e)
      BY <1>12 DEF Copies, B!Scan
    <3> QED
      BY <2>1, <3>1, <3>2, <3>3, FS_AddElement
  <2>3. B!Msgs = [x \in Contact |-> [y \in Envelope |-> B!Msgs[x][y]]]
    BY DEF B!Msgs
  <2>4. B!Msgs' = [x \in Contact |-> [y \in Envelope |-> B!Msgs'[x][y]]]
    BY DEF B!Msgs
  <2>5. B!Msgs' = [B!Msgs EXCEPT ![c][e] = @ + 1]
    <3> DEFINE old == B!Msgs
               new == B!Msgs'
    <3>1. \A x \in Contact : \A y \in Envelope :
            new[x][y] = IF x = c /\ y = e THEN old[c][e] + 1 ELSE old[x][y]
      BY <2>2
    <3>2. old = [x \in Contact |-> [y \in Envelope |-> old[x][y]]]
          /\ new = [x \in Contact |-> [y \in Envelope |-> new[x][y]]]
      BY <2>3, <2>4
    <3> HIDE DEF old, new
    <3>3. new = [old EXCEPT ![c][e] = @ + 1]
      BY <3>1, <3>2
    <3> QED
      BY <3>3 DEF old, new
  <2> QED
    BY <1>3, <1>5, <1>10, <2>5 DEF B!Abstract!AddMessage
<1> QED
  BY <1>11, <1>12

\* Deleting the messages of a contact.
LEMMA DeleteMessagesStep ==
  ASSUME KeyInv, NEW c \in Contact, B!DeleteMessages(c)
  PROVE  KeyInv' /\ B!Abstract!DeleteMessages(c)
<1> DEFINE S == B!Scan(<<"m:", c>>)
<1>1. /\ db' = B!Deleted(S)
      /\ out' = [op |-> "DeleteAll", table |-> "message", rows |-> {}, list |-> << >>]
  BY DEF B!DeleteMessages, B!Update, B!Reply
<1>2. KeyInv'
  BY <1>1, KeysDeleted
<1>3. db' = [k \in DOMAIN db \ S |-> db[k]]
  BY <1>1 DEF B!Deleted
<1>4. out' = B!Abstract!Reply("DeleteAll", "message", {}, << >>)
  BY <1>1 DEF B!Abstract!Reply
<1>5. ASSUME NEW k \in S
      PROVE  k \notin RowKeys /\ \A x \in Contact : x # c => ~B!IsPrefix(<<"m:", x>>, k)
  <2>1. B!IsPrefix(<<"m:", c>>, k)
    BY DEF B!Scan
  <2>2. k \notin RowKeys
    BY <2>1, RowKeyOf, RowNotMessage
  <2>3. PICK s \in Time, e \in Envelope : k = <<"m:", c, s, e>>
    BY ScanMessages
  <2> QED
    BY <2>2, <2>3 DEF B!IsPrefix
<1>6. B!Rows' = B!Rows
  <2> HIDE DEF S
  <2>1. /\ S \cap RowKeys = {} /\ DOMAIN db' \ S = DOMAIN db \ S
        /\ \A i \in DOMAIN db \ S : db'[i] = db[i]
    BY <1>3, <1>5
  <2> QED
    BY <2>1, RowsKept
<1>7. ASSUME NEW x \in Contact, NEW y \in Envelope
      PROVE  B!Msgs[x][y]' = IF x = c THEN 0 ELSE B!Msgs[x][y]
  <2>1. Copies(x, y)' = {k \in DOMAIN db' : B!IsPrefix(<<"m:", x>>, k) /\ db'[k] = y}
    BY DEF Copies, B!Scan
  <2>2. Copies(x, y) = {k \in DOMAIN db : B!IsPrefix(<<"m:", x>>, k) /\ db[k] = y}
    BY DEF Copies, B!Scan
  <2>3. B!Msgs[x][y]' = B!Cardinality(Copies(x, y)') /\ B!Msgs[x][y] = B!Cardinality(Copies(x, y))
    BY DEF B!Msgs, Copies
  <2>4. CASE x = c
    <3>1. Copies(x, y)' = {}
      BY <2>1, <2>4, <1>3 DEF B!Scan
    <3>2. B!Msgs[x][y]' = B!Cardinality({})
      BY <2>3, <3>1
    <3> QED
      BY <2>4, <3>2, Counts, FS_EmptySet
  <2>5. CASE x # c
    <3> HIDE DEF S
    <3>1. Copies(x, y)' = Copies(x, y)
      BY <2>1, <2>2, <2>5, <1>3, <1>5
    <3> QED
      BY <2>3, <2>5, <3>1
  <2> QED
    BY <2>4, <2>5
<1>8. B!Msgs' = [B!Msgs EXCEPT ![c] = [e \in Envelope |-> 0]]
  <2> DEFINE old == B!Msgs
             new == B!Msgs'
  <2>1. \A x \in Contact : \A y \in Envelope : new[x][y] = IF x = c THEN 0 ELSE old[x][y]
    BY <1>7
  <2>2. old = [x \in Contact |-> [y \in Envelope |-> old[x][y]]]
    BY DEF B!Msgs
  <2>3. new = [x \in Contact |-> [y \in Envelope |-> new[x][y]]]
    BY DEF B!Msgs
  <2> HIDE DEF old, new
  <2>4. new = [old EXCEPT ![c] = [e \in Envelope |-> 0]]
    BY <2>1, <2>2, <2>3
  <2> QED
    BY <2>4 DEF old, new
<1> QED
  BY <1>2, <1>4, <1>6, <1>8 DEF B!Abstract!DeleteMessages

-----------------------------------------------------------------------------
(* The key space is sound *)

LEMMA Parted ==
  ASSUME NEW a \in Nat, NEW n \in Nat \ {0}
  PROVE  a \div n \in Nat /\ a % n \in 0 .. n - 1 /\ a = ((a \div n) * n) + (a % n)
OBVIOUS

\* Pages of n items, one after the other, are the sequence.
LEMMA PagesTile ==
  ASSUME NEW m \in Nat, NEW V, NEW H \in [1 .. m -> V], NEW n \in Nat \ {0}
  PROVE  /\ \A i \in 1 .. m :
              LET page == B!Page(H, n, ((i - 1) \div n) * n)
              IN  ((i - 1) % n) + 1 \in DOMAIN page /\ page[((i - 1) % n) + 1] = H[i]
         /\ \A p \in Nat : \A i \in DOMAIN B!Page(H, n, p * n) : i <= n /\ p * n + i <= m
<1>1. ASSUME NEW i \in 1 .. m
      PROVE  /\ ((i - 1) % n) + 1 \in DOMAIN B!Page(H, n, ((i - 1) \div n) * n)
             /\ B!Page(H, n, ((i - 1) \div n) * n)[((i - 1) % n) + 1] = H[i]
  <2>1. i - 1 \in Nat
    OBVIOUS
  <2>2. PICK q \in Nat, r \in 0 .. n - 1 : q = (i - 1) \div n /\ r = (i - 1) % n /\ i - 1 = q * n + r
    BY <2>1, Parted
  <2>3. PICK o \in Nat : o = q * n
    OBVIOUS
  <2> DEFINE page == B!Page(H, n, o)
             size == B!Abstract!PageSize(m, n, o)
  <2>4. /\ size \in Nat /\ page \in [1 .. size -> V]
        /\ \A j \in 1 .. size : page[j] = H[o + j] /\ o + j \in 1 .. m
    BY PageOf
  <2>5. r + 1 \in 1 .. size
    BY ONLY <2>2, <2>3, m \in Nat, n \in Nat \ {0}, i \in 1 .. m DEF B!Abstract!PageSize
  <2> HIDE DEF page, size
  <2>6. DOMAIN page = 1 .. size
    BY <2>4
  <2>7. o + (r + 1) = i
    BY <2>2, <2>3
  <2>8. r + 1 \in DOMAIN page /\ page[r + 1] = H[i]
    BY <2>4, <2>5, <2>6, <2>7
  <2> QED
    BY <2>2, <2>3, <2>8 DEF page
<1>2. ASSUME NEW p \in Nat, NEW i \in DOMAIN B!Page(H, n, p * n)
      PROVE  i <= n /\ p * n + i <= m
  <2>1. PICK o \in Nat : o = p * n
    OBVIOUS
  <2> DEFINE page == B!Page(H, n, o)
             size == B!Abstract!PageSize(m, n, o)
  <2>2. /\ size \in Nat /\ page \in [1 .. size -> V]
        /\ \A j \in 1 .. size : page[j] = H[o + j] /\ o + j \in 1 .. m
    BY PageOf
  <2>3. size <= n
    BY DEF B!Abstract!PageSize
  <2>4. i \in DOMAIN page
    BY <2>1
  <2> HIDE DEF page, size
  <2>5. i \in 1 .. size
    BY <2>2, <2>4
  <2>6. o + i <= m
    BY <2>2, <2>5
  <2> QED
    BY <2>1, <2>2, <2>3, <2>5, <2>6
<1> QED
  BY <1>1, <1>2

\* Every key belongs to one row or to one message.
LEMMA OneOwner ==
  ASSUME KeyInv
  PROVE  B!KeysApart
<1> DEFINE Msg(d) == {i \in Contact \X Time \X Envelope : B!messageKey(i[1], i[2], i[3]) = d}
           RowsAt(t, d) == {i \in Key[t] : B!KeyOf(t, i) = d}
           Owners(d) == {<<"message", m>> : m \in Msg(d)}
                        \cup UNION {{<<t, k>> : k \in RowsAt(t, d)} : t \in DOMAIN Key}
<1>1. ASSUME NEW d \in DOMAIN db
      PROVE  \E x : Owners(d) = {x}
  <2>1. CASE d \in RowKeys
    <3>1. PICK t \in DOMAIN Key : \E k \in Key[t] : d = B!KeyOf(t, k)
      BY <2>1, RowKeyOf
    <3>2. PICK k \in Key[t] : d = B!KeyOf(t, k)
      BY <3>1
    <3>3. Msg(d) = {}
      BY <3>2, MessageApart
    <3>4. ASSUME NEW u \in DOMAIN Key PROVE RowsAt(u, d) = IF u = t THEN {k} ELSE {}
      BY <3>2, KeyOfApart
    <3> HIDE DEF Msg, RowsAt
    <3>5. Owners(d) = {<<t, k>>}
      BY <3>3, <3>4
    <3> QED
      BY <3>5
  <2>2. CASE d \in MessageKeys
    <3>1. PICK c \in Contact, s \in Time, e \in Envelope : d = B!messageKey(c, s, e)
      BY <2>2, MessageKeyFrom
    <3>2. Msg(d) = {<<c, s, e>>}
      <4>1. <<c, s, e>> \in Msg(d)
        BY <3>1
      <4>2. ASSUME NEW i \in Msg(d) PROVE i = <<c, s, e>>
        <5>1. i = <<i[1], i[2], i[3]>>
          OBVIOUS
        <5>2. i[1] = c /\ i[2] = s /\ i[3] = e
          BY <3>1, MessageKeyOf
        <5> QED
          BY <5>1, <5>2
      <4> QED
        BY <4>1, <4>2
    <3>3. ASSUME NEW u \in DOMAIN Key PROVE RowsAt(u, d) = {}
      BY <3>1, MessageApart
    <3> HIDE DEF Msg, RowsAt
    <3>4. Owners(d) = {<<"message", <<c, s, e>>>>}
      BY <3>2, <3>3
    <3> QED
      BY <3>4
  <2> QED
    BY <2>1, <2>2 DEF KeyInv
<1>2. ASSUME NEW d \in DOMAIN db
      PROVE  B!Cardinality(Owners(d)) = 1
  <2>1. PICK x : Owners(d) = {x}
    BY <1>1
  <2> HIDE DEF Owners
  <2>2. Cardinality({x}) = 1
    BY FS_Singleton
  <2> QED
    BY <2>1, <2>2, Counts
<1> QED
  BY <1>2 DEF B!KeysApart

LEMMA HistoryTiled ==
  ASSUME KeyInv
  PROVE  B!PagesTileHistory
<1> SUFFICES ASSUME NEW c \in Contact, NEW n \in Limits \ {0}
             PROVE  LET H == B!History(c)
                        page(p) == B!Page(H, n, p * n)
                        place(i) == ((i - 1) % n) + 1
                    IN  /\ \A i \in DOMAIN H : /\ place(i) \in DOMAIN page((i - 1) \div n)
                                               /\ page((i - 1) \div n)[place(i)] = H[i]
                        /\ \A p \in 0 .. Len(H) : \A i \in DOMAIN page(p) :
                             i <= n /\ p * n + i <= Len(H)
  BY DEF B!PagesTileHistory
<1> DEFINE H == B!History(c)
           m == Cardinality(B!Scan(<<"m:", c>>))
<1>1. m \in Nat /\ H \in [1 .. m -> Envelope] /\ Len(H) = m
  BY HistoryOf
<1>2. n \in Nat \ {0}
  BY PageAssumption
<1> HIDE DEF H, m
<1>3. /\ \A i \in 1 .. m :
           /\ ((i - 1) % n) + 1 \in DOMAIN B!Page(H, n, ((i - 1) \div n) * n)
           /\ B!Page(H, n, ((i - 1) \div n) * n)[((i - 1) % n) + 1] = H[i]
      /\ \A p \in Nat : \A i \in DOMAIN B!Page(H, n, p * n) : i <= n /\ p * n + i <= m
  <2>1. m \in Nat /\ H \in [1 .. m -> Envelope]
    BY <1>1
  <2> QED
    BY <2>1, <1>2, PagesTile, Zenon
<1>4. DOMAIN H = 1 .. m
  BY <1>1
<1> QED
  BY <1>1, <1>3, <1>4 DEF H

-----------------------------------------------------------------------------
(* Steps of one table *)

\* A step of the Badger store is one of the interface, and keeps the invariant.
StoreStep == KeyInv' /\ [B!Abstract!Next]_<<B!Rows, B!Msgs, out>>

LEMMA TableKeys == B!Abstract!Table = DOMAIN Key
BY KeyAssumption

LEMMA SaveStep ==
  ASSUME KeyInv, NEW t \in DOMAIN Key, NEW k \in Key[t], NEW v \in Val[t],
         B!Update(B!Set(B!KeyOf(t, k), v), "Save", t)
  PROVE  StoreStep
<1>1. /\ db' = B!Written(db, B!KeyOf(t, k), v)
      /\ out' = B!Abstract!Reply("Save", t, {}, << >>)
  BY DEF B!Update, B!Set, B!Reply, B!Abstract!Reply
<1>2. KeyInv'
  BY <1>1, RowWritten
<1>3. B!Abstract!Save(t, k, v)
  BY <1>1, RowsWritten DEF B!Abstract!Save
<1>4. B!Abstract!Next
  BY <1>3, TableKeys DEF B!Abstract!Next
<1> QED
  BY <1>2, <1>4 DEF StoreStep

LEMMA DeleteStep ==
  ASSUME KeyInv, NEW t \in DOMAIN Key, NEW k \in Key[t],
         B!Update(B!Deleted({B!KeyOf(t, k)}), "Delete", t)
  PROVE  StoreStep
<1>1. /\ db' = B!Deleted({B!KeyOf(t, k)})
      /\ out' = B!Abstract!Reply("Delete", t, {}, << >>)
  BY DEF B!Update, B!Reply, B!Abstract!Reply
<1>2. KeyInv'
  BY <1>1, KeysDeleted
<1>3. {B!KeyOf(t, k)} = {B!KeyOf(t, j) : j \in {k}} /\ {k} \in SUBSET Key[t]
  OBVIOUS
<1>4. db' = B!Deleted({B!KeyOf(t, j) : j \in {k}})
  BY <1>1, <1>3
<1>5. /\ B!Rows' = [B!Rows EXCEPT ![t] = B!Abstract!Without(@, {k})]
      /\ B!Msgs' = B!Msgs
  BY <1>3, <1>4, RowsDeleted
<1>6. B!Abstract!Delete(t, k)
  BY <1>1, <1>5 DEF B!Abstract!Delete
<1>7. B!Abstract!Next
  BY <1>6, TableKeys DEF B!Abstract!Next
<1> QED
  BY <1>2, <1>7 DEF StoreStep

\* What reads have in common.
LEMMA ViewStep ==
  ASSUME KeyInv, NEW op, NEW t, NEW found, NEW list, B!View(op, t, found, list)
  PROVE  /\ KeyInv' /\ UNCHANGED <<B!Rows, B!Msgs>>
         /\ out' = B!Abstract!Reply(op, t, found, list) /\ B!Abstract!Called(op, t)
         /\ out'.rows = found /\ out'.list = list
<1>1. db' = db /\ out' = [op |-> op, table |-> t, rows |-> found, list |-> list]
  BY DEF B!View, B!Reply
<1>2. KeyInv'
  BY <1>1 DEF KeyInv, RowKeys, MessageKeys
<1>3. UNCHANGED <<B!Rows, B!Msgs>>
  BY <1>1, Unwritten
<1> QED
  BY <1>1, <1>2, <1>3 DEF B!Abstract!Reply, B!Abstract!Called

LEMMA GetStep ==
  ASSUME KeyInv, NEW t \in DOMAIN Key, NEW k \in Key[t],
         B!View("Get", t, B!Row(t, k), << >>)
  PROVE  StoreStep
<1>1. /\ KeyInv' /\ UNCHANGED <<B!Rows, B!Msgs>>
      /\ out' = B!Abstract!Reply("Get", t, B!Row(t, k), << >>) /\ B!Abstract!Called("Get", t)
  BY ViewStep
<1>2. B!Row(t, k) = {r \in B!Abstract!Pairs(B!Rows[t]) : r[1] = k}
  <2> DEFINE f == B!Rows[t]
  <2>1. DOMAIN f = {j \in Key[t] : B!KeyOf(t, j) \in DOMAIN db}
    BY RowsOf
  <2>2. k \in DOMAIN f => f[k] = db[B!KeyOf(t, k)]
    BY <2>1, RowsOf
  <2>3. B!Row(t, k) = IF k \in DOMAIN f THEN {<<k, f[k]>>} ELSE {}
    BY <2>1, <2>2 DEF B!Row, B!Has
  <2>4. B!Abstract!Pairs(f) = {<<j, f[j]>> : j \in DOMAIN f}
    BY DEF B!Abstract!Pairs
  <2> HIDE DEF f
  <2>5. {r \in B!Abstract!Pairs(f) : r[1] = k} = IF k \in DOMAIN f THEN {<<k, f[k]>>} ELSE {}
    BY <2>4
  <2> QED
    BY <2>3, <2>5 DEF f
<1>3. B!Abstract!Get(t, k)
  BY <1>1, <1>2 DEF B!Abstract!Get
<1>4. B!Abstract!Next
  BY <1>3, TableKeys DEF B!Abstract!Next
<1> QED
  BY <1>1, <1>4 DEF StoreStep

\* The rows a listing of the interface chooses from.
Listed(t, pre) == {r \in B!Abstract!Pairs(B!Rows[t]) : \A i \in DOMAIN pre : r[1][i] = pre[i]}

LEMMA ListedAll ==
  ASSUME NEW t \in DOMAIN Key
  PROVE  Listed(t, << >>) = PairsOf(t, DOMAIN B!Rows[t])
BY DEF Listed, PairsOf, B!Abstract!Pairs

LEMMA ListedGroup ==
  ASSUME NEW t \in DOMAIN Key, NEW g
  PROVE  Listed(t, <<g>>) = PairsOf(t, {k \in DOMAIN B!Rows[t] : k[1] = g})
<1> DEFINE f == B!Rows[t]
<1>1. Listed(t, <<g>>) = {r \in {<<k, f[k]>> : k \in DOMAIN f} : r[1][1] = g}
  <2>1. DOMAIN <<g>> = {1} /\ <<g>>[1] = g
    OBVIOUS
  <2> QED
    BY <2>1 DEF Listed, B!Abstract!Pairs
<1>2. PairsOf(t, {k \in DOMAIN f : k[1] = g}) = {<<k, f[k]>> : k \in {j \in DOMAIN f : j[1] = g}}
  BY DEF PairsOf
<1> HIDE DEF f
<1>3. {r \in {<<k, f[k]>> : k \in DOMAIN f} : r[1][1] = g}
        = {<<k, f[k]>> : k \in {j \in DOMAIN f : j[1] = g}}
  OBVIOUS
<1> QED
  BY <1>1, <1>2, <1>3 DEF f

LEMMA ListStep ==
  ASSUME KeyInv, NEW t \in DOMAIN Key, NEW K \in SUBSET DOMAIN B!Rows[t], NEW found,
         NEW pre \in {<< >>} \cup {<<g>> : g \in Group} \cup Key["channel"],
         NEW limit \in Limits, NEW offset \in Limits,
         Listed(t, pre) = PairsOf(t, K), found \subseteq PairsOf(t, K),
         Cardinality(found) = B!Abstract!PageSize(Cardinality(K), limit, offset),
         B!View("List", t, found, << >>)
  PROVE  StoreStep
<1>1. /\ KeyInv' /\ UNCHANGED <<B!Rows, B!Msgs>>
      /\ B!Abstract!Called("List", t) /\ out'.rows = found /\ out'.list = << >>
  BY ViewStep
<1>2. Cardinality(Listed(t, pre)) = Cardinality(K)
  BY PairsCounted
<1>3. B!Abstract!List(t, pre, limit, offset)
  <2>1. /\ out'.rows \subseteq Listed(t, pre)
        /\ B!Abstract!Cardinality(out'.rows)
             = B!Abstract!PageSize(B!Abstract!Cardinality(Listed(t, pre)), limit, offset)
    BY <1>1, <1>2, Counts
  <2> QED
    BY <1>1, <2>1 DEF B!Abstract!List, Listed
<1>4. B!Abstract!Next
  BY <1>3, TableKeys DEF B!Abstract!Next
<1> QED
  BY <1>1, <1>4 DEF StoreStep

\* All rows, or a page of them.
LEMMA ListAllStep ==
  ASSUME KeyInv, NEW t \in DOMAIN Key,
         B!View("List", t, B!RowsAt(B!Scan(<<Tag(t)>>)), << >>)
  PROVE  StoreStep
<1> DEFINE K == DOMAIN B!Rows[t]
           found == B!RowsAt(B!Scan(<<Tag(t)>>))
<1>1. found = PairsOf(t, K)
  BY ScanTable, RowsFound
<1>2. Cardinality(PairsOf(t, K)) = Cardinality(K) /\ Cardinality(K) \in Nat
  BY PairsCounted, FS_CardinalityType
<1>3. B!Abstract!PageSize(Cardinality(K), 0, 0) = Cardinality(K)
  <2> HIDE DEF K
  <2> QED
    BY <1>2 DEF B!Abstract!PageSize
<1>4. Listed(t, << >>) = PairsOf(t, K)
  BY ListedAll
<1>5. 0 \in Limits
  BY PageAssumption
<1>6. Cardinality(found) = B!Abstract!PageSize(Cardinality(K), 0, 0) /\ found \subseteq PairsOf(t, K)
  BY <1>1, <1>2, <1>3
<1>7. K \in SUBSET DOMAIN B!Rows[t] /\ B!View("List", t, found, << >>)
  OBVIOUS
<1> HIDE DEF K, found
<1> QED
  BY <1>4, <1>5, <1>6, <1>7, ListStep

LEMMA ListPageStep ==
  ASSUME KeyInv, NEW t \in DOMAIN Key, NEW limit \in Limits,
         B!View("List", t, B!RowsAt(B!ToSet(B!Page(B!InOrder(B!Scan(<<Tag(t)>>)), limit, 0))), << >>)
  PROVE  StoreStep
<1> DEFINE K == DOMAIN B!Rows[t]
           found == B!RowsAt(B!ToSet(B!Page(B!InOrder({B!KeyOf(t, k) : k \in K}), limit, 0)))
<1>1. B!View("List", t, found, << >>)
  BY ScanTable
<1>2. limit \in Nat /\ 0 \in Nat /\ 0 \in Limits
  BY PageAssumption
<1>3. found \subseteq PairsOf(t, K) /\ Cardinality(found) = B!Abstract!PageSize(Cardinality(K), limit, 0)
  BY <1>2, RowsPaged
<1>4. Listed(t, << >>) = PairsOf(t, K)
  BY ListedAll
<1>5. K \in SUBSET DOMAIN B!Rows[t]
  OBVIOUS
<1> HIDE DEF K, found
<1> QED
  BY <1>1, <1>2, <1>3, <1>4, <1>5, ListStep

\* The rows of one group or channel, or a page of them.
LEMMA ListGroupStep ==
  ASSUME KeyInv, NEW g \in Group,
         B!View("List", "senderKey", B!RowsAt(B!Scan(<<"sk:", g, ":">>)), << >>)
  PROVE  StoreStep
<1> DEFINE K == {j \in DOMAIN B!Rows["senderKey"] : j[1] = g}
           found == B!RowsAt(B!Scan(<<"sk:", g, ":">>))
<1>1. "senderKey" \in Pair /\ "senderKey" \in DOMAIN Key /\ Tag("senderKey") = "sk:"
  BY KeyAssumption DEF Pair, Tag, B!Abstract!Table
<1>2. B!Scan(<<"sk:", g, ":">>) = {B!KeyOf("senderKey", k) : k \in K}
  BY <1>1, ScanGroup
<1>3. K \in SUBSET DOMAIN B!Rows["senderKey"]
  OBVIOUS
<1>4. found = PairsOf("senderKey", K)
  BY <1>1, <1>2, RowsFound
<1>5. Cardinality(PairsOf("senderKey", K)) = Cardinality(K) /\ Cardinality(K) \in Nat
  <2> HIDE DEF K
  <2> QED
    BY <1>1, <1>3, PairsCounted, FS_CardinalityType
<1>6. B!Abstract!PageSize(Cardinality(K), 0, 0) = Cardinality(K)
  <2> HIDE DEF K
  <2> QED
    BY <1>5 DEF B!Abstract!PageSize
<1>7. Listed("senderKey", <<g>>) = PairsOf("senderKey", K)
  BY <1>1, ListedGroup
<1>8. 0 \in Limits /\ <<g>> \in {<< >>} \cup {<<h>> : h \in Group} \cup Key["channel"]
  BY PageAssumption
<1>9. B!View("List", "senderKey", found, << >>)
  OBVIOUS
<1> HIDE DEF K, found
<1> QED
  BY <1>1, <1>3, <1>4, <1>5, <1>6, <1>7, <1>8, <1>9, ListStep

LEMMA ChannelPostsStep ==
  ASSUME KeyInv, NEW c \in Key["channel"], NEW limit \in Limits, NEW offset \in Limits,
         B!GetChannelPosts(c[1], limit, offset)
  PROVE  StoreStep
<1> DEFINE K == {j \in DOMAIN B!Rows["post"] : j[1] = c[1]}
           found == B!RowsAt(B!ToSet(B!Page(B!InOrder({B!KeyOf("post", k) : k \in K}), limit, offset)))
<1>1. "post" \in Pair /\ "post" \in DOMAIN Key /\ Tag("post") = "chp:"
  BY KeyAssumption DEF Pair, Tag, B!Abstract!Table
<1>2. B!Scan(<<"chp:", c[1], ":">>) = {B!KeyOf("post", k) : k \in K}
  BY <1>1, ScanGroup
<1>3. B!View("List", "post", found, << >>)
  BY <1>2 DEF B!GetChannelPosts
<1>4. limit \in Nat /\ offset \in Nat
  BY PageAssumption
<1>5. K \in SUBSET DOMAIN B!Rows["post"]
  OBVIOUS
<1>6. /\ found \subseteq PairsOf("post", K)
      /\ Cardinality(found) = B!Abstract!PageSize(Cardinality(K), limit, offset)
  <2> HIDE DEF K
  <2> QED
    BY <1>1, <1>4, <1>5, RowsPaged
<1>7. Listed("post", <<c[1]>>) = PairsOf("post", K)
  BY <1>1, ListedGroup
<1>8. <<c[1]>> \in {<< >>} \cup {<<h>> : h \in Group} \cup Key["channel"]
  <2>1. c = <<c[1]>>
    BY KeyNumbers, KeyAssumption DEF Pair, B!Abstract!Table
  <2> QED
    BY <2>1
<1> HIDE DEF K, found
<1> QED
  BY <1>1, <1>3, <1>5, <1>6, <1>7, <1>8, ListStep

LEMMA CountStep ==
  ASSUME KeyInv, NEW t \in DOMAIN Key,
         B!View("Count", t, {}, <<B!Cardinality(B!Scan(<<Tag(t)>>))>>)
  PROVE  StoreStep
<1> DEFINE K == DOMAIN B!Rows[t]
<1>1. B!Cardinality(B!Scan(<<Tag(t)>>)) = B!Abstract!Cardinality(K)
  <2>1. B!Cardinality({B!KeyOf(t, k) : k \in K}) = Cardinality(K)
    BY PairsCounted, Counts
  <2> QED
    BY <2>1, ScanTable, Counts
<1>2. /\ KeyInv' /\ UNCHANGED <<B!Rows, B!Msgs>>
      /\ out' = B!Abstract!Reply("Count", t, {}, <<B!Cardinality(B!Scan(<<Tag(t)>>))>>)
      /\ B!Abstract!Called("Count", t)
  BY ViewStep
<1>3. B!Abstract!Count(t)
  BY <1>1, <1>2 DEF B!Abstract!Count
<1>4. B!Abstract!Next
  BY <1>3, TableKeys DEF B!Abstract!Next
<1> QED
  BY <1>2, <1>4 DEF StoreStep

LEMMA SourceStep ==
  ASSUME KeyInv, NEW s \in Source, B!ListPeersBySource(s)
  PROVE  StoreStep
<1> DEFINE f == B!Rows["peer"]
           K == {k \in DOMAIN f : PeerInfo[f[k]].source = s}
<1>1. "peer" \in DOMAIN Key /\ Tag("peer") = "p:"
  BY KeyAssumption DEF Tag, B!Abstract!Table
<1>2. B!Scan(<<"p:">>) = {B!KeyOf("peer", k) : k \in DOMAIN f}
  BY <1>1, ScanTable
<1>3. \A k \in DOMAIN f : f[k] = db[B!KeyOf("peer", k)]
  BY <1>1, RowsOf
<1>4. B!OfSource(s) = {B!KeyOf("peer", k) : k \in K}
  <2>1. B!OfSource(s) = {d \in B!Scan(<<"p:">>) : PeerInfo[db[d]].source = s}
    BY DEF B!OfSource
  <2> HIDE DEF f
  <2> QED
    BY <1>2, <1>3, <2>1
<1>5. B!RowsAt(B!OfSource(s)) = PairsOf("peer", K)
  BY <1>1, <1>4, RowsFound
<1>6. PairsOf("peer", K) = {r \in B!Abstract!Pairs(f) : PeerInfo[r[2]].source = s}
  <2>1. PairsOf("peer", K) = {<<k, f[k]>> : k \in K}
    BY DEF PairsOf
  <2>2. B!Abstract!Pairs(f) = {<<k, f[k]>> : k \in DOMAIN f}
    BY DEF B!Abstract!Pairs
  <2> HIDE DEF f
  <2> QED
    BY <2>1, <2>2
<1>7. /\ KeyInv' /\ UNCHANGED <<B!Rows, B!Msgs>> /\ B!Abstract!Called("ListBySource", "peer")
      /\ out' = B!Abstract!Reply("ListBySource", "peer", B!RowsAt(B!OfSource(s)), << >>)
  BY ViewStep DEF B!ListPeersBySource
<1>8. B!Abstract!ListBySource(s)
  BY <1>5, <1>6, <1>7 DEF B!Abstract!ListBySource
<1>9. B!Abstract!Next
  BY <1>8 DEF B!Abstract!Next
<1> QED
  BY <1>7, <1>9 DEF StoreStep

\* A peer the interface counts as better outranks the other in PrunePeers.
LEMMA BetterOutranks ==
  ASSUME NEW a \in Val["peer"], NEW b \in Val["peer"],
         B!Abstract!Better(PeerInfo[a], PeerInfo[b])
  PROVE  B!Outranks(a, b)
<1>1. /\ PeerInfo[a].connects \in Nat /\ PeerInfo[a].fails \in Nat /\ PeerInfo[a].seen \in Int
      /\ PeerInfo[b].connects \in Nat /\ PeerInfo[b].fails \in Nat /\ PeerInfo[b].seen \in Int
  BY PeerAssumption
<1>2. PICK ac \in Nat, af \in Nat, sa \in Int :
        ac = PeerInfo[a].connects /\ af = PeerInfo[a].fails /\ sa = PeerInfo[a].seen
  BY <1>1
<1>3. PICK bc \in Nat, bf \in Nat, sb \in Int :
        bc = PeerInfo[b].connects /\ bf = PeerInfo[b].fails /\ sb = PeerInfo[b].seen
  BY <1>1
<1> DEFINE at == IF ac + af = 0 THEN 1 ELSE ac + af
           bt == IF bc + bf = 0 THEN 1 ELSE bc + bf
<1>4. ac * bt > bc * at \/ (ac * bt = bc * at /\ sa > sb)
  BY <1>2, <1>3 DEF B!Abstract!Better
<1>5. B!HigherRate(a, b) <=> IF bc + bf = 0 THEN ac > 0 ELSE ac * (bc + bf) > bc * (ac + af)
  BY <1>2, <1>3 DEF B!HigherRate
<1>6. B!HigherRate(b, a) <=> IF ac + af = 0 THEN bc > 0 ELSE bc * (ac + af) > ac * (bc + bf)
  BY <1>2, <1>3 DEF B!HigherRate
<1>7. B!Outranks(a, b) <=> B!HigherRate(a, b) \/ (~B!HigherRate(b, a) /\ sa > sb)
  BY <1>2, <1>3 DEF B!Outranks
<1> HIDE DEF at, bt
<1>8. CASE ac + af = 0
  <2>1. ac = 0 /\ at = 1 /\ bt \in Nat
    BY <1>8 DEF at, bt
  <2>2. ac * bt = 0 /\ bc * at = bc
    BY <2>1
  <2>3. bc = 0 /\ sa > sb
    BY <1>4, <2>2, <2>1
  <2>4. ~B!HigherRate(b, a)
    BY <1>6, <1>8, <2>3
  <2> QED
    BY <1>7, <2>3, <2>4
<1>9. CASE bc + bf = 0 /\ ac + af # 0
  <2>1. bc = 0 /\ bt = 1 /\ at = ac + af
    BY <1>9 DEF at, bt
  <2>2. ac * bt = ac /\ bc * at = 0 /\ bc * (ac + af) = 0 /\ ac * (bc + bf) = 0
    BY <1>9, <2>1
  <2> QED
    BY <1>4, <1>5, <1>6, <1>7, <1>9, <2>2
<1>10. CASE bc + bf # 0 /\ ac + af # 0
  <2>1. bt = bc + bf /\ at = ac + af
    BY <1>10 DEF at, bt
  <2>2. PICK x \in Nat, y \in Nat : x = ac * (bc + bf) /\ y = bc * (ac + af)
    OBVIOUS
  <2>3. x > y \/ (x = y /\ sa > sb)
    BY <1>4, <2>1, <2>2
  <2>4. (B!HigherRate(a, b) <=> x > y) /\ (B!HigherRate(b, a) <=> y > x)
    BY <1>5, <1>6, <1>10, <2>2
  <2> QED
    BY <1>7, <2>2, <2>3, <2>4
<1> QED
  BY <1>8, <1>9, <1>10

LEMMA PruneStep ==
  ASSUME KeyInv, NEW cutoff \in Cutoff, NEW keep \in Keep, B!PrunePeers(cutoff, keep)
  PROVE  StoreStep
<1> DEFINE f == B!Rows["peer"]
           all == B!Scan(<<"p:">>)
<1>1. "peer" \in DOMAIN Key /\ Tag("peer") = "p:"
  BY KeyAssumption DEF Tag, B!Abstract!Table
<1>2. all = {B!KeyOf("peer", k) : k \in DOMAIN f}
  BY <1>1, ScanTable
<1>3. /\ DOMAIN f \subseteq Key["peer"]
      /\ \A k \in DOMAIN f : f[k] = db[B!KeyOf("peer", k)] /\ f[k] \in Val["peer"]
  <2>1. f = [k \in {j \in Key["peer"] : B!KeyOf("peer", j) \in DOMAIN db} |-> db[B!KeyOf("peer", k)]]
    BY <1>1, RowsOf
  <2>2. \A k \in Key["peer"] :
          B!KeyOf("peer", k) \in DOMAIN db => db[B!KeyOf("peer", k)] \in Val["peer"]
    BY DEF KeyInv
  <2> HIDE DEF f
  <2> QED
    BY <2>1, <2>2
<1>4. PICK gone \in SUBSET all :
        B!Pruned(cutoff, keep, gone) /\ B!Update(B!Deleted(gone), "Prune", "peer")
  BY DEF B!PrunePeers
<1> DEFINE G == {k \in DOMAIN f : B!KeyOf("peer", k) \in gone}
<1>5. gone = {B!KeyOf("peer", k) : k \in G} /\ G \in SUBSET Key["peer"]
  <2> HIDE DEF f
  <2> QED
    BY <1>2, <1>3
<1>6. /\ db' = B!Deleted({B!KeyOf("peer", k) : k \in G})
      /\ out' = B!Abstract!Reply("Prune", "peer", {}, << >>)
  BY <1>4, <1>5 DEF B!Update, B!Reply, B!Abstract!Reply
<1>7. KeyInv'
  BY <1>6, KeysDeleted
<1>8. /\ B!Rows' = [B!Rows EXCEPT !["peer"] = B!Abstract!Without(@, G)]
      /\ B!Msgs' = B!Msgs
  <2> HIDE DEF G
  <2> QED
    BY <1>1, <1>5, <1>6, RowsDeleted
<1>9. ASSUME NEW r \in G, NEW k \in DOMAIN f \ G,
             B!Abstract!Better(PeerInfo[f[r]], PeerInfo[f[k]]),
             PeerInfo[f[r]].seen >= PeerInfo[f[k]].seen
      PROVE  FALSE
  <2> DEFINE i == B!KeyOf("peer", r)
             j == B!KeyOf("peer", k)
  <2>1. i \in gone /\ i \in all /\ j \in all /\ j \notin gone
    BY <1>2
  <2>2. db[i] = f[r] /\ db[j] = f[k] /\ f[r] \in Val["peer"] /\ f[k] \in Val["peer"]
    BY <1>3
  <2> HIDE DEF i, j, f, all
  <2>3. B!Outranks(db[i], db[j])
    BY <1>9, <2>2, BetterOutranks
  <2>4. PeerInfo[db[i]].seen \in Int /\ PeerInfo[db[j]].seen \in Int /\ cutoff \in Int
    BY <2>2, PeerAssumption
  <2>5. ~(B!Stale(i, cutoff) /\ ~B!Stale(j, cutoff))
    BY <1>9, <2>2, <2>4 DEF B!Stale
  <2>6. \/ gone = {d \in all : B!Stale(d, cutoff)}
        \/ \E top \in SUBSET all : B!Best(top, keep) /\ gone = {d \in all : B!Stale(d, cutoff)} \cup (all \ top)
    BY <1>4 DEF B!Pruned, all
  <2>7. CASE gone = {d \in all : B!Stale(d, cutoff)}
    BY <2>1, <2>5, <2>7
  <2>8. ASSUME NEW top \in SUBSET all, B!Best(top, keep),
               gone = {d \in all : B!Stale(d, cutoff)} \cup (all \ top)
        PROVE  FALSE
    <3>1. i \notin top /\ j \in top
      BY <2>1, <2>5, <2>8
    <3>2. ~B!Outranks(db[i], db[j])
      BY <2>1, <2>8, <3>1 DEF B!Best, all
    <3> QED
      BY <3>2, <2>3
  <2> QED
    BY <2>6, <2>7, <2>8
<1>10. B!Abstract!Prune
  <2> HIDE DEF G
  <2>1. G \in SUBSET DOMAIN f
    BY DEF G
  <2> QED
    BY <1>6, <1>8, <1>9, <2>1 DEF B!Abstract!Prune
<1>11. B!Abstract!Next
  BY <1>10 DEF B!Abstract!Next
<1> QED
  BY <1>7, <1>11 DEF StoreStep

\* A post and the latest post of its channel are written together.
LEMMA PostStep ==
  ASSUME KeyInv, NEW k \in Key["post"], NEW v \in Val["post"], B!SaveChannelPost(k[1], k[2], v)
  PROVE  StoreStep
<1> DEFINE d == B!KeyOf("post", k)
           c == <<k[1]>>
           h == B!channelKey(k[1])
           mid == B!Written(db, d, v)
<1>1. "post" \in DOMAIN Key /\ "channel" \in DOMAIN Key /\ k = <<k[1], k[2]>>
  BY KeyNumbers, KeyAssumption DEF Pair, B!Abstract!Table
<1>2. d = B!channelPostKey(k[1], k[2]) /\ B!KeyOf("channel", c) = h
  BY DEF B!KeyOf
<1>3. /\ db' = IF h \in DOMAIN db THEN B!Written(mid, h, v) ELSE mid
      /\ out' = B!Abstract!Reply("Save", "post", {}, << >>)
  BY <1>2 DEF B!SaveChannelPost, B!Update, B!Has, B!Set, B!Reply, B!Abstract!Reply
<1>4. h \in DOMAIN db => c \in Key["channel"]
  <2> SUFFICES ASSUME h \in DOMAIN db PROVE c \in Key["channel"]
    OBVIOUS
  <2>1. h = <<"ch:", k[1]>>
    BY DEF B!channelKey
  <2>2. h \notin MessageKeys
    BY <1>1, <1>2, MessageKeyFrom, MessageApart
  <2>3. PICK t \in DOMAIN Key : \E j \in Key[t] : h = B!KeyOf(t, j)
    BY <2>2, RowKeyOf DEF KeyInv
  <2>4. PICK j \in Key[t] : h = B!KeyOf(t, j)
    BY <2>3
  <2>5. Tag(t) = "ch:"
    BY <2>1, <2>4, KeyForm
  <2>6. t = "channel"
    BY <2>5, <1>1, TagApart DEF Tag
  <2>7. h = <<Tag("channel"), j[1]>> /\ j = <<j[1]>>
    BY <2>4, <2>6, <1>1, KeyForm, KeyNumbers DEF Pair
  <2> QED
    BY <2>1, <2>4, <2>6, <2>7
<1>5. c \in DOMAIN B!Rows["channel"] <=> h \in DOMAIN db
  <2>1. DOMAIN B!Rows["channel"] = {j \in Key["channel"] : B!KeyOf("channel", j) \in DOMAIN db}
    BY <1>1, RowsOf
  <2> HIDE DEF c, h
  <2> QED
    BY <2>1, <1>2, <1>4
<1>6. /\ RowIn(mid, "post") = B!Abstract!Put(RowIn(db, "post"), k, v)
      /\ \A u \in DOMAIN Key : u # "post" => RowIn(mid, u) = RowIn(db, u)
  BY <1>1, RowPut
<1>7. h \in DOMAIN db =>
        /\ RowIn(db', "channel") = B!Abstract!Put(RowIn(mid, "channel"), c, v)
        /\ \A u \in DOMAIN Key : u # "channel" => RowIn(db', u) = RowIn(mid, u)
  BY <1>1, <1>2, <1>3, <1>4, RowPut
<1>8. ASSUME NEW x PROVE ~B!IsPrefix(<<"m:", x>>, d) /\ ~B!IsPrefix(<<"m:", x>>, h)
  BY <1>1, <1>2, RowNotMessage
<1>9. d \in RowKeys /\ (h \in DOMAIN db => h \in RowKeys)
  BY <1>1, <1>2, <1>4, RowKey
<1>10. /\ \A x, s, e : B!messageKey(x, s, e) # d /\ B!messageKey(x, s, e) # h
       /\ \A j \in Key["peer"] : B!KeyOf("peer", j) # d
       /\ \A j \in Key["peer"] : h \in DOMAIN db => B!KeyOf("peer", j) # h
  BY <1>1, <1>2, <1>4, MessageApart, KeyOfApart, KeyAssumption DEF B!Abstract!Table
<1>11. db' = [i \in DOMAIN db \cup {d} |->
                IF i = d \/ (h \in DOMAIN db /\ i = h) THEN v ELSE db[i]]
  <2> HIDE DEF d, h
  <2>1. mid = [i \in DOMAIN db \cup {d} |-> IF i = d THEN v ELSE db[i]]
    BY DEF B!Written
  <2>2. B!Written(mid, h, v) = [i \in DOMAIN mid \cup {h} |-> IF i = h THEN v ELSE mid[i]]
    BY DEF B!Written
  <2> HIDE DEF mid
  <2> QED
    BY <2>1, <2>2, <1>3
<1>12. KeyInv'
  <2> HIDE DEF d, h, mid
  <2>1. DOMAIN db' = DOMAIN db \cup {d} /\ db' = [i \in DOMAIN db' |-> db'[i]]
    BY <1>11
  <2>2. IsFiniteSet(DOMAIN db')
    BY <2>1, FS_AddElement DEF KeyInv
  <2>3. DOMAIN db' \subseteq RowKeys \cup MessageKeys
    BY <2>1, <1>9 DEF KeyInv
  <2>4. ASSUME NEW x \in Contact, NEW s \in Time, NEW e \in Envelope,
               B!messageKey(x, s, e) \in DOMAIN db'
        PROVE  db'[B!messageKey(x, s, e)] = e
    BY <2>4, <1>10, <1>11 DEF KeyInv
  <2>5. ASSUME NEW j \in Key["peer"], B!KeyOf("peer", j) \in DOMAIN db'
        PROVE  db'[B!KeyOf("peer", j)] \in Val["peer"]
    BY <2>5, <1>10, <1>11 DEF KeyInv
  <2> QED
    BY <2>1, <2>2, <2>3, <2>4, <2>5 DEF KeyInv
<1>13. B!Msgs' = B!Msgs
  <2> HIDE DEF d, h, mid
  <2>1. /\ \A i \in {d, h} : \A x : ~B!IsPrefix(<<"m:", x>>, i)
        /\ DOMAIN db' \ {d, h} = DOMAIN db \ {d, h}
        /\ \A i \in DOMAIN db \ {d, h} : db'[i] = db[i]
    BY <1>8, <1>11
  <2> QED
    BY <2>1, MsgsKept
<1>14. B!Rows' = [B!Rows EXCEPT !["post"] = B!Abstract!Put(@, k, v),
                    !["channel"] = IF c \in DOMAIN @ THEN B!Abstract!Put(@, c, v) ELSE @]
  <2> HIDE DEF d, h, mid, c
  <2>1. RowIn(db', "post") = B!Abstract!Put(RowIn(db, "post"), k, v)
    BY <1>1, <1>3, <1>6, <1>7
  <2>2. RowIn(db', "channel") = IF h \in DOMAIN db THEN B!Abstract!Put(RowIn(db, "channel"), c, v)
                                ELSE RowIn(db, "channel")
    BY <1>1, <1>3, <1>6, <1>7
  <2>3. \A u \in DOMAIN Key : u # "post" /\ u # "channel" => RowIn(db', u) = RowIn(db, u)
    BY <1>1, <1>3, <1>6, <1>7
  <2> QED
    BY <2>1, <2>2, <2>3, <1>1, <1>5, RowsIn
<1>15. B!Abstract!SavePost(k[1], k[2], v)
  BY <1>1, <1>3, <1>13, <1>14 DEF B!Abstract!SavePost
<1>16. B!Abstract!Next
  BY <1>15 DEF B!Abstract!Next
<1> QED
  BY <1>12, <1>16 DEF StoreStep

-----------------------------------------------------------------------------
(* Deleting the sender keys of a group *)

LEMMA FunctionSeq ==
  ASSUME NEW n \in Nat, NEW V, NEW s \in [1 .. n -> V]
  PROVE  s \in Seq(V)
BY SeqDef

\* Keys that are before all others come first in the order.
LEMMA FirstOnes ==
  ASSUME NEW S, IsFiniteSet(S), Ordered(S), NEW D \in SUBSET S,
         \A a \in D : \A b \in S \ D : B!KeyLess(a, b)
  PROVE  /\ Cardinality(D) \in 0 .. Cardinality(S)
         /\ {B!InOrder(S)[i] : i \in 1 .. Cardinality(D)} = D
<1> DEFINE list == B!InOrder(S)
           n == Cardinality(D)
<1>1. IsFiniteSet(D) /\ n \in Nat /\ Cardinality(S) \in Nat /\ n <= Cardinality(S)
  BY FS_Subset, FS_CardinalityType
<1>2. /\ \A i \in 1 .. Cardinality(S) : list[i] \in S /\ Cardinality(Below(S, list[i])) = i - 1
      /\ \A k \in S : /\ Cardinality(Below(S, k)) + 1 \in 1 .. Cardinality(S)
                      /\ list[Cardinality(Below(S, k)) + 1] = k
  BY InOrderLists
<1> HIDE DEF list
<1>3. ASSUME NEW a \in D
      PROVE  \E i \in 1 .. n : list[i] = a
  <2>1. Below(S, a) \subseteq D /\ a \notin Below(S, a)
    BY DEF Ordered, Below
  <2>2. /\ Cardinality(Below(S, a)) <= n /\ IsFiniteSet(Below(S, a))
        /\ n = Cardinality(Below(S, a)) => D = Below(S, a)
    BY <1>1, <2>1, FS_Subset
  <2>3. Cardinality(Below(S, a)) \in Nat
    BY <2>2, FS_CardinalityType
  <2>4. Cardinality(Below(S, a)) + 1 \in 1 .. n
    BY <1>1, <2>1, <2>2, <2>3
  <2> QED
    BY <1>2, <2>4
<1>4. ASSUME NEW i \in 1 .. n
      PROVE  list[i] \in D
  <2>1. i \in 1 .. Cardinality(S)
    BY <1>1
  <2>2. list[i] \in S /\ Cardinality(Below(S, list[i])) = i - 1
    BY <1>2, <2>1
  <2>3. IsFiniteSet(Below(S, list[i]))
    BY FS_Subset DEF Below
  <2>4. list[i] \notin D => D \subseteq Below(S, list[i])
    BY <2>2 DEF Below
  <2>5. list[i] \notin D => n <= i - 1
    BY <2>2, <2>3, <2>4, FS_Subset
  <2> QED
    BY <1>1, <2>5
<1> QED
  BY <1>1, <1>3, <1>4 DEF list

\* The iterator's read-ahead reaches no key buffer twice while the sender keys
\* of a group are collected: those from the group on and the signed prekeys fit
\* into it.
ReadAhead == \A g \in Group : Len(B!FromGroup(g)) <= PrefetchSize

LEMMA CollectedAll ==
  ASSUME KeyInv, ReadAhead, NEW g \in Group
  PROVE  B!Collected(g) = B!Scan(<<"sk:", g, ":">>)
<1> DEFINE f == B!Rows["senderKey"]
           D == B!Scan(<<"sk:", g, ":">>)
           A == {k \in B!Scan(<<"sk:">>) : k[2] >= g}
           Z == B!Scan(<<"spk:">>)
           n == Cardinality(D)
           read == B!FromGroup(g)
<1>1. /\ "senderKey" \in Pair /\ "senderKey" \in DOMAIN Key /\ Tag("senderKey") = "sk:"
      /\ "spk" \in DOMAIN Key /\ Tag("spk") = "spk:" /\ g \in Int
  BY KeyAssumption DEF Pair, Tag, B!Abstract!Table
<1>2. /\ B!Scan(<<"sk:">>) = {B!KeyOf("senderKey", k) : k \in DOMAIN f}
      /\ D = {B!KeyOf("senderKey", k) : k \in {j \in DOMAIN f : j[1] = g}}
      /\ Z = {B!KeyOf("spk", k) : k \in DOMAIN B!Rows["spk"]}
  BY <1>1, ScanTable, ScanGroup
<1>3. DOMAIN f \subseteq Key["senderKey"] /\ DOMAIN B!Rows["spk"] \subseteq Key["spk"]
  BY <1>1, RowsOf
<1>4. ASSUME NEW k \in DOMAIN f
      PROVE  /\ B!KeyOf("senderKey", k) = <<"sk:", k[1], ":", k[2]>>
             /\ k[1] \in Int /\ k[2] \in Int
  BY <1>1, <1>3, KeyForm, KeyNumbers
<1>5. D \in SUBSET A
  <2> SUFFICES ASSUME NEW d \in D PROVE d \in A
    OBVIOUS
  <2>1. PICK k \in DOMAIN f : k[1] = g /\ d = B!KeyOf("senderKey", k)
    BY <1>2
  <2>2. d \in B!Scan(<<"sk:">>) /\ d = <<"sk:", k[1], ":", k[2]>>
    BY <1>2, <1>4, <2>1
  <2> QED
    BY <2>1, <2>2, <1>1
<1>6. ASSUME NEW a \in D, NEW b \in A \ D
      PROVE  B!KeyLess(a, b)
  <2>1. PICK j \in DOMAIN f : j[1] = g /\ a = B!KeyOf("senderKey", j)
    BY <1>2
  <2>2. PICK k \in DOMAIN f : b = B!KeyOf("senderKey", k)
    BY <1>2
  <2>3. a = <<"sk:", j[1], ":", j[2]>> /\ b = <<"sk:", k[1], ":", k[2]>>
    BY <1>4, <2>1, <2>2
  <2>4. k[1] # g
    BY <1>2, <2>2
  <2>5. k[1] >= g
    BY <2>3
  <2>6. j[1] < k[1]
    BY <1>1, <1>4, <2>1, <2>4, <2>5
  <2>7. j[1] \in Int /\ j[2] \in Int /\ k[1] \in Int /\ k[2] \in Int
    BY <1>4
  <2>8. B!KeyLess(<<"sk:", j[1], ":", j[2]>>, <<"sk:", k[1], ":", k[2]>>)
    BY <2>6, <2>7, LessFour
  <2> QED
    BY <2>3, <2>8
<1>7. A \in SUBSET {B!KeyOf("senderKey", k) : k \in Key["senderKey"]}
      /\ Z \in SUBSET {B!KeyOf("spk", k) : k \in Key["spk"]}
  BY <1>2, <1>3
<1>8. /\ IsFiniteSet(A) /\ IsFiniteSet(Z) /\ Ordered(A) /\ Ordered(Z)
  <2>1. A \subseteq DOMAIN db /\ Z \subseteq DOMAIN db
    BY DEF B!Scan
  <2> HIDE DEF A, Z
  <2>2. Ordered(A) /\ Ordered(Z)
    BY <1>1, <1>7, TableOrdered
  <2> QED
    BY <2>1, <2>2, FS_Subset DEF KeyInv
<1>9. read = B!InOrder(A) \o B!InOrder(Z) /\ Len(read) <= PrefetchSize /\ PrefetchSize \in Nat \ {0}
  BY PageAssumption DEF ReadAhead, B!FromGroup
<1> HIDE DEF D, A, Z, read, f
<1>10. /\ n \in 0 .. Cardinality(A) /\ {B!InOrder(A)[i] : i \in 1 .. n} = D
  BY <1>5, <1>6, <1>8, FirstOnes
<1>11. /\ Cardinality(A) \in Nat /\ B!InOrder(A) \in [1 .. Cardinality(A) -> A]
       /\ Cardinality(Z) \in Nat /\ B!InOrder(Z) \in [1 .. Cardinality(Z) -> Z]
  BY <1>8, InOrderLists
<1>12. /\ Len(read) \in Nat /\ n <= Len(read)
       /\ \A i \in 1 .. n : read[i] = B!InOrder(A)[i]
  <2> DEFINE p == B!InOrder(A)
             q == B!InOrder(Z)
  <2>1. p \in Seq(A \cup Z) /\ q \in Seq(A \cup Z)
    <3>1. p \in Seq(A) /\ q \in Seq(Z)
      <4> HIDE DEF p, q
      <4>1. p \in [1 .. Cardinality(A) -> A] /\ q \in [1 .. Cardinality(Z) -> Z]
        BY <1>11 DEF p, q
      <4> QED
        BY <1>11, <4>1, FunctionSeq
    <3> QED
      BY <3>1, SeqMonotonic
  <2>2. DOMAIN p = 1 .. Cardinality(A)
    BY <1>11
  <2> HIDE DEF p, q
  <2>3. Len(p) = Cardinality(A) /\ Len(q) \in Nat
    BY <1>11, <2>1, <2>2, LenProperties
  <2>4. /\ Len(p \o q) = Len(p) + Len(q)
        /\ \A i \in 1 .. Len(p) + Len(q) : (p \o q)[i] = IF i <= Len(p) THEN p[i] ELSE q[i - Len(p)]
    BY <2>1, ConcatProperties
  <2>5. read = p \o q
    BY <1>9 DEF p, q
  <2> HIDE DEF n
  <2>6. Len(read) = Cardinality(A) + Len(q)
    BY <2>3, <2>4, <2>5
  <2>7. ASSUME NEW i \in 1 .. n PROVE read[i] = p[i]
    BY <1>10, <1>11, <2>3, <2>4, <2>5
  <2> QED
    BY <1>10, <1>11, <2>3, <2>6, <2>7 DEF p
<1> DEFINE seen == IF n + PrefetchSize < Len(read) THEN n + PrefetchSize ELSE Len(read)
<1>13. n \in Nat
  BY <1>10
<1>14. ASSUME NEW i \in 1 .. n
       PROVE  read[i + PrefetchSize * ((seen - i) \div PrefetchSize)] = B!InOrder(A)[i]
  <2> HIDE DEF n
  <2>1. seen - i \in 0 .. PrefetchSize - 1
    BY <1>9, <1>12, <1>13
  <2> HIDE DEF seen
  <2>2. PICK x \in 0 .. PrefetchSize - 1 : x = seen - i
    BY <2>1
  <2>3. x \div PrefetchSize = 0
    BY <1>9
  <2>4. PrefetchSize * 0 = 0
    BY <1>9
  <2>5. i + PrefetchSize * ((seen - i) \div PrefetchSize) = i
    BY <2>2, <2>3, <2>4
  <2> QED
    BY <2>5, <1>12
<1>15. B!Collected(g) = {read[i + PrefetchSize * ((seen - i) \div PrefetchSize)] : i \in 1 .. n}
  <2>1. B!Cardinality(D) = n
    BY Counts
  <2> QED
    BY <2>1 DEF B!Collected, D, read
<1> HIDE DEF n, seen
<1>16. {read[i + PrefetchSize * ((seen - i) \div PrefetchSize)] : i \in 1 .. n} = D
  BY <1>10, <1>14
<1> QED
  BY <1>15, <1>16 DEF D

LEMMA DeleteAllStep ==
  ASSUME KeyInv, ReadAhead, NEW g \in Group, B!DeleteAllSenderKeys(g)
  PROVE  StoreStep
<1> DEFINE f == B!Rows["senderKey"]
           G == {k \in DOMAIN f : k[1] = g}
<1>1. /\ "senderKey" \in Pair /\ "senderKey" \in DOMAIN Key /\ Tag("senderKey") = "sk:"
  BY KeyAssumption DEF Pair, Tag, B!Abstract!Table
<1>2. B!Collected(g) = {B!KeyOf("senderKey", k) : k \in G}
  BY <1>1, CollectedAll, ScanGroup
<1>3. DOMAIN f \subseteq Key["senderKey"]
  BY <1>1, RowsOf
<1>4. /\ db' = B!Deleted({B!KeyOf("senderKey", k) : k \in G})
      /\ out' = B!Abstract!Reply("DeleteAll", "senderKey", {}, << >>)
  BY <1>2 DEF B!DeleteAllSenderKeys, B!Update, B!Reply, B!Abstract!Reply
<1>5. KeyInv'
  BY <1>4, KeysDeleted
<1>6. G \in SUBSET Key["senderKey"]
  BY <1>3
<1>7. /\ B!Rows' = [B!Rows EXCEPT !["senderKey"] = B!Abstract!Without(@, G)]
      /\ B!Msgs' = B!Msgs
  <2> HIDE DEF G
  <2> QED
    BY <1>1, <1>4, <1>6, RowsDeleted
<1>8. B!Abstract!DeleteSenderKeysOf(g)
  BY <1>4, <1>7 DEF B!Abstract!DeleteSenderKeysOf
<1>9. B!Abstract!Next
  BY <1>8 DEF B!Abstract!Next
<1> QED
  BY <1>5, <1>9 DEF StoreStep

-----------------------------------------------------------------------------
(* Every call is a step of the interface *)

LEMMA ContactSteps ==
  ASSUME KeyInv, B!ContactOps
  PROVE  StoreStep
<1>1. ASSUME NEW k \in Key["contact"]
      PROVE  "contact" \in DOMAIN Key /\ k = <<k[1]>> /\ B!KeyOf("contact", k) = B!contactKey(k[1])
  BY KeyNumbers, KeyAssumption DEF Pair, B!KeyOf, B!Abstract!Table
<1>2. ASSUME NEW k \in Key["contact"], NEW v \in Val["contact"], B!AddContact(k[1], v) PROVE StoreStep
  BY <1>1, <1>2, SaveStep DEF B!AddContact
<1>3. ASSUME NEW k \in Key["contact"], B!GetContact(k[1]) PROVE StoreStep
  <2>1. B!View("Get", "contact", B!Row("contact", k), << >>)
    BY <1>1, <1>3 DEF B!GetContact
  <2> QED
    BY <1>1, <2>1, GetStep
<1>4. ASSUME NEW k \in Key["contact"], B!GetContactX25519Key(k[1]) PROVE StoreStep
  BY <1>4, <1>3 DEF B!GetContactX25519Key
<1>5. ASSUME NEW k \in Key["contact"], B!DeleteContact(k[1]) PROVE StoreStep
  BY <1>1, <1>5, DeleteStep DEF B!DeleteContact
<1>6. ASSUME B!ListContacts PROVE StoreStep
  <2>1. "contact" \in DOMAIN Key /\ Tag("contact") = "c:"
    BY KeyAssumption DEF Tag, B!Abstract!Table
  <2> QED
    BY <1>6, <2>1, ListAllStep DEF B!ListContacts
<1> QED
  BY <1>2, <1>3, <1>4, <1>5, <1>6 DEF B!ContactOps

LEMMA MessageSteps ==
  ASSUME KeyInv, B!MessageOps
  PROVE  StoreStep
<1>1. PICK c \in Contact :
        \/ \E e \in Envelope : B!AddMessage(c, e)
        \/ \E n, o \in Limits : B!GetMessages(c, n, o)
        \/ B!DeleteMessages(c)
  BY DEF B!MessageOps
<1>2. ASSUME NEW e \in Envelope, B!AddMessage(c, e) PROVE StoreStep
  <2>1. KeyInv' /\ B!Abstract!AddMessage(c, e)
    BY <1>2, AddMessageStep
  <2>2. B!Abstract!Next
    BY <2>1 DEF B!Abstract!Next
  <2> QED
    BY <2>1, <2>2 DEF StoreStep
<1>3. ASSUME NEW n \in Limits, NEW o \in Limits, B!GetMessages(c, n, o) PROVE StoreStep
  <2>1. n \in Nat /\ o \in Nat
    BY PageAssumption
  <2>2. B!Abstract!GetMessages(c, n, o)
    BY <1>3, <2>1, GetMessagesStep
  <2>3. B!Abstract!Next
    BY <2>2 DEF B!Abstract!Next
  <2>4. KeyInv'
    BY <1>3, ViewStep DEF B!GetMessages
  <2> QED
    BY <2>3, <2>4 DEF StoreStep
<1>4. ASSUME B!DeleteMessages(c) PROVE StoreStep
  <2>1. KeyInv' /\ B!Abstract!DeleteMessages(c)
    BY <1>4, DeleteMessagesStep
  <2>2. B!Abstract!Next
    BY <2>1 DEF B!Abstract!Next
  <2> QED
    BY <2>1, <2>2 DEF StoreStep
<1> QED
  BY <1>1, <1>2, <1>3, <1>4

LEMMA PeerSteps ==
  ASSUME KeyInv, B!PeerOps
  PROVE  StoreStep
<1>1. ASSUME NEW k \in Key["peer"]
      PROVE  "peer" \in DOMAIN Key /\ k = <<k[1]>> /\ B!KeyOf("peer", k) = B!peerKey(k[1])
  BY KeyNumbers, KeyAssumption DEF Pair, B!KeyOf, B!Abstract!Table
<1>2. ASSUME NEW k \in Key["peer"], NEW v \in Val["peer"], B!AddPeer(k[1], v) PROVE StoreStep
  BY <1>1, <1>2, SaveStep DEF B!AddPeer
<1>3. ASSUME NEW k \in Key["peer"], B!GetPeer(k[1]) PROVE StoreStep
  <2>1. B!View("Get", "peer", B!Row("peer", k), << >>)
    BY <1>1, <1>3 DEF B!GetPeer
  <2> QED
    BY <1>1, <2>1, GetStep
<1>4. ASSUME NEW k \in Key["peer"], B!DeletePeer(k[1]) PROVE StoreStep
  BY <1>1, <1>4, DeleteStep DEF B!DeletePeer
<1>5. ASSUME NEW n \in Limits, B!ListPeers(n) PROVE StoreStep
  <2>1. "peer" \in DOMAIN Key /\ Tag("peer") = "p:"
    BY KeyAssumption DEF Tag, B!Abstract!Table
  <2> QED
    BY <1>5, <2>1, ListPageStep DEF B!ListPeers
<1>6. ASSUME NEW s \in Source, B!ListPeersBySource(s) PROVE StoreStep
  BY <1>6, SourceStep
<1>7. ASSUME NEW c \in Cutoff, NEW n \in Keep, B!PrunePeers(c, n) PROVE StoreStep
  BY <1>7, PruneStep
<1> QED
  BY <1>2, <1>3, <1>4, <1>5, <1>6, <1>7 DEF B!PeerOps

LEMMA ConfigSteps ==
  ASSUME KeyInv, B!ConfigOps
  PROVE  StoreStep
<1>1. ASSUME NEW k \in Key["config"]
      PROVE  "config" \in DOMAIN Key /\ k = <<k[1]>> /\ B!KeyOf("config", k) = B!configKey(k[1])
  BY KeyNumbers, KeyAssumption DEF Pair, B!KeyOf, B!Abstract!Table
<1>2. ASSUME NEW k \in Key["config"], NEW v \in Val["config"], B!SetConfig(k[1], v) PROVE StoreStep
  BY <1>1, <1>2, SaveStep DEF B!SetConfig
<1>3. ASSUME NEW k \in Key["config"], B!GetConfig(k[1]) PROVE StoreStep
  <2>1. B!View("Get", "config", B!Row("config", k), << >>)
    BY <1>1, <1>3 DEF B!GetConfig
  <2> QED
    BY <1>1, <2>1, GetStep
<1>4. ASSUME NEW k \in Key["config"], B!DeleteConfig(k[1]) PROVE StoreStep
  BY <1>1, <1>4, DeleteStep DEF B!DeleteConfig
<1> QED
  BY <1>2, <1>3, <1>4 DEF B!ConfigOps

LEMMA BlacklistSteps ==
  ASSUME KeyInv, B!BlacklistOps
  PROVE  StoreStep
<1>1. ASSUME NEW k \in Key["blacklist"]
      PROVE  "blacklist" \in DOMAIN Key /\ k = <<k[1]>> /\ B!KeyOf("blacklist", k) = B!blacklistKey(k[1])
  BY KeyNumbers, KeyAssumption DEF Pair, B!KeyOf, B!Abstract!Table
<1>2. ASSUME NEW k \in Key["blacklist"], NEW v \in Val["blacklist"], B!BlacklistPeer(k[1], v) PROVE StoreStep
  BY <1>1, <1>2, SaveStep DEF B!BlacklistPeer
<1>3. ASSUME NEW k \in Key["blacklist"], B!IsBlacklisted(k[1]) PROVE StoreStep
  <2>1. B!View("Get", "blacklist", B!Row("blacklist", k), << >>)
    BY <1>1, <1>3 DEF B!IsBlacklisted
  <2> QED
    BY <1>1, <2>1, GetStep
<1>4. ASSUME NEW k \in Key["blacklist"], B!RemoveFromBlacklist(k[1]) PROVE StoreStep
  BY <1>1, <1>4, DeleteStep DEF B!RemoveFromBlacklist
<1>5. ASSUME B!ListBlacklisted PROVE StoreStep
  <2>1. "blacklist" \in DOMAIN Key /\ Tag("blacklist") = "bl:"
    BY KeyAssumption DEF Tag, B!Abstract!Table
  <2> QED
    BY <1>5, <2>1, ListAllStep DEF B!ListBlacklisted
<1> QED
  BY <1>2, <1>3, <1>4, <1>5 DEF B!BlacklistOps

LEMMA GroupSteps ==
  ASSUME KeyInv, B!GroupOps
  PROVE  StoreStep
<1>1. ASSUME NEW k \in Key["group"]
      PROVE  "group" \in DOMAIN Key /\ k = <<k[1]>> /\ B!KeyOf("group", k) = B!groupKey(k[1])
  BY KeyNumbers, KeyAssumption DEF Pair, B!KeyOf, B!Abstract!Table
<1>2. ASSUME NEW k \in Key["group"], NEW v \in Val["group"], B!SaveGroup(k[1], v) PROVE StoreStep
  BY <1>1, <1>2, SaveStep DEF B!SaveGroup
<1>3. ASSUME NEW k \in Key["group"], B!GetGroup(k[1]) PROVE StoreStep
  <2>1. B!View("Get", "group", B!Row("group", k), << >>)
    BY <1>1, <1>3 DEF B!GetGroup
  <2> QED
    BY <1>1, <2>1, GetStep
<1>4. ASSUME NEW k \in Key["group"], B!DeleteGroup(k[1]) PROVE StoreStep
  BY <1>1, <1>4, DeleteStep DEF B!DeleteGroup
<1>5. ASSUME B!ListGroups PROVE StoreStep
  <2>1. "group" \in DOMAIN Key /\ Tag("group") = "g:"
    BY KeyAssumption DEF Tag, B!Abstract!Table
  <2> QED
    BY <1>5, <2>1, ListAllStep DEF B!ListGroups
<1> QED
  BY <1>2, <1>3, <1>4, <1>5 DEF B!GroupOps

LEMMA SenderKeySteps ==
  ASSUME KeyInv, B!SenderKeyOps
  PROVE  KeyInv' /\ (ReadAhead => StoreStep)
<1>1. ASSUME NEW k \in Key["senderKey"]
      PROVE  "senderKey" \in DOMAIN Key /\ k = <<k[1], k[2]>> /\ B!KeyOf("senderKey", k) = B!senderKeyKey(k[1], k[2])
  BY KeyNumbers, KeyAssumption DEF Pair, B!KeyOf, B!Abstract!Table
<1>2. ASSUME NEW k \in Key["senderKey"], NEW v \in Val["senderKey"], B!SaveSenderKey(k[1], k[2], v) PROVE StoreStep
  BY <1>1, <1>2, SaveStep DEF B!SaveSenderKey
<1>3. ASSUME NEW k \in Key["senderKey"], B!GetSenderKey(k[1], k[2]) PROVE StoreStep
  <2>1. B!View("Get", "senderKey", B!Row("senderKey", k), << >>)
    BY <1>1, <1>3 DEF B!GetSenderKey
  <2> QED
    BY <1>1, <2>1, GetStep
<1>4. ASSUME NEW k \in Key["senderKey"], B!DeleteSenderKey(k[1], k[2]) PROVE StoreStep
  BY <1>1, <1>4, DeleteStep DEF B!DeleteSenderKey
<1>5. ASSUME NEW g \in Group, B!ListSenderKeys(g) PROVE StoreStep
  BY <1>5, ListGroupStep DEF B!ListSenderKeys
<1>6. ASSUME NEW g \in Group, B!DeleteAllSenderKeys(g) PROVE KeyInv' /\ (ReadAhead => StoreStep)
  <2>1. KeyInv'
    BY <1>6, KeysDeleted DEF B!DeleteAllSenderKeys, B!Update
  <2> QED
    BY <1>6, <2>1, DeleteAllStep
<1>7. StoreStep => KeyInv'
  BY DEF StoreStep
<1> QED
  BY <1>2, <1>3, <1>4, <1>5, <1>6, <1>7 DEF B!SenderKeyOps

LEMMA ChannelSteps ==
  ASSUME KeyInv, B!ChannelOps
  PROVE  StoreStep
<1>1. ASSUME NEW k \in Key["channel"]
      PROVE  "channel" \in DOMAIN Key /\ k = <<k[1]>> /\ B!KeyOf("channel", k) = B!channelKey(k[1])
  BY KeyNumbers, KeyAssumption DEF Pair, B!KeyOf, B!Abstract!Table
<1>2. ASSUME NEW k \in Key["channel"], NEW v \in Val["channel"], B!SaveChannel(k[1], v) PROVE StoreStep
  BY <1>1, <1>2, SaveStep DEF B!SaveChannel
<1>3. ASSUME NEW k \in Key["channel"], B!GetChannel(k[1]) PROVE StoreStep
  <2>1. B!View("Get", "channel", B!Row("channel", k), << >>)
    BY <1>1, <1>3 DEF B!GetChannel
  <2> QED
    BY <1>1, <2>1, GetStep
<1>4. ASSUME NEW k \in Key["channel"], B!DeleteChannel(k[1]) PROVE StoreStep
  BY <1>1, <1>4, DeleteStep DEF B!DeleteChannel
<1>5. ASSUME NEW k \in Key["channel"], B!GetLatestChannelPostCID(k[1]) PROVE StoreStep
  <2>1. B!View("Get", "channel", B!Row("channel", k), << >>)
    BY <1>1, <1>5 DEF B!GetLatestChannelPostCID
  <2> QED
    BY <1>1, <2>1, GetStep
<1>6. ASSUME NEW k \in Key["channel"], NEW n \in Limits, NEW o \in Limits,
             B!GetChannelPosts(k[1], n, o) PROVE StoreStep
  BY <1>6, ChannelPostsStep
<1>7. ASSUME NEW k \in Key["post"], NEW v \in Val["post"], B!SaveChannelPost(k[1], k[2], v)
      PROVE  StoreStep
  BY <1>7, PostStep
<1>8. ASSUME B!ListChannels PROVE StoreStep
  <2>1. "channel" \in DOMAIN Key /\ Tag("channel") = "ch:"
    BY KeyAssumption DEF Tag, B!Abstract!Table
  <2> QED
    BY <1>8, <2>1, ListAllStep DEF B!ListChannels
<1> QED
  BY <1>2, <1>3, <1>4, <1>5, <1>6, <1>7, <1>8 DEF B!ChannelOps

LEMMA IdentitySteps ==
  ASSUME KeyInv, B!IdentityOps
  PROVE  StoreStep
<1>1. ASSUME NEW k \in Key["identity"]
      PROVE  "identity" \in DOMAIN Key /\ k = <<k[1]>> /\ B!KeyOf("identity", k) = B!identityKey(k[1])
  BY KeyNumbers, KeyAssumption DEF Pair, B!KeyOf, B!Abstract!Table
<1>2. ASSUME NEW k \in Key["identity"], NEW v \in Val["identity"], B!SaveIdentityDocument(k[1], v) PROVE StoreStep
  BY <1>1, <1>2, SaveStep DEF B!SaveIdentityDocument
<1>3. ASSUME NEW k \in Key["identity"], B!GetIdentityDocument(k[1]) PROVE StoreStep
  <2>1. B!View("Get", "identity", B!Row("identity", k), << >>)
    BY <1>1, <1>3 DEF B!GetIdentityDocument
  <2> QED
    BY <1>1, <2>1, GetStep
<1>4. ASSUME NEW k \in Key["device"]
      PROVE  "device" \in DOMAIN Key /\ k = <<k[1]>> /\ B!KeyOf("device", k) = B!deviceKey(k[1])
  BY KeyNumbers, KeyAssumption DEF Pair, B!KeyOf, B!Abstract!Table
<1>5. ASSUME NEW k \in Key["device"], NEW v \in Val["device"], B!SaveDeviceCertificate(k[1], v) PROVE StoreStep
  BY <1>4, <1>5, SaveStep DEF B!SaveDeviceCertificate
<1>6. ASSUME NEW k \in Key["device"], B!GetDeviceCertificate(k[1]) PROVE StoreStep
  <2>1. B!View("Get", "device", B!Row("device", k), << >>)
    BY <1>4, <1>6 DEF B!GetDeviceCertificate
  <2> QED
    BY <1>4, <2>1, GetStep
<1>7. ASSUME NEW k \in Key["bundle"]
      PROVE  "bundle" \in DOMAIN Key /\ k = <<k[1]>> /\ B!KeyOf("bundle", k) = B!prekeyBundleKey(k[1])
  BY KeyNumbers, KeyAssumption DEF Pair, B!KeyOf, B!Abstract!Table
<1>8. ASSUME NEW k \in Key["bundle"], NEW v \in Val["bundle"], B!SavePrekeyBundleCache(k[1], v) PROVE StoreStep
  BY <1>7, <1>8, SaveStep DEF B!SavePrekeyBundleCache
<1>9. ASSUME NEW k \in Key["bundle"], B!GetPrekeyBundleCache(k[1]) PROVE StoreStep
  <2>1. B!View("Get", "bundle", B!Row("bundle", k), << >>)
    BY <1>7, <1>9 DEF B!GetPrekeyBundleCache
  <2> QED
    BY <1>7, <2>1, GetStep
<1>10. ASSUME NEW k \in Key["session"]
      PROVE  "session" \in DOMAIN Key /\ k = <<k[1]>> /\ B!KeyOf("session", k) = B!sessionKey(k[1])
  BY KeyNumbers, KeyAssumption DEF Pair, B!KeyOf, B!Abstract!Table
<1>11. ASSUME NEW k \in Key["session"], NEW v \in Val["session"], B!SaveSessionState(k[1], v) PROVE StoreStep
  BY <1>10, <1>11, SaveStep DEF B!SaveSessionState
<1>12. ASSUME NEW k \in Key["session"], B!GetSessionState(k[1]) PROVE StoreStep
  <2>1. B!View("Get", "session", B!Row("session", k), << >>)
    BY <1>10, <1>12 DEF B!GetSessionState
  <2> QED
    BY <1>10, <2>1, GetStep
<1> QED
  BY <1>2, <1>3, <1>5, <1>6, <1>8, <1>9, <1>11, <1>12 DEF B!IdentityOps

LEMMA PrekeySteps ==
  ASSUME KeyInv, B!PrekeyOps
  PROVE  StoreStep
<1>1. ASSUME NEW k \in Key["spk"]
      PROVE  "spk" \in DOMAIN Key /\ k = <<k[1]>> /\ B!KeyOf("spk", k) = B!spkKey(k[1])
  BY KeyNumbers, KeyAssumption DEF Pair, B!KeyOf, B!Abstract!Table
<1>2. ASSUME NEW k \in Key["spk"], NEW v \in Val["spk"], B!SaveSignedPrekey(k[1], v) PROVE StoreStep
  BY <1>1, <1>2, SaveStep DEF B!SaveSignedPrekey
<1>3. ASSUME NEW k \in Key["spk"], B!GetSignedPrekey(k[1]) PROVE StoreStep
  <2>1. B!View("Get", "spk", B!Row("spk", k), << >>)
    BY <1>1, <1>3 DEF B!GetSignedPrekey
  <2> QED
    BY <1>1, <2>1, GetStep
<1>4. ASSUME NEW k \in Key["opk"]
      PROVE  "opk" \in DOMAIN Key /\ k = <<k[1]>> /\ B!KeyOf("opk", k) = B!opkKey(k[1])
  BY KeyNumbers, KeyAssumption DEF Pair, B!KeyOf, B!Abstract!Table
<1>5. ASSUME NEW k \in Key["opk"], NEW v \in Val["opk"], B!SaveOneTimePrekey(k[1], v) PROVE StoreStep
  BY <1>4, <1>5, SaveStep DEF B!SaveOneTimePrekey
<1>6. ASSUME NEW k \in Key["opk"], B!GetOneTimePrekey(k[1]) PROVE StoreStep
  <2>1. B!View("Get", "opk", B!Row("opk", k), << >>)
    BY <1>4, <1>6 DEF B!GetOneTimePrekey
  <2> QED
    BY <1>4, <2>1, GetStep
<1>7. ASSUME NEW k \in Key["opk"], B!DeleteOneTimePrekey(k[1]) PROVE StoreStep
  BY <1>4, <1>7, DeleteStep DEF B!DeleteOneTimePrekey
<1>8. ASSUME B!ListOneTimePrekeys PROVE StoreStep
  <2>1. "opk" \in DOMAIN Key /\ Tag("opk") = "opk:"
    BY KeyAssumption DEF Tag, B!Abstract!Table
  <2> QED
    BY <1>8, <2>1, ListAllStep DEF B!ListOneTimePrekeys
<1>9. ASSUME B!CountOneTimePrekeys PROVE StoreStep
  <2>1. "opk" \in DOMAIN Key /\ Tag("opk") = "opk:"
    BY KeyAssumption DEF Tag, B!Abstract!Table
  <2> QED
    BY <1>9, <2>1, CountStep DEF B!CountOneTimePrekeys
<1> QED
  BY <1>2, <1>3, <1>5, <1>6, <1>7, <1>8, <1>9 DEF B!PrekeyOps

\* A refused transaction, closing and opening.
LEMMA OtherSteps ==
  ASSUME KeyInv, B!StorageError \/ B!Close \/ B!NewBadgerStorage
  PROVE  StoreStep
<1>1. db' = db
  BY DEF B!StorageError, B!Close, B!NewBadgerStorage
<1>2. KeyInv'
  BY <1>1 DEF KeyInv, RowKeys, MessageKeys
<1>3. UNCHANGED <<B!Rows, B!Msgs>>
  BY <1>1, Unwritten
<1>4. ASSUME B!StorageError PROVE B!Abstract!Next
  <2>1. B!Abstract!Fail
    BY <1>3, <1>4 DEF B!Abstract!Fail, B!Abstract!Reply, B!StorageError, B!Failed, B!Reply
  <2> QED
    BY <2>1 DEF B!Abstract!Next
<1>5. ASSUME B!Close \/ B!NewBadgerStorage PROVE UNCHANGED <<B!Rows, B!Msgs, out>>
  BY <1>3, <1>5 DEF B!Close, B!NewBadgerStorage
<1> QED
  BY <1>2, <1>4, <1>5 DEF StoreStep

LEMMA BadgerStep ==
  ASSUME KeyInv, B!NextOn(scope)
  PROVE  KeyInv' /\ (ReadAhead => StoreStep)
<1>1. StoreStep => KeyInv'
  BY DEF StoreStep
<1> QED
  BY <1>1, ContactSteps, MessageSteps, PeerSteps, ConfigSteps, BlacklistSteps, GroupSteps,
     SenderKeySteps, ChannelSteps, IdentitySteps, PrekeySteps, OtherSteps DEF B!NextOn

LEMMA KeyInvInit == B!Init => KeyInv
<1> SUFFICES ASSUME B!Init PROVE KeyInv
  OBVIOUS
<1>1. db = [k \in {} |-> 0] /\ DOMAIN db = {}
  BY DEF B!Init
<1>2. IsFiniteSet(DOMAIN db)
  BY <1>1, FS_EmptySet
<1> QED
  BY <1>1, <1>2 DEF KeyInv

LEMMA KeyInvNext ==
  ASSUME KeyInv, [Next]_<<db, open, out, mem, messages, reply, impl, scope>>
  PROVE  KeyInv'
<1>1. CASE UNCHANGED db
  BY <1>1 DEF KeyInv, RowKeys, MessageKeys
<1>2. CASE B!NextOn(scope)
  BY <1>2, BadgerStep
<1> QED
  BY <1>1, <1>2 DEF Next

\* KeySpaceSound is always true: however calls are ordered, every stored key
\* belongs to one row of one table or to one message, and the pages GetMessages
\* returns tile the history of every contact.
THEOREM KeySpaceKept == Spec => []KeySpaceSound
<1>1. Init => KeyInv
  BY KeyInvInit DEF Init
<1>2. KeyInv /\ [Next]_<<db, open, out, mem, messages, reply, impl, scope>> => KeyInv'
  BY KeyInvNext
<1>3. KeyInv => KeySpaceSound
  BY OneOwner, HistoryTiled DEF KeySpaceSound, B!KeySpaceSound
<1> QED
  BY <1>1, <1>2, <1>3, PTL DEF Spec

LEMMA BadgerInit == B!Init => B!Abstract!Init
<1> SUFFICES ASSUME B!Init PROVE B!Abstract!Init
  OBVIOUS
<1>1. db = [k \in {} |-> 0] /\ DOMAIN db = {} /\ out = B!Reply("none", "none", {}, << >>)
  BY DEF B!Init
<1>2. B!Rows = [t \in B!Abstract!Table |-> B!Abstract!NoRows]
  <2>1. ASSUME NEW t \in DOMAIN Key PROVE RowIn(db, t) = B!Abstract!NoRows
    <3>1. {j \in Key[t] : B!KeyOf(t, j) \in DOMAIN db} = {}
      BY <1>1
    <3> QED
      BY <3>1 DEF RowIn, B!Abstract!NoRows
  <2> QED
    BY <2>1, RowsIn, TableKeys
<1>3. B!Msgs = [c \in Contact |-> [e \in Envelope |-> 0]]
  <2>1. ASSUME NEW c \in Contact, NEW e \in Envelope
        PROVE  B!Cardinality({k \in B!Scan(<<"m:", c>>) : db[k] = e}) = 0
    <3>1. {k \in B!Scan(<<"m:", c>>) : db[k] = e} = {}
      BY <1>1 DEF B!Scan
    <3> QED
      BY <3>1, Counts, FS_EmptySet
  <2> QED
    BY <2>1 DEF B!Msgs
<1> QED
  BY <1>1, <1>2, <1>3 DEF B!Abstract!Init, B!Reply, B!Abstract!Reply

\* The Badger store implements the Storage interface while the iterator of
\* DeleteAllSenderKeys reads no further ahead than its buffers reach: every step
\* is one of the interface on the rows and messages the key space stands for.
THEOREM BadgerRefines == Spec /\ []ReadAhead => BadgerImplements
<1> DEFINE mcvars == <<db, open, out, mem, messages, reply, impl, scope>>
<1>1. Init => KeyInv /\ B!Abstract!Init
  BY KeyInvInit, BadgerInit DEF Init
<1>2. KeyInv /\ [Next]_mcvars => KeyInv'
  BY KeyInvNext
<1>3. KeyInv /\ ReadAhead /\ [Next]_mcvars => [B!Abstract!Next]_(B!Abstract!vars)
  <2> SUFFICES ASSUME KeyInv, ReadAhead, [Next]_mcvars
               PROVE  [B!Abstract!Next]_<<B!Rows, B!Msgs, out>>
    BY DEF B!Abstract!vars
  <2>1. CASE UNCHANGED <<db, out>>
    BY <2>1, Unwritten
  <2>2. CASE B!NextOn(scope)
    BY <2>2, BadgerStep DEF StoreStep
  <2> QED
    BY <2>1, <2>2 DEF Next
<1> QED
  BY <1>1, <1>2, <1>3, PTL DEF Spec, BadgerImplements, B!Implements, B!Abstract!Spec

-----------------------------------------------------------------------------
(* The store in memory *)

\* The map of every table is finite, and messages are envelopes.
MemoryInv ==
  /\ mem = [t \in DOMAIN Key |-> mem[t]]
  /\ \A t \in DOMAIN Key : mem[t] = [k \in DOMAIN mem[t] |-> mem[t][k]] /\ IsFiniteSet(DOMAIN mem[t])
  /\ messages \in [Contact -> Seq(Envelope)]

MemoryStep == MemoryInv' /\ M!Abstract!Next

LEMMA MemoryTables == M!Abstract!Table = DOMAIN Key
BY KeyAssumption DEF B!Abstract!Table, M!Abstract!Table

\* Assigning a finite map to a table.
LEMMA AssignKept ==
  ASSUME MemoryInv, NEW t \in DOMAIN Key, NEW new, NEW op, M!Assign(t, new, op),
         new = [k \in DOMAIN new |-> new[k]], IsFiniteSet(DOMAIN new)
  PROVE  /\ MemoryInv' /\ M!Msgs' = M!Msgs /\ mem' = [mem EXCEPT ![t] = new]
         /\ reply' = M!Abstract!Reply(op, t, {}, << >>)
<1>1. mem' = [mem EXCEPT ![t] = new] /\ messages' = messages
  BY DEF M!Assign
<1>2. reply' = M!Abstract!Reply(op, t, {}, << >>)
  BY DEF M!Assign, M!Reply, M!Abstract!Reply
<1>3. \A u \in DOMAIN Key : mem'[u] = IF u = t THEN new ELSE mem[u]
  BY <1>1 DEF MemoryInv
<1>4. mem' = [u \in DOMAIN Key |-> mem'[u]]
  BY <1>1 DEF MemoryInv
<1>5. M!Msgs' = M!Msgs
  BY <1>1 DEF M!Msgs
<1> QED
  BY <1>1, <1>2, <1>3, <1>4, <1>5 DEF MemoryInv

LEMMA PutStep ==
  ASSUME MemoryInv, NEW t \in DOMAIN Key, NEW k \in Key[t], NEW v \in Val[t], M!SetRow(t, k, v)
  PROVE  MemoryStep
<1> DEFINE new == M!Written(mem[t], k, v)
<1>1. new = [i \in DOMAIN mem[t] \cup {k} |-> IF i = k THEN v ELSE mem[t][i]]
  BY DEF M!Written
<1>2. M!Assign(t, new, "Save")
  BY DEF M!SetRow
<1>3. new = M!Abstract!Put(mem[t], k, v)
  BY <1>1 DEF M!Abstract!Put
<1> HIDE DEF new
<1>4. DOMAIN new = DOMAIN mem[t] \cup {k} /\ new = [i \in DOMAIN new |-> new[i]]
  BY <1>1
<1>5. IsFiniteSet(DOMAIN new)
  BY <1>4, FS_AddElement DEF MemoryInv
<1>6. /\ MemoryInv' /\ M!Msgs' = M!Msgs /\ mem' = [mem EXCEPT ![t] = new]
      /\ reply' = M!Abstract!Reply("Save", t, {}, << >>)
  BY <1>2, <1>4, <1>5, AssignKept
<1>7. M!Abstract!Save(t, k, v)
  BY <1>3, <1>6 DEF M!Abstract!Save
<1>8. M!Abstract!Next
  BY <1>7, MemoryTables DEF M!Abstract!Next
<1> QED
  BY <1>6, <1>8 DEF MemoryStep

LEMMA DropStep ==
  ASSUME MemoryInv, NEW t \in DOMAIN Key, NEW k \in Key[t], M!DropRow(t, k)
  PROVE  MemoryStep
<1> DEFINE new == [i \in DOMAIN mem[t] \ {k} |-> mem[t][i]]
<1>1. M!Assign(t, new, "Delete") /\ new = M!Abstract!Without(mem[t], {k})
  BY DEF M!DropRow, M!Abstract!Without
<1>2. DOMAIN new = DOMAIN mem[t] \ {k} /\ new = [i \in DOMAIN new |-> new[i]]
  OBVIOUS
<1> HIDE DEF new
<1>3. IsFiniteSet(DOMAIN new)
  BY <1>2, FS_Subset DEF MemoryInv
<1>4. /\ MemoryInv' /\ M!Msgs' = M!Msgs /\ mem' = [mem EXCEPT ![t] = new]
      /\ reply' = M!Abstract!Reply("Delete", t, {}, << >>)
  BY <1>1, <1>2, <1>3, AssignKept
<1>5. M!Abstract!Delete(t, k)
  BY <1>1, <1>4 DEF M!Abstract!Delete
<1>6. M!Abstract!Next
  BY <1>5, MemoryTables DEF M!Abstract!Next
<1> QED
  BY <1>4, <1>6 DEF MemoryStep

\* What reads have in common.
LEMMA AnswerStep ==
  ASSUME MemoryInv, NEW op, NEW t, NEW found, NEW list, M!Answer(op, t, found, list)
  PROVE  /\ MemoryInv' /\ UNCHANGED <<mem, M!Msgs>>
         /\ reply' = M!Abstract!Reply(op, t, found, list) /\ M!Abstract!Called(op, t)
         /\ reply'.rows = found /\ reply'.list = list
<1>1. /\ mem' = mem /\ messages' = messages
      /\ reply' = [op |-> op, table |-> t, rows |-> found, list |-> list]
  BY DEF M!Answer, M!Reply
<1>2. MemoryInv' /\ M!Msgs' = M!Msgs
  BY <1>1 DEF MemoryInv, M!Msgs
<1> QED
  BY <1>1, <1>2 DEF M!Abstract!Reply, M!Abstract!Called

LEMMA FoundStep ==
  ASSUME MemoryInv, NEW t \in DOMAIN Key, NEW k \in Key[t],
         M!Answer("Get", t, M!Found(t, k), << >>)
  PROVE  MemoryStep
<1>1. /\ MemoryInv' /\ UNCHANGED <<mem, M!Msgs>> /\ M!Abstract!Called("Get", t)
      /\ reply' = M!Abstract!Reply("Get", t, M!Found(t, k), << >>)
  BY AnswerStep
<1>2. M!Abstract!Get(t, k)
  BY <1>1 DEF M!Abstract!Get, M!Abstract!Pairs, M!Found, M!Pairs
<1>3. M!Abstract!Next
  BY <1>2, MemoryTables DEF M!Abstract!Next
<1> QED
  BY <1>1, <1>3 DEF MemoryStep

LEMMA PairsFinite ==
  ASSUME MemoryInv, NEW t \in DOMAIN Key, NEW S \in SUBSET M!Pairs(t)
  PROVE  IsFiniteSet(S) /\ Cardinality(S) \in Nat
<1>1. IsFiniteSet(DOMAIN mem[t])
  BY DEF MemoryInv
<1> DEFINE f == [k \in DOMAIN mem[t] |-> <<k, mem[t][k]>>]
<1>2. f \in Surjection(DOMAIN mem[t], M!Pairs(t))
  BY DEF Surjection, M!Pairs
<1> HIDE DEF f
<1>3. IsFiniteSet(M!Pairs(t))
  BY <1>1, <1>2, FS_Surjection
<1> QED
  BY <1>3, FS_Subset, FS_CardinalityType

\* A walk over the rows whose key begins with pre, until there are enough.
LEMMA WalkStep ==
  ASSUME MemoryInv, NEW t \in DOMAIN Key, NEW found,
         NEW pre \in {<< >>} \cup {<<g>> : g \in Group} \cup Key["channel"],
         NEW all, all = {r \in M!Pairs(t) : \A i \in DOMAIN pre : r[1][i] = pre[i]},
         NEW limit \in Limits, NEW offset \in Limits, found \subseteq all,
         Cardinality(found) = M!Abstract!PageSize(Cardinality(all), limit, offset),
         M!Answer("List", t, found, << >>)
  PROVE  MemoryStep
<1>1. /\ MemoryInv' /\ UNCHANGED <<mem, M!Msgs>> /\ M!Abstract!Called("List", t)
      /\ reply'.rows = found /\ reply'.list = << >>
  BY AnswerStep
<1>2. all = {r \in M!Abstract!Pairs(mem[t]) : \A i \in DOMAIN pre : r[1][i] = pre[i]}
  BY DEF M!Pairs, M!Abstract!Pairs
<1>3. /\ reply'.rows \subseteq all
      /\ M!Abstract!Cardinality(reply'.rows)
           = M!Abstract!PageSize(M!Abstract!Cardinality(all), limit, offset)
  BY <1>1, Counts
<1>4. M!Abstract!List(t, pre, limit, offset)
  BY <1>1, <1>2, <1>3 DEF M!Abstract!List
<1>5. M!Abstract!Next
  BY <1>4, MemoryTables DEF M!Abstract!Next
<1> QED
  BY <1>1, <1>5 DEF MemoryStep

LEMMA WholeSize ==
  ASSUME NEW n \in Nat
  PROVE  M!Abstract!PageSize(n, 0, 0) = n
BY DEF M!Abstract!PageSize

LEMMA WalkAllStep ==
  ASSUME MemoryInv, NEW t \in DOMAIN Key, M!Answer("List", t, M!Pairs(t), << >>)
  PROVE  MemoryStep
<1> DEFINE all == M!Pairs(t)
<1>1. Cardinality(all) = M!Abstract!PageSize(Cardinality(all), 0, 0)
  BY PairsFinite, WholeSize
<1>2. all = {r \in M!Pairs(t) : \A i \in DOMAIN << >> : r[1][i] = << >>[i]}
  OBVIOUS
<1>3. 0 \in Limits
  BY PageAssumption
<1> QED
  BY <1>1, <1>2, <1>3, WalkStep

LEMMA WalkGroupStep ==
  ASSUME MemoryInv, NEW t \in DOMAIN Key, NEW found,
         NEW g, <<g>> \in {<< >>} \cup {<<h>> : h \in Group} \cup Key["channel"],
         NEW limit \in Limits, NEW offset \in Limits, found \subseteq M!OfGroup(t, g),
         Cardinality(found) = M!Abstract!PageSize(Cardinality(M!OfGroup(t, g)), limit, offset),
         M!Answer("List", t, found, << >>)
  PROVE  MemoryStep
<1>1. DOMAIN <<g>> = {1} /\ <<g>>[1] = g
  OBVIOUS
<1>2. M!OfGroup(t, g) = {r \in M!Pairs(t) : \A i \in DOMAIN <<g>> : r[1][i] = <<g>>[i]}
  BY <1>1 DEF M!OfGroup
<1> QED
  BY <1>2, WalkStep

\* The places of the message list of contact c that hold envelope e.
Places(c, e) == {i \in DOMAIN messages[c] : messages[c][i] = e}

LEMMA PlacesCounted ==
  ASSUME MemoryInv, NEW c \in Contact, NEW e \in Envelope
  PROVE  /\ IsFiniteSet(Places(c, e)) /\ M!Msgs[c][e] = Cardinality(Places(c, e))
         /\ M!Msgs[c][e] \in Nat
<1>1. messages[c] \in Seq(Envelope)
  BY DEF MemoryInv
<1>2. Len(messages[c]) \in Nat /\ DOMAIN messages[c] = 1 .. Len(messages[c])
  BY <1>1, LenProperties
<1>3. IsFiniteSet(1 .. Len(messages[c]))
  <2>1. PICK n \in Nat : n = Len(messages[c])
    BY <1>2
  <2>2. 1 \in Int /\ n \in Int
    OBVIOUS
  <2> QED
    BY <2>1, <2>2, FS_Interval
<1>4. IsFiniteSet(Places(c, e))
  BY <1>2, <1>3, FS_Subset DEF Places
<1>5. M!Msgs[c][e] = M!Cardinality(Places(c, e))
  BY DEF M!Msgs, Places
<1> QED
  BY <1>4, <1>5, Counts, FS_CardinalityType

LEMMA MemoryTotal ==
  ASSUME MemoryInv, NEW c \in Contact
  PROVE  M!Abstract!Total(c) = Len(messages[c])
<1> DEFINE S == 1 .. Len(messages[c])
           lab == messages[c]
           cnt == M!Msgs[c]
<1>1. lab \in Seq(Envelope)
  BY DEF MemoryInv
<1>2. Len(lab) \in Nat /\ lab \in [S -> Envelope] /\ DOMAIN lab = S
  BY <1>1, LenProperties
<1>3. IsFiniteSet(S) /\ Cardinality(S) = Len(messages[c])
  <2>1. PICK n \in Nat : n = Len(messages[c])
    BY <1>2
  <2>2. 1 \in Int /\ n \in Int
    OBVIOUS
  <2>3. IsFiniteSet(1 .. n) /\ Cardinality(1 .. n) = IF 1 > n THEN 0 ELSE n - 1 + 1
    BY <2>2, FS_Interval
  <2> QED
    BY <2>1, <2>3
<1>4. ASSUME NEW e \in Envelope PROVE cnt[e] = Cardinality(Labelled(S, lab, e))
  BY <1>2, PlacesCounted DEF Places, Labelled
<1>5. M!Abstract!Total(c) = M!Abstract!Cardinality(Tally(cnt))
  BY DEF M!Abstract!Total, Tally
<1> HIDE DEF S, lab, cnt
<1>6. Cardinality(Tally(cnt)) = Cardinality(S)
  <2>1. \A e \in Envelope : cnt[e] = Cardinality(Labelled(S, lab, e))
    BY <1>4
  <2>2. IsFiniteSet(S) /\ lab \in [S -> Envelope]
    BY <1>2, <1>3
  <2> QED
    BY <2>1, <2>2, LabelTotal
<1> QED
  BY <1>3, <1>5, <1>6, Counts

LEMMA MemoryPageStep ==
  ASSUME MemoryInv, NEW c \in Contact, NEW limit \in Nat, NEW offset \in Nat,
         M!GetMessages(c, limit, offset)
  PROVE  MemoryInv' /\ M!Abstract!GetMessages(c, limit, offset)
<1> DEFINE all == messages[c]
           n == Len(all)
           end == IF limit > 0 /\ offset + limit < n THEN offset + limit ELSE n
           page == IF offset >= n THEN << >> ELSE SubSeq(all, offset + 1, end)
           size == M!Abstract!PageSize(n, limit, offset)
<1>1. all \in Seq(Envelope)
  BY DEF MemoryInv
<1>2. n \in Nat /\ all \in [1 .. n -> Envelope] /\ DOMAIN all = 1 .. n
  BY <1>1, LenProperties
<1>3. /\ MemoryInv' /\ UNCHANGED <<mem, M!Msgs>> /\ M!Abstract!Called("List", "message")
      /\ reply'.rows = {} /\ reply'.list = page
  BY AnswerStep DEF M!GetMessages
<1>4. M!Abstract!Total(c) = n
  BY MemoryTotal
<1> HIDE DEF all, n
<1>5. /\ size \in Nat /\ Len(page) = size
      /\ \A i \in 1 .. size : page[i] = all[offset + i] /\ offset + i \in 1 .. n
  <2>1. CASE offset >= n
    <3>1. size = 0 /\ page = << >>
      BY <1>2, <2>1 DEF M!Abstract!PageSize
    <3> HIDE DEF size, page
    <3> QED
      BY <3>1
  <2>2. CASE offset < n
    <3>1. size \in Nat /\ end \in 0 .. n /\ size = end - (offset + 1) + 1 /\ offset + 1 <= end
      BY <1>2, <2>2 DEF M!Abstract!PageSize
    <3>2. page = SubSeq(all, offset + 1, end)
      BY <1>2, <2>2
    <3> HIDE DEF size, page, end
    <3>3. offset + 1 \in Int /\ end \in Int /\ \A i \in offset + 1 .. end : all[i] \in Envelope
      BY <1>2, <3>1
    <3>4. /\ Len(page) = end - (offset + 1) + 1
          /\ \A i \in 1 .. end - (offset + 1) + 1 : page[i] = all[offset + 1 + i - 1]
      BY <1>1, <3>1, <3>2, <3>3, SubSeqProperties
    <3>5. ASSUME NEW i \in 1 .. size PROVE page[i] = all[offset + i] /\ offset + i \in 1 .. n
      <4>1. offset + 1 + i - 1 = offset + i /\ offset + i \in 1 .. n
        BY <1>2, <3>1
      <4> QED
        BY <3>1, <3>4, <4>1
    <3> QED
      BY <3>1, <3>4, <3>5
  <2> QED
    BY <1>2, <2>1, <2>2
<1> HIDE DEF page, size, end
<1>6. ASSUME NEW e \in Envelope
      PROVE  Cardinality({i \in 1 .. size : page[i] = e}) <= M!Msgs[c][e]
  <2> DEFINE I == {i \in 1 .. size : page[i] = e}
             f == [i \in I |-> offset + i]
  <2>1. f \in [I -> Places(c, e)]
    BY <1>2, <1>5 DEF Places, all
  <2>2. \A i, j \in I : f[i] = f[j] => i = j
    BY <1>5
  <2>3. f \in Injection(I, Places(c, e))
    <3> HIDE DEF f, I
    <3> QED
      BY <2>1, <2>2 DEF Injection, IsInjective
  <2> HIDE DEF f, I
  <2>4. Cardinality(I) <= M!Msgs[c][e]
    BY <2>3, PlacesCounted, FS_Injection
  <2> QED
    BY <2>4 DEF I
<1>7. M!Abstract!PageSize(M!Abstract!Total(c), limit, offset) = size
  BY <1>4 DEF size
<1>8. \A S : M!Abstract!Cardinality(S) = Cardinality(S)
  BY Counts
<1> QED
  BY <1>3, <1>5, <1>6, <1>7, <1>8 DEF M!Abstract!GetMessages

LEMMA AppendStep ==
  ASSUME MemoryInv, NEW c \in Contact, NEW e \in Envelope, M!AddMessage(c, e)
  PROVE  MemoryInv' /\ M!Abstract!AddMessage(c, e)
<1> DEFINE all == messages[c]
           new == Append(all, e)
           n == Len(all)
<1>1. all \in Seq(Envelope)
  BY DEF MemoryInv
<1>2. n \in Nat /\ DOMAIN all = 1 .. n
  BY <1>1, LenProperties
<1>3. /\ messages' = [messages EXCEPT ![c] = new] /\ mem' = mem
      /\ reply' = M!Abstract!Reply("Save", "message", {}, << >>)
  BY DEF M!AddMessage, M!Reply, M!Abstract!Reply
<1>4. new \in Seq(Envelope) /\ DOMAIN new = 1 .. n + 1 /\ new[n + 1] = e /\ \A i \in 1 .. n : new[i] = all[i]
  <2>1. new \in Seq(Envelope) /\ Len(new) = n + 1 /\ new[n + 1] = e /\ \A i \in 1 .. n : new[i] = all[i]
    BY <1>1, AppendProperties
  <2> HIDE DEF new, n
  <2> QED
    BY <2>1, LenProperties
<1> HIDE DEF all, new, n
<1>5. MemoryInv'
  BY <1>3, <1>4 DEF MemoryInv
<1>6. ASSUME NEW x \in Contact, NEW y \in Envelope
      PROVE  M!Msgs[x][y]' = IF x = c /\ y = e THEN M!Msgs[c][e] + 1 ELSE M!Msgs[x][y]
  <2>1. M!Msgs[x][y]' = Cardinality(Places(x, y)')
    <3>1. M!Msgs[x][y]' = M!Cardinality(Places(x, y)')
      BY DEF M!Msgs, Places
    <3> QED
      BY <3>1, Counts
  <2>2. M!Msgs[x][y] = Cardinality(Places(x, y)) /\ IsFiniteSet(Places(c, e))
    BY PlacesCounted
  <2>3. Places(x, y)' = {i \in DOMAIN messages'[x] : messages'[x][i] = y}
        /\ Places(x, y) = {i \in DOMAIN messages[x] : messages[x][i] = y}
    BY DEF Places
  <2>4. messages'[x] = IF x = c THEN new ELSE messages[x]
    BY <1>3 DEF MemoryInv
  <2>5. CASE x = c
    <3>1. Places(x, y)' = {i \in 1 .. n + 1 : new[i] = y} /\ Places(x, y) = {i \in 1 .. n : all[i] = y}
      BY <2>3, <2>4, <2>5, <1>2, <1>4 DEF all
    <3>2. Places(x, y)' = IF y = e THEN Places(x, y) \cup {n + 1} ELSE Places(x, y)
      BY <3>1, <1>2, <1>4
    <3>3. n + 1 \notin Places(x, y)
      BY <3>1, <1>2
    <3>4. Cardinality(Places(x, y)') = IF y = e THEN Cardinality(Places(x, y)) + 1
                                       ELSE Cardinality(Places(x, y))
      <4>1. IsFiniteSet(Places(x, y))
        BY PlacesCounted
      <4> QED
        BY <3>2, <3>3, <4>1, FS_AddElement
    <3> QED
      BY <2>1, <2>2, <2>5, <3>4
  <2>6. CASE x # c
    BY <2>1, <2>2, <2>3, <2>4, <2>6
  <2> QED
    BY <2>5, <2>6
<1>7. M!Msgs' = [M!Msgs EXCEPT ![c][e] = @ + 1]
  <2> DEFINE old == M!Msgs
             now == M!Msgs'
  <2>1. \A x \in Contact : \A y \in Envelope :
          now[x][y] = IF x = c /\ y = e THEN old[c][e] + 1 ELSE old[x][y]
    BY <1>6
  <2>2. old = [x \in Contact |-> [y \in Envelope |-> old[x][y]]]
    BY DEF M!Msgs
  <2>3. now = [x \in Contact |-> [y \in Envelope |-> now[x][y]]]
    BY DEF M!Msgs
  <2> HIDE DEF old, now
  <2>4. now = [old EXCEPT ![c][e] = @ + 1]
    BY <2>1, <2>2, <2>3
  <2> QED
    BY <2>4 DEF old, now
<1> QED
  BY <1>3, <1>5, <1>7 DEF M!Abstract!AddMessage

LEMMA ClearStep ==
  ASSUME MemoryInv, NEW c \in Contact, M!DeleteMessages(c)
  PROVE  MemoryInv' /\ M!Abstract!DeleteMessages(c)
<1>1. /\ messages' = [messages EXCEPT ![c] = << >>] /\ mem' = mem
      /\ reply' = M!Abstract!Reply("DeleteAll", "message", {}, << >>)
  BY DEF M!DeleteMessages, M!Reply, M!Abstract!Reply
<1>2. MemoryInv'
  BY <1>1 DEF MemoryInv
<1>3. ASSUME NEW x \in Contact, NEW y \in Envelope
      PROVE  M!Msgs[x][y]' = IF x = c THEN 0 ELSE M!Msgs[x][y]
  <2>1. /\ M!Msgs[x][y]' = M!Cardinality({i \in DOMAIN messages'[x] : messages'[x][i] = y})
        /\ M!Msgs[x][y] = M!Cardinality({i \in DOMAIN messages[x] : messages[x][i] = y})
    BY DEF M!Msgs
  <2>2. messages'[x] = IF x = c THEN << >> ELSE messages[x]
    BY <1>1 DEF MemoryInv
  <2>3. CASE x = c
    <3>1. {i \in DOMAIN messages'[x] : messages'[x][i] = y} = {}
      BY <2>2, <2>3
    <3>2. M!Msgs[x][y]' = M!Cardinality({})
      BY <2>1, <3>1
    <3> QED
      BY <2>3, <3>2, Counts, FS_EmptySet
  <2>4. CASE x # c
    BY <2>1, <2>2, <2>4
  <2> QED
    BY <2>3, <2>4
<1>4. M!Msgs' = [M!Msgs EXCEPT ![c] = [e \in Envelope |-> 0]]
  <2> DEFINE old == M!Msgs
             now == M!Msgs'
  <2>1. \A x \in Contact : \A y \in Envelope : now[x][y] = IF x = c THEN 0 ELSE old[x][y]
    BY <1>3
  <2>2. old = [x \in Contact |-> [y \in Envelope |-> old[x][y]]]
    BY DEF M!Msgs
  <2>3. now = [x \in Contact |-> [y \in Envelope |-> now[x][y]]]
    BY DEF M!Msgs
  <2> HIDE DEF old, now
  <2>4. now = [old EXCEPT ![c] = [e \in Envelope |-> 0]]
    BY <2>1, <2>2, <2>3
  <2> QED
    BY <2>4 DEF old, now
<1> QED
  BY <1>1, <1>2, <1>4 DEF M!Abstract!DeleteMessages

LEMMA MemoryContacts ==
  ASSUME MemoryInv, M!ContactOps
  PROVE  MemoryStep
<1>1. ASSUME NEW k \in Key["contact"]
      PROVE  "contact" \in DOMAIN Key /\ k = <<k[1]>>
  BY KeyNumbers, KeyAssumption DEF Pair, B!Abstract!Table
<1>2. ASSUME NEW k \in Key["contact"], NEW v \in Val["contact"], M!AddContact(k[1], v) PROVE MemoryStep
  BY <1>1, <1>2, PutStep DEF M!AddContact
<1>3. ASSUME NEW k \in Key["contact"], M!GetContact(k[1]) PROVE MemoryStep
  <2>1. M!Answer("Get", "contact", M!Found("contact", k), << >>)
    BY <1>1, <1>3 DEF M!GetContact
  <2> QED
    BY <1>1, <2>1, FoundStep
<1>4. ASSUME NEW k \in Key["contact"], M!GetContactX25519Key(k[1]) PROVE MemoryStep
  BY <1>4, <1>3 DEF M!GetContactX25519Key
<1>5. ASSUME NEW k \in Key["contact"], M!DeleteContact(k[1]) PROVE MemoryStep
  BY <1>1, <1>5, DropStep DEF M!DeleteContact
<1>6. ASSUME M!ListContacts PROVE MemoryStep
  <2>1. "contact" \in DOMAIN Key
    BY KeyAssumption DEF B!Abstract!Table
  <2> QED
    BY <1>6, <2>1, WalkAllStep DEF M!ListContacts
<1>7. ASSUME NEW k \in Key["contact"], M!NoX25519Key(k[1]) PROVE MemoryStep
  <2>1. /\ MemoryInv' /\ UNCHANGED <<mem, M!Msgs>>
        /\ reply' = M!Abstract!Reply("error", "none", {}, << >>)
    BY <1>7, AnswerStep DEF M!NoX25519Key
  <2>2. M!Abstract!Fail
    BY <2>1 DEF M!Abstract!Fail
  <2> QED
    BY <2>1, <2>2 DEF MemoryStep, M!Abstract!Next
<1> QED
  BY <1>2, <1>3, <1>4, <1>5, <1>6, <1>7 DEF M!ContactOps

LEMMA MemoryMessages ==
  ASSUME MemoryInv, M!MessageOps
  PROVE  MemoryStep
<1>1. PICK c \in Contact :
        \/ \E e \in Envelope : M!AddMessage(c, e)
        \/ \E n, o \in Limits : M!GetMessages(c, n, o)
        \/ M!DeleteMessages(c)
  BY DEF M!MessageOps
<1>2. ASSUME NEW e \in Envelope, M!AddMessage(c, e) PROVE MemoryStep
  <2>1. MemoryInv' /\ M!Abstract!AddMessage(c, e)
    BY <1>2, AppendStep
  <2> QED
    BY <2>1 DEF MemoryStep, M!Abstract!Next
<1>3. ASSUME NEW n \in Limits, NEW o \in Limits, M!GetMessages(c, n, o) PROVE MemoryStep
  <2>1. n \in Nat /\ o \in Nat
    BY PageAssumption
  <2>2. MemoryInv' /\ M!Abstract!GetMessages(c, n, o)
    BY <1>3, <2>1, MemoryPageStep
  <2> QED
    BY <2>2 DEF MemoryStep, M!Abstract!Next
<1>4. ASSUME M!DeleteMessages(c) PROVE MemoryStep
  <2>1. MemoryInv' /\ M!Abstract!DeleteMessages(c)
    BY <1>4, ClearStep
  <2> QED
    BY <2>1 DEF MemoryStep, M!Abstract!Next
<1> QED
  BY <1>1, <1>2, <1>3, <1>4

LEMMA MemoryPeers ==
  ASSUME MemoryInv, M!PeerOps
  PROVE  MemoryStep
<1>1. ASSUME NEW k \in Key["peer"]
      PROVE  "peer" \in DOMAIN Key /\ k = <<k[1]>>
  BY KeyNumbers, KeyAssumption DEF Pair, B!Abstract!Table
<1>2. ASSUME NEW k \in Key["peer"], NEW v \in Val["peer"], M!AddPeer(k[1], v) PROVE MemoryStep
  BY <1>1, <1>2, PutStep DEF M!AddPeer
<1>3. ASSUME NEW k \in Key["peer"], M!GetPeer(k[1]) PROVE MemoryStep
  <2>1. M!Answer("Get", "peer", M!Found("peer", k), << >>)
    BY <1>1, <1>3 DEF M!GetPeer
  <2> QED
    BY <1>1, <2>1, FoundStep
<1>4. ASSUME NEW k \in Key["peer"], M!DeletePeer(k[1]) PROVE MemoryStep
  BY <1>1, <1>4, DropStep DEF M!DeletePeer
<1>5. ASSUME NEW n \in Limits, M!ListPeers(n) PROVE MemoryStep
  <2> DEFINE all == M!Pairs("peer")
  <2>1. "peer" \in DOMAIN Key /\ n \in Nat /\ 0 \in Limits
    BY KeyAssumption, PageAssumption DEF B!Abstract!Table
  <2>2. PICK S \in SUBSET all :
          /\ IF n > 0 /\ n < M!Cardinality(all) THEN M!Cardinality(S) = n ELSE S = all
          /\ M!Answer("List", "peer", S, << >>)
    BY <1>5 DEF M!ListPeers
  <2>3. Cardinality(all) \in Nat
    BY <2>1, PairsFinite
  <2>4. all = {r \in M!Pairs("peer") : \A i \in DOMAIN << >> : r[1][i] = << >>[i]}
    OBVIOUS
  <2> HIDE DEF all
  <2>5. IF n > 0 /\ n < Cardinality(all) THEN Cardinality(S) = n ELSE S = all
    BY <2>2, Counts
  <2>6. Cardinality(S) = M!Abstract!PageSize(Cardinality(all), n, 0)
    BY <2>1, <2>3, <2>5 DEF M!Abstract!PageSize
  <2> QED
    BY <2>1, <2>2, <2>4, <2>6, WalkStep
<1>6. ASSUME NEW s \in Source, M!ListPeersBySource(s) PROVE MemoryStep
  <2> DEFINE found == {r \in M!Pairs("peer") : PeerInfo[r[2]].source = s}
  <2>1. M!Answer("ListBySource", "peer", found, << >>)
    BY <1>6 DEF M!ListPeersBySource
  <2>2. found = {r \in M!Abstract!Pairs(mem["peer"]) : PeerInfo[r[2]].source = s}
    BY DEF M!Pairs, M!Abstract!Pairs
  <2> HIDE DEF found
  <2>3. /\ MemoryInv' /\ UNCHANGED <<mem, M!Msgs>> /\ M!Abstract!Called("ListBySource", "peer")
        /\ reply' = M!Abstract!Reply("ListBySource", "peer", found, << >>)
    BY <2>1, AnswerStep
  <2>4. M!Abstract!ListBySource(s)
    BY <2>2, <2>3 DEF M!Abstract!ListBySource
  <2> QED
    BY <2>3, <2>4 DEF MemoryStep, M!Abstract!Next
<1>7. ASSUME M!PrunePeers PROVE MemoryStep
  <2>1. /\ MemoryInv' /\ UNCHANGED <<mem, M!Msgs>>
        /\ reply' = M!Abstract!Reply("Prune", "peer", {}, << >>)
    BY <1>7, AnswerStep DEF M!PrunePeers
  <2>2. "peer" \in DOMAIN Key
    BY KeyAssumption DEF B!Abstract!Table
  <2>3. mem["peer"] = M!Abstract!Without(mem["peer"], {})
    <3>1. mem["peer"] = [k \in DOMAIN mem["peer"] |-> mem["peer"][k]]
      BY <2>2 DEF MemoryInv
    <3>2. DOMAIN mem["peer"] \ {} = DOMAIN mem["peer"]
      OBVIOUS
    <3> QED
      BY <3>1, <3>2 DEF M!Abstract!Without
  <2>4. mem' = [mem EXCEPT !["peer"] = M!Abstract!Without(mem["peer"], {})]
    <3>1. mem = [t \in DOMAIN Key |-> mem[t]]
      BY DEF MemoryInv
    <3> QED
      BY <2>1, <2>2, <2>3, <3>1
  <2>5. M!Abstract!Prune
    <3>1. {} \in SUBSET DOMAIN mem["peer"]
      OBVIOUS
    <3> QED
      BY <2>1, <2>4, <3>1 DEF M!Abstract!Prune
  <2> QED
    BY <2>1, <2>5 DEF MemoryStep, M!Abstract!Next
<1> QED
  BY <1>2, <1>3, <1>4, <1>5, <1>6, <1>7 DEF M!PeerOps

LEMMA MemoryConfig ==
  ASSUME MemoryInv, M!ConfigOps
  PROVE  MemoryStep
<1>1. ASSUME NEW k \in Key["config"]
      PROVE  "config" \in DOMAIN Key /\ k = <<k[1]>>
  BY KeyNumbers, KeyAssumption DEF Pair, B!Abstract!Table
<1>2. ASSUME NEW k \in Key["config"], NEW v \in Val["config"], M!SetConfig(k[1], v) PROVE MemoryStep
  BY <1>1, <1>2, PutStep DEF M!SetConfig
<1>3. ASSUME NEW k \in Key["config"], M!GetConfig(k[1]) PROVE MemoryStep
  <2>1. M!Answer("Get", "config", M!Found("config", k), << >>)
    BY <1>1, <1>3 DEF M!GetConfig
  <2> QED
    BY <1>1, <2>1, FoundStep
<1>4. ASSUME NEW k \in Key["config"], M!DeleteConfig(k[1]) PROVE MemoryStep
  BY <1>1, <1>4, DropStep DEF M!DeleteConfig
<1> QED
  BY <1>2, <1>3, <1>4 DEF M!ConfigOps

LEMMA MemoryBlacklist ==
  ASSUME MemoryInv, M!BlacklistOps
  PROVE  MemoryStep
<1>1. ASSUME NEW k \in Key["blacklist"]
      PROVE  "blacklist" \in DOMAIN Key /\ k = <<k[1]>>
  BY KeyNumbers, KeyAssumption DEF Pair, B!Abstract!Table
<1>2. ASSUME NEW k \in Key["blacklist"], NEW v \in Val["blacklist"], M!BlacklistPeer(k[1], v) PROVE MemoryStep
  BY <1>1, <1>2, PutStep DEF M!BlacklistPeer
<1>3. ASSUME NEW k \in Key["blacklist"], M!IsBlacklisted(k[1]) PROVE MemoryStep
  <2>1. M!Answer("Get", "blacklist", M!Found("blacklist", k), << >>)
    BY <1>1, <1>3 DEF M!IsBlacklisted
  <2> QED
    BY <1>1, <2>1, FoundStep
<1>4. ASSUME NEW k \in Key["blacklist"], M!RemoveFromBlacklist(k[1]) PROVE MemoryStep
  BY <1>1, <1>4, DropStep DEF M!RemoveFromBlacklist
<1>5. ASSUME M!ListBlacklisted PROVE MemoryStep
  <2>1. "blacklist" \in DOMAIN Key
    BY KeyAssumption DEF B!Abstract!Table
  <2> QED
    BY <1>5, <2>1, WalkAllStep DEF M!ListBlacklisted
<1> QED
  BY <1>2, <1>3, <1>4, <1>5 DEF M!BlacklistOps

LEMMA MemoryGroups ==
  ASSUME MemoryInv, M!GroupOps
  PROVE  MemoryStep
<1>1. ASSUME NEW k \in Key["group"]
      PROVE  "group" \in DOMAIN Key /\ k = <<k[1]>>
  BY KeyNumbers, KeyAssumption DEF Pair, B!Abstract!Table
<1>2. ASSUME NEW k \in Key["group"], NEW v \in Val["group"], M!SaveGroup(k[1], v) PROVE MemoryStep
  BY <1>1, <1>2, PutStep DEF M!SaveGroup
<1>3. ASSUME NEW k \in Key["group"], M!GetGroup(k[1]) PROVE MemoryStep
  <2>1. M!Answer("Get", "group", M!Found("group", k), << >>)
    BY <1>1, <1>3 DEF M!GetGroup
  <2> QED
    BY <1>1, <2>1, FoundStep
<1>4. ASSUME NEW k \in Key["group"], M!DeleteGroup(k[1]) PROVE MemoryStep
  BY <1>1, <1>4, DropStep DEF M!DeleteGroup
<1>5. ASSUME M!ListGroups PROVE MemoryStep
  <2>1. "group" \in DOMAIN Key
    BY KeyAssumption DEF B!Abstract!Table
  <2> QED
    BY <1>5, <2>1, WalkAllStep DEF M!ListGroups
<1> QED
  BY <1>2, <1>3, <1>4, <1>5 DEF M!GroupOps

LEMMA MemorySenderKeys ==
  ASSUME MemoryInv, M!SenderKeyOps
  PROVE  MemoryStep
<1>1. ASSUME NEW k \in Key["senderKey"]
      PROVE  "senderKey" \in DOMAIN Key /\ k = <<k[1], k[2]>>
  BY KeyNumbers, KeyAssumption DEF Pair, B!Abstract!Table
<1>2. ASSUME NEW k \in Key["senderKey"], NEW v \in Val["senderKey"], M!SaveSenderKey(k[1], k[2], v) PROVE MemoryStep
  BY <1>1, <1>2, PutStep DEF M!SaveSenderKey
<1>3. ASSUME NEW k \in Key["senderKey"], M!GetSenderKey(k[1], k[2]) PROVE MemoryStep
  <2>1. M!Answer("Get", "senderKey", M!Found("senderKey", k), << >>)
    BY <1>1, <1>3 DEF M!GetSenderKey
  <2> QED
    BY <1>1, <2>1, FoundStep
<1>4. ASSUME NEW k \in Key["senderKey"], M!DeleteSenderKey(k[1], k[2]) PROVE MemoryStep
  BY <1>1, <1>4, DropStep DEF M!DeleteSenderKey
<1>5. ASSUME NEW g \in Group, M!ListSenderKeys(g) PROVE MemoryStep
  <2> DEFINE all == M!OfGroup("senderKey", g)
  <2>1. "senderKey" \in DOMAIN Key /\ 0 \in Limits
    BY KeyAssumption, PageAssumption DEF B!Abstract!Table
  <2>2. all \in SUBSET M!Pairs("senderKey")
    BY DEF M!OfGroup
  <2>3. M!Answer("List", "senderKey", all, << >>)
    BY <1>5 DEF M!ListSenderKeys
  <2>4. Cardinality(all) = M!Abstract!PageSize(Cardinality(all), 0, 0)
    <3> HIDE DEF all
    <3> QED
      BY <2>1, <2>2, PairsFinite, WholeSize
  <2> QED
    BY <2>1, <2>3, <2>4, WalkGroupStep
<1>6. ASSUME NEW g \in Group, M!DeleteAllSenderKeys(g) PROVE MemoryStep
  <2> DEFINE f == mem["senderKey"]
             new == [k \in {i \in DOMAIN f : i[1] # g} |-> f[k]]
  <2>1. "senderKey" \in DOMAIN Key
    BY KeyAssumption DEF B!Abstract!Table
  <2>2. M!Assign("senderKey", new, "DeleteAll")
    BY <1>6 DEF M!DeleteAllSenderKeys
  <2>3. new = M!Abstract!Without(f, {k \in DOMAIN f : k[1] = g})
    <3>1. {i \in DOMAIN f : i[1] # g} = DOMAIN f \ {k \in DOMAIN f : k[1] = g}
      OBVIOUS
    <3> QED
      BY <3>1 DEF M!Abstract!Without
  <2>4. DOMAIN new \subseteq DOMAIN f /\ new = [k \in DOMAIN new |-> new[k]]
    OBVIOUS
  <2> HIDE DEF new
  <2>5. IsFiniteSet(DOMAIN new)
    BY <2>1, <2>4, FS_Subset DEF MemoryInv
  <2>6. /\ MemoryInv' /\ M!Msgs' = M!Msgs /\ mem' = [mem EXCEPT !["senderKey"] = new]
        /\ reply' = M!Abstract!Reply("DeleteAll", "senderKey", {}, << >>)
    BY <2>1, <2>2, <2>4, <2>5, AssignKept
  <2>7. M!Abstract!DeleteSenderKeysOf(g)
    BY <2>3, <2>6 DEF M!Abstract!DeleteSenderKeysOf
  <2> QED
    BY <2>6, <2>7 DEF MemoryStep, M!Abstract!Next
<1> QED
  BY <1>2, <1>3, <1>4, <1>5, <1>6 DEF M!SenderKeyOps

LEMMA MemoryChannels ==
  ASSUME MemoryInv, M!ChannelOps
  PROVE  MemoryStep
<1>1. ASSUME NEW k \in Key["channel"]
      PROVE  "channel" \in DOMAIN Key /\ k = <<k[1]>>
  BY KeyNumbers, KeyAssumption DEF Pair, B!Abstract!Table
<1>2. ASSUME NEW k \in Key["channel"], NEW v \in Val["channel"], M!SaveChannel(k[1], v) PROVE MemoryStep
  BY <1>1, <1>2, PutStep DEF M!SaveChannel
<1>3. ASSUME NEW k \in Key["channel"], M!GetChannel(k[1]) PROVE MemoryStep
  <2>1. M!Answer("Get", "channel", M!Found("channel", k), << >>)
    BY <1>1, <1>3 DEF M!GetChannel
  <2> QED
    BY <1>1, <2>1, FoundStep
<1>4. ASSUME NEW k \in Key["channel"], M!DeleteChannel(k[1]) PROVE MemoryStep
  BY <1>1, <1>4, DropStep DEF M!DeleteChannel
<1>5. ASSUME NEW k \in Key["channel"], M!GetLatestChannelPostCID(k[1]) PROVE MemoryStep
  <2>1. M!Answer("Get", "channel", M!Found("channel", k), << >>)
    BY <1>1, <1>5 DEF M!GetLatestChannelPostCID
  <2> QED
    BY <1>1, <2>1, FoundStep
<1>6. ASSUME NEW k \in Key["channel"], NEW n \in Limits, NEW o \in Limits,
             M!GetChannelPosts(k[1], n, o) PROVE MemoryStep
  <2> DEFINE all == M!OfGroup("post", k[1])
             total == Cardinality(all)
             size == M!Abstract!PageSize(total, n, o)
  <2>1. "post" \in DOMAIN Key /\ n \in Nat /\ o \in Nat
    BY KeyAssumption, PageAssumption DEF B!Abstract!Table
  <2>2. total \in Nat
    BY <2>1, PairsFinite DEF M!OfGroup
  <2>3. M!Cardinality(all) = total
    BY Counts
  <2>4. PICK S \in M!kSubset(size, all) : M!Answer("List", "post", S, << >>)
    <3> HIDE DEF total
    <3>1. size = LET rest == IF o >= total THEN 0 ELSE total - o
                 IN  IF n > 0 /\ rest > n THEN n ELSE rest
      BY <2>1, <2>2 DEF M!Abstract!PageSize
    <3> HIDE DEF size
    <3> QED
      BY <1>6, <2>3, <3>1 DEF M!GetChannelPosts
  <2>5. S \subseteq all /\ Cardinality(S) = size
    BY <2>4, Counts DEF M!kSubset
  <2>6. <<k[1]>> \in Key["channel"]
    <3>1. k = <<k[1]>>
      BY KeyNumbers, KeyAssumption DEF Pair, B!Abstract!Table
    <3> QED
      BY <3>1
  <2> QED
    BY <2>1, <2>4, <2>5, <2>6, WalkGroupStep
<1>7. ASSUME NEW k \in Key["post"], NEW v \in Val["post"], M!SaveChannelPost(k[1], k[2], v)
      PROVE  MemoryStep
  <2> DEFINE posts == M!Written(mem["post"], <<k[1], k[2]>>, v)
             chans == IF <<k[1]>> \in DOMAIN mem["channel"]
                      THEN M!Written(mem["channel"], <<k[1]>>, v) ELSE mem["channel"]
  <2>1. "post" \in DOMAIN Key /\ "channel" \in DOMAIN Key
    BY KeyAssumption DEF B!Abstract!Table
  <2>2. /\ mem' = [mem EXCEPT !["post"] = posts, !["channel"] = chans] /\ messages' = messages
        /\ reply' = M!Abstract!Reply("Save", "post", {}, << >>)
    BY <1>7, <2>1 DEF M!SaveChannelPost, M!Reply, M!Abstract!Reply
  <2>3. ASSUME NEW t \in DOMAIN Key, NEW j
        PROVE  /\ M!Written(mem[t], j, v) = M!Abstract!Put(mem[t], j, v)
               /\ IsFiniteSet(DOMAIN M!Written(mem[t], j, v))
               /\ M!Written(mem[t], j, v) = [i \in DOMAIN M!Written(mem[t], j, v) |-> M!Written(mem[t], j, v)[i]]
    <3> DEFINE new == M!Written(mem[t], j, v)
    <3>1. new = [i \in DOMAIN mem[t] \cup {j} |-> IF i = j THEN v ELSE mem[t][i]]
      BY DEF M!Written
    <3>2. new = M!Abstract!Put(mem[t], j, v)
      BY <3>1 DEF M!Abstract!Put
    <3> HIDE DEF new
    <3>3. DOMAIN new = DOMAIN mem[t] \cup {j} /\ new = [i \in DOMAIN new |-> new[i]]
      BY <3>1
    <3>4. IsFiniteSet(DOMAIN new)
      <4>1. IsFiniteSet(DOMAIN mem[t])
        BY DEF MemoryInv
      <4> QED
        BY <3>3, <4>1, FS_AddElement
    <3> QED
      BY <3>2, <3>3, <3>4 DEF new
  <2>4. /\ posts = M!Abstract!Put(mem["post"], <<k[1], k[2]>>, v)
        /\ IsFiniteSet(DOMAIN posts) /\ posts = [i \in DOMAIN posts |-> posts[i]]
    BY <2>1, <2>3
  <2>5. chans = IF <<k[1]>> \in DOMAIN mem["channel"]
                THEN M!Abstract!Put(mem["channel"], <<k[1]>>, v) ELSE mem["channel"]
    BY <2>1, <2>3
  <2>6. IsFiniteSet(DOMAIN chans) /\ chans = [i \in DOMAIN chans |-> chans[i]]
    BY <2>1, <2>3 DEF MemoryInv
  <2> HIDE DEF posts, chans
  <2>7. /\ mem' = [t \in DOMAIN Key |-> mem'[t]] /\ mem'["post"] = posts /\ mem'["channel"] = chans
        /\ \A t \in DOMAIN Key : t # "post" /\ t # "channel" => mem'[t] = mem[t]
    BY <2>1, <2>2 DEF MemoryInv
  <2>8. MemoryInv'
    BY <2>2, <2>4, <2>6, <2>7 DEF MemoryInv
  <2>9. M!Msgs' = M!Msgs
    BY <2>2 DEF M!Msgs
  <2>10. M!Abstract!SavePost(k[1], k[2], v)
    BY <2>1, <2>2, <2>4, <2>5, <2>9 DEF M!Abstract!SavePost, MemoryInv
  <2> QED
    BY <2>8, <2>10 DEF MemoryStep, M!Abstract!Next
<1>8. ASSUME M!ListChannels PROVE MemoryStep
  <2>1. "channel" \in DOMAIN Key
    BY KeyAssumption DEF B!Abstract!Table
  <2> QED
    BY <1>8, <2>1, WalkAllStep DEF M!ListChannels
<1> QED
  BY <1>2, <1>3, <1>4, <1>5, <1>6, <1>7, <1>8 DEF M!ChannelOps

LEMMA MemoryInit == M!NewMemoryStorage => MemoryInv /\ M!Abstract!Init
<1> SUFFICES ASSUME M!NewMemoryStorage PROVE MemoryInv /\ M!Abstract!Init
  OBVIOUS
<1>1. /\ mem = [t \in DOMAIN Key |-> [k \in {} |-> 0]] /\ messages = [c \in Contact |-> << >>]
      /\ reply = M!Reply("none", "none", {}, << >>)
  BY DEF M!NewMemoryStorage
<1>2. MemoryInv
  BY <1>1, FS_EmptySet DEF MemoryInv
<1>3. M!Msgs = [c \in Contact |-> [e \in Envelope |-> 0]]
  <2>1. ASSUME NEW c \in Contact, NEW e \in Envelope
        PROVE  M!Cardinality({i \in DOMAIN messages[c] : messages[c][i] = e}) = 0
    <3>1. {i \in DOMAIN messages[c] : messages[c][i] = e} = {}
      BY <1>1
    <3> QED
      BY <3>1, Counts, FS_EmptySet
  <2> QED
    BY <2>1 DEF M!Msgs
<1> QED
  BY <1>1, <1>2, <1>3, MemoryTables DEF M!Abstract!Init, M!Abstract!NoRows, M!Reply, M!Abstract!Reply

\* Callers that write to shared objects, and Clear, leave finite maps of records
\* and lists of envelopes.
LEMMA CallerKept ==
  ASSUME MemoryInv, NEW t \in DOMAIN Key, NEW k \in Key[t], NEW v \in Val[t], M!CallerWrites(t, k, v)
  PROVE  MemoryInv'
<1> DEFINE new == M!Written(mem[t], k, v)
<1>1. /\ new = [i \in DOMAIN mem[t] \cup {k} |-> IF i = k THEN v ELSE mem[t][i]]
      /\ k \in DOMAIN mem[t] /\ mem' = [mem EXCEPT ![t] = new] /\ messages' = messages
  BY DEF M!CallerWrites, M!Written, MemoryInv
<1> HIDE DEF new
<1>2. DOMAIN new = DOMAIN mem[t] /\ new = [i \in DOMAIN new |-> new[i]]
  BY <1>1
<1>3. IsFiniteSet(DOMAIN new)
  BY <1>2 DEF MemoryInv
<1>4. \A u \in DOMAIN Key : mem'[u] = IF u = t THEN new ELSE mem[u]
  BY <1>1 DEF MemoryInv
<1>5. mem' = [u \in DOMAIN Key |-> mem'[u]]
  BY <1>1 DEF MemoryInv
<1>6. \A u \in DOMAIN Key : mem'[u] = [j \in DOMAIN mem'[u] |-> mem'[u][j]]
  <2> TAKE u \in DOMAIN Key
  <2>1. CASE u = t
    BY <1>2, <1>4, <2>1
  <2>2. CASE u # t
    BY <1>4, <2>2 DEF MemoryInv
  <2> QED
    BY <2>1, <2>2
<1>7. \A u \in DOMAIN Key : IsFiniteSet(DOMAIN mem'[u])
  BY <1>3, <1>4 DEF MemoryInv
<1> QED
  BY <1>1, <1>5, <1>6, <1>7 DEF MemoryInv

LEMMA EnvelopeKept ==
  ASSUME MemoryInv, NEW old \in Envelope, NEW e \in Envelope, M!EnvelopeWrites(old, e)
  PROVE  MemoryInv'
<1>1. PICK W : messages' = [c \in Contact |->
        [i \in 1 .. Len(messages[c]) |-> IF <<c, i>> \in W THEN e ELSE messages[c][i]]]
  BY DEF M!EnvelopeWrites
<1>2. mem' = mem
  BY DEF M!EnvelopeWrites
<1>3. ASSUME NEW c \in Contact
      PROVE  [i \in 1 .. Len(messages[c]) |-> IF <<c, i>> \in W THEN e ELSE messages[c][i]] \in Seq(Envelope)
  <2>1. messages[c] \in Seq(Envelope)
    BY DEF MemoryInv
  <2> DEFINE n == Len(messages[c])
  <2>2. n \in Nat /\ \A i \in 1 .. n : messages[c][i] \in Envelope
    BY <2>1
  <2> HIDE DEF n
  <2>3. [i \in 1 .. n |-> IF <<c, i>> \in W THEN e ELSE messages[c][i]] \in [1 .. n -> Envelope]
    BY <2>2
  <2> QED
    BY <2>2, <2>3, SeqDef DEF n
<1>4. messages' \in [Contact -> Seq(Envelope)]
  BY <1>1, <1>3, Zenon
<1> QED
  BY <1>2, <1>4 DEF MemoryInv

LEMMA ClearKept ==
  ASSUME MemoryInv, M!Clear
  PROVE  MemoryInv'
<1> DEFINE none == [k \in {} |-> 0]
<1>1. mem' = [mem EXCEPT !["contact"] = none] /\ messages' = [c \in Contact |-> << >>]
  BY DEF M!Clear
<1>2. none = [k \in DOMAIN none |-> none[k]] /\ IsFiniteSet(DOMAIN none)
  BY FS_EmptySet
<1> HIDE DEF none
<1>3. \A u \in DOMAIN Key : mem'[u] = IF u = "contact" THEN none ELSE mem[u]
  BY <1>1 DEF MemoryInv
<1>4. mem' = [u \in DOMAIN Key |-> mem'[u]]
  BY <1>1 DEF MemoryInv
<1>5. messages' \in [Contact -> Seq(Envelope)]
  BY <1>1
<1> QED
  BY <1>2, <1>3, <1>4, <1>5 DEF MemoryInv

LEMMA MemoryNext ==
  ASSUME MemoryInv, [Next]_<<db, open, out, mem, messages, reply, impl, scope>>
  PROVE  MemoryInv' /\ [M!SharedWrite \/ M!Clear \/ M!Abstract!Next]_<<mem, M!Msgs, reply>>
<1>1. CASE UNCHANGED <<mem, messages, reply>>
  BY <1>1 DEF MemoryInv, M!Msgs
<1>2. CASE M!NextOn(scope)
  <2>1. CASE M!SharedWrite
    <3>1. M!Live \subseteq DOMAIN Key
      BY KeyAssumption DEF B!Abstract!Table, M!Live
    <3>2. MemoryInv'
      BY <2>1, <3>1, CallerKept, EnvelopeKept DEF M!SharedWrite
    <3> QED
      BY <2>1, <3>2
  <2>2. CASE M!Clear
    BY <2>2, ClearKept
  <2>3. CASE MemoryStep
    BY <2>3 DEF MemoryStep
  <2> QED
    BY <1>2, <2>1, <2>2, <2>3, MemoryContacts, MemoryMessages, MemoryPeers, MemoryConfig,
       MemoryBlacklist, MemoryGroups, MemorySenderKeys, MemoryChannels DEF M!NextOn
<1> QED
  BY <1>1, <1>2 DEF Next

\* The store in memory implements the Storage interface but for callers that
\* write to the objects they share with it, and for Clear: every other step is a
\* call of the interface on its own maps and message lists (memory.go).
THEOREM MemoryRefines == Spec => MemoryImplements
<1> DEFINE mcvars == <<db, open, out, mem, messages, reply, impl, scope>>
<1>1. Init => MemoryInv /\ M!Abstract!Init
  BY MemoryInit DEF Init
<1>2. MemoryInv /\ [Next]_mcvars =>
        MemoryInv' /\ [M!SharedWrite \/ M!Clear \/ M!Abstract!Next]_(M!Abstract!vars)
  BY MemoryNext DEF M!Abstract!vars
<1> QED
  BY <1>1, <1>2, PTL DEF Spec, MemoryImplements, M!Implements
=============================================================================
