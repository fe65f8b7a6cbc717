------------------------------- MODULE Store -------------------------------
(***************************************************************************)
(* What the Storage interface promises to the rest of the program: tables  *)
(* of rows under unique keys, the stored messages of every contact, and    *)
(* the answer of the last call.  BadgerStore and MemoryStore are its two   *)
(* implementations; the tests of the repository run the services on        *)
(* the second one, the program runs them on the first.                     *)
(*                                                                         *)
(* A key is a tuple of numbers, a value a number: marshalled records are   *)
(* opaque except for what an operation looks at.                           *)
(***************************************************************************)
EXTENDS Integers, Sequences, FiniteSets

CONSTANTS
  Key,       \* Key[t]: the keys of table t that callers use
  Val,       \* Val[t]: the values callers store in table t
  Contact, Envelope,   \* contacts and message envelopes
  Group,               \* groups of the sender key table
  PeerInfo, Source,    \* what each peer record says, and all sources
  Limits     \* limits and offsets callers page with

Table == {"contact", "peer", "config", "blacklist", "group", "senderKey",
          "channel", "post", "identity", "device", "spk", "opk", "session", "bundle"}

VARIABLES
  rows,   \* rows[t]: the rows of table t, by key
  msgs,   \* msgs[c]: how often each envelope is stored for contact c
  out     \* the answer of the last call

vars == <<rows, msgs, out>>

Reply(op, t, found, list) == [op |-> op, table |-> t, rows |-> found, list |-> list]

\* The step is a call of operation op on table t.
Called(op, t) == out'.op = op /\ out'.table = t

Pairs(f) == {<<k, f[k]>> : k \in DOMAIN f}
NoRows == [k \in {} |-> 0]
Put(f, k, v) == [i \in DOMAIN f \cup {k} |-> IF i = k THEN v ELSE f[i]]
Without(f, S) == [k \in DOMAIN f \ S |-> f[k]]

Init ==
  /\ rows = [t \in Table |-> NoRows]
  /\ msgs = [c \in Contact |-> [e \in Envelope |-> 0]]
  /\ out = Reply("none", "none", {}, <<>>)

Save(t, k, v) ==
  /\ out' = Reply("Save", t, {}, <<>>)
  /\ rows' = [rows EXCEPT ![t] = Put(@, k, v)]
  /\ UNCHANGED msgs

\* A post becomes a row, and its channel, when there is one, points to the
\* post before it.
SavePost(c, p, prev) ==
  /\ out' = Reply("Save", "post", {}, <<>>)
  /\ rows' = [rows EXCEPT
       !["post"] = Put(@, <<c, p>>, prev),
       !["channel"] = IF <<c>> \in DOMAIN @ THEN Put(@, <<c>>, prev) ELSE @]
  /\ UNCHANGED msgs

Get(t, k) ==
  /\ Called("Get", t)
  /\ out' = Reply("Get", t, {r \in Pairs(rows[t]) : r[1] = k}, <<>>)
  /\ UNCHANGED <<rows, msgs>>

\* How many of total rows a page holds: the limit (0: no limit) or the rest.
PageSize(total, limit, offset) ==
  LET rest == IF offset >= total THEN 0 ELSE total - offset
  IN  IF limit > 0 /\ limit < rest THEN limit ELSE rest

\* A listing returns a page of the rows whose key begins with pre, in an order
\* of the store's choice.
List(t, pre, limit, offset) ==
  LET S == {r \in Pairs(rows[t]) : \A i \in DOMAIN pre : r[1][i] = pre[i]}
  IN  /\ Called("List", t) /\ out'.list = <<>>
      /\ out'.rows \subseteq S
      /\ Cardinality(out'.rows) = PageSize(Cardinality(S), limit, offset)
      /\ UNCHANGED <<rows, msgs>>

ListBySource(s) ==
  /\ Called("ListBySource", "peer")
  /\ out' = Reply("ListBySource", "peer",
                 {r \in Pairs(rows["peer"]) : PeerInfo[r[2]].source = s}, <<>>)
  /\ UNCHANGED <<rows, msgs>>

Count(t) ==
  /\ Called("Count", t)
  /\ out' = Reply("Count", t, {}, <<Cardinality(DOMAIN rows[t])>>)
  /\ UNCHANGED <<rows, msgs>>

Delete(t, k) ==
  /\ out' = Reply("Delete", t, {}, <<>>)
  /\ rows' = [rows EXCEPT ![t] = Without(@, {k})]
  /\ UNCHANGED msgs

DeleteSenderKeysOf(g) ==
  /\ out' = Reply("DeleteAll", "senderKey", {}, <<>>)
  /\ rows' = [rows EXCEPT !["senderKey"] = Without(@, {k \in DOMAIN @ : k[1] = g})]
  /\ UNCHANGED msgs

\* A peer with a better rate of successful connections, or with the same rate
\* and seen later.
Better(a, b) ==
  LET Tries(p) == IF p.connects + p.fails = 0 THEN 1 ELSE p.connects + p.fails
  IN  \/ a.connects * Tries(b) > b.connects * Tries(a)
      \/ a.connects * Tries(b) = b.connects * Tries(a) /\ a.seen > b.seen

\* Pruning removes peers and nothing else, and never a peer that is better than
\* one it keeps and was seen as late.
Prune ==
  /\ out' = Reply("Prune", "peer", {}, <<>>)
  /\ \E S \in SUBSET DOMAIN rows["peer"] :
       /\ \A r \in S, k \in DOMAIN rows["peer"] \ S :
            LET gone == PeerInfo[rows["peer"][r]]
                kept == PeerInfo[rows["peer"][k]]
            IN  ~(Better(gone, kept) /\ gone.seen >= kept.seen)
       /\ rows' = [rows EXCEPT !["peer"] = Without(@, S)]
  /\ UNCHANGED msgs

\* An envelope stored again is kept once more, or counts as the one stored.
AddMessage(c, e) ==
  /\ out' = Reply("Save", "message", {}, <<>>)
  /\ \/ msgs' = [msgs EXCEPT ![c][e] = @ + 1]
     \/ msgs[c][e] > 0 /\ msgs' = msgs
  /\ UNCHANGED rows

\* How many messages are stored for contact c: each envelope as often as it is.
Total(c) == Cardinality(UNION {{e} \X (1 .. msgs[c][e]) : e \in Envelope})

\* A page of the stored messages, no envelope more often than it is stored.
GetMessages(c, limit, offset) ==
  LET size == PageSize(Total(c), limit, offset)
  IN  /\ Called("List", "message") /\ out'.rows = {}
      /\ Len(out'.list) = size
      /\ \A e \in Envelope :
           Cardinality({i \in 1 .. size : out'.list[i] = e}) <= msgs[c][e]
      /\ UNCHANGED <<rows, msgs>>

DeleteMessages(c) ==
  /\ out' = Reply("DeleteAll", "message", {}, <<>>)
  /\ msgs' = [msgs EXCEPT ![c] = [e \in Envelope |-> 0]]
  /\ UNCHANGED rows

\* A call that fails has no effect, and neither has closing the store.
Fail == out' = Reply("error", "none", {}, <<>>) /\ UNCHANGED <<rows, msgs>>

Next ==
  \/ \E t \in Table : \E k \in Key[t] :
       Get(t, k) \/ Delete(t, k) \/ \E v \in Val[t] : Save(t, k, v)
  \/ \E k \in Key["post"], v \in Val["post"] : SavePost(k[1], k[2], v)
  \/ \E pre \in {<<>>} \cup {<<g>> : g \in Group} \cup Key["channel"] :
       \E t \in Table, n, o \in Limits : List(t, pre, n, o)
  \/ \E s \in Source : ListBySource(s)
  \/ \E t \in Table : Count(t)
  \/ \E g \in Group : DeleteSenderKeysOf(g)
  \/ \E c \in Contact :
       \/ DeleteMessages(c)
       \/ \E e \in Envelope : AddMessage(c, e)
       \/ \E n, o \in Limits : GetMessages(c, n, o)
  \/ Prune
  \/ Fail

Spec == Init /\ [][Next]_vars
=============================================================================
