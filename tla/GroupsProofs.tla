---------------------------- MODULE GroupsProofs ----------------------------
(***************************************************************************)
(* Proofs about SenderKeys, for any number of people, members, rotations,  *)
(* failed rotations and messages, and any delivery of the distributions:   *)
(*   - only members read (ReadersAreMembers);                              *)
(*   - no message key seals two messages (KeysSealOnce);                   *)
(*   - the keys stay well formed and their indexes grow (IndexesContinue). *)
(* They assume that calls of EncryptGroupMessage do not overlap, which is  *)
(* how the command line makes them; with two at a time all three are false *)
(* because the read lock does not protect the sender key.                  *)
(*                                                                         *)
(* And about GroupStates, for any set of people, any number of updates and *)
(* any order in which the replicas receive them:                           *)
(*   - the states of every replica form one authorised, hash-chained       *)
(*     lineage (Lineage);                                                  *)
(*   - the epoch of a replica never goes back (EpochsGrow).                *)
(***************************************************************************)
EXTENDS MCGroups, FiniteSetTheorems, SequenceTheorems, TLAPS

\* At most one goroutine encrypts.
Sequential == \A t1, t2 \in Thread : t1 = t2

-----------------------------------------------------------------------------
(* The inductive invariant *)

\* The creator comes first in the list until it removes itself: its key is the first
\* that rotateAllSenderKeys replaces.
GroupInv ==
  group # NoGroup =>
    /\ group \in Group /\ group.epoch \in 1 .. MaxEpoch
    /\ IsInjective(group.members)
    /\ Creator \in Members => group.members[1] = Creator

KeysInv ==
  /\ keys \in [Person -> SenderKey \cup {NoKey}]
  /\ imported \in [Person -> SenderKey \cup {NoKey}]
  /\ \A p \in Person : IsKey(saved.keys[p])
  /\ saved.keys = [p \in Person |-> saved.keys[p]]
  /\ saved = [group |-> saved.group, keys |-> saved.keys]
  /\ fresh \in Nat
  /\ keys[Creator] = NoKey <=> group = NoGroup
  /\ \A p \in Person : keys[p] # NoKey => keys[p].chain < fresh

\* Distributions of the chain in use went to people who still are members.
DistsInv ==
  /\ group = NoGroup => dists = {}
  /\ \A d \in dists :
       /\ d.to \in Person \ {Creator} /\ d.sk \in SenderKey
       /\ d.sk.chain < fresh
       /\ d.sk.chain = keys[Creator].chain => d.to \in Members

\* Messages lie behind the creator's key, on its chain or on an earlier one.
MsgsInv ==
  /\ group = NoGroup => msgs = {}
  /\ IsFiniteSet(msgs)
  /\ \A m \in msgs :
       /\ m.mk \in MessageKey /\ m.idx \in Nat /\ m.n \in Nat
       /\ m.n < Cardinality(msgs)
       /\ m.mk.chain < fresh
       /\ m.mk.chain = keys[Creator].chain => m.mk.step < keys[Creator].step
       /\ m.idx < keys[Creator].idx

\* Where goroutine t is in EncryptGroupMessage, and what it has read.
ThreadInv(t) ==
  /\ pc[t] \in {"idle", "advance", "load", "count", "seal"}
  /\ pc[t] # "idle" =>
       /\ keys[Creator] # NoKey
       /\ loc[t] \in [mk : MessageKey, cnt : Nat]
       /\ loc[t].mk.chain = keys[Creator].chain
  /\ pc[t] = "advance" => loc[t].mk.step = keys[Creator].step
  /\ pc[t] \in {"load", "count", "seal"} =>
       /\ loc[t].mk.step < keys[Creator].step
       /\ \A m \in msgs : m.mk.chain = loc[t].mk.chain => m.mk.step < loc[t].mk.step
  /\ pc[t] = "count" => loc[t].cnt = keys[Creator].idx
  /\ pc[t] = "seal" =>
       keys[Creator].idx >= 1 /\ \A m \in msgs : m.idx < keys[Creator].idx - 1

ThreadsInv ==
  /\ pc = [t \in Thread |-> pc[t]] /\ loc = [t \in Thread |-> loc[t]]
  /\ \A t \in Thread : ThreadInv(t)

IInv ==
  /\ GroupInv /\ KeysInv /\ DistsInv /\ MsgsInv /\ ThreadsInv
  /\ OnlyMembersRead /\ MessageKeysUnique /\ IndexContinuity

-----------------------------------------------------------------------------
(* Lemmas about the operators *)

\* Taking p out of a list without duplicates leaves the others in their order.
LEMMA RemoveFirstProps ==
  ASSUME NEW s \in Seq(Person), IsInjective(s), NEW p,
         NEW r, r = RemoveFirst(s, p)
  PROVE  /\ r \in Seq(Person) /\ IsInjective(r)
         /\ {r[i] : i \in DOMAIN r} = {s[i] : i \in DOMAIN s} \ {p}
         /\ Len(s) > 0 /\ s[1] # p => Len(r) > 0 /\ r[1] = s[1]
<1>1. CASE ~ \E i \in 1 .. Len(s) : s[i] = p
  <2>1. r = s
    BY <1>1 DEF RemoveFirst
  <2> QED
    BY <1>1, <2>1
<1>2. CASE \E i \in 1 .. Len(s) : s[i] = p
  <2>1. PICK j \in 1 .. Len(s) : s[j] = p
    BY <1>2
  <2> DEFINE I == {i \in 1 .. Len(s) : s[i] = p}
  <2>2. I = {j}
    BY <2>1 DEF IsInjective
  <2>3. Min(I) = j
    BY <2>2 DEF Min
  <2>4. r = RemoveAt(s, j)
    BY <1>2, <2>2, <2>3, Zenon DEF RemoveFirst, SelectInSeq
  <2>5. r = SubSeq(s, 1, j - 1) \o SubSeq(s, j + 1, Len(s))
    BY <2>4 DEF RemoveAt
  <2>6. /\ r \in Seq(Person) /\ Len(r) = Len(s) - 1
        /\ \A i \in 1 .. Len(r) : r[i] = IF i < j THEN s[i] ELSE s[i + 1]
    <3> DEFINE a == SubSeq(s, 1, j - 1)
               b == SubSeq(s, j + 1, Len(s))
    <3>1. a \in Seq(Person) /\ Len(a) = j - 1 /\ \A i \in 1 .. j - 1 : a[i] = s[i]
      OBVIOUS
    <3>2. /\ b \in Seq(Person) /\ Len(b) = Len(s) - j
          /\ \A i \in 1 .. Len(s) - j : b[i] = s[i + j]
      OBVIOUS
    <3> HIDE DEF a, b
    <3>3. /\ a \o b \in Seq(Person) /\ Len(a \o b) = Len(s) - 1
          /\ \A i \in 1 .. Len(s) - 1 :
               (a \o b)[i] = IF i <= Len(a) THEN a[i] ELSE b[i - Len(a)]
      <4>1. Len(a) + Len(b) = Len(s) - 1
        BY <3>1, <3>2
      <4>2. a \in Seq(Person) /\ b \in Seq(Person)
        BY <3>1, <3>2
      <4>3. /\ a \o b \in Seq(Person) /\ Len(a \o b) = Len(a) + Len(b)
            /\ \A i \in 1 .. Len(a) + Len(b) :
                 (a \o b)[i] = IF i <= Len(a) THEN a[i] ELSE b[i - Len(a)]
        BY <4>2, ConcatProperties, Zenon
      <4> QED
        BY <4>1, <4>3, Zenon
    <3>4. r = a \o b
      BY <2>5 DEF a, b
    <3>5. ASSUME NEW i \in 1 .. Len(r)
          PROVE  r[i] = IF i < j THEN s[i] ELSE s[i + 1]
      <4>1. CASE i < j
        BY <4>1, <3>1, <3>3, <3>4
      <4>2. CASE i >= j
        <5>1. i - (j - 1) \in 1 .. Len(s) - j /\ i - (j - 1) + j = i + 1
          BY <4>2, <3>3, <3>4
        <5> QED
          BY <4>2, <5>1, <3>1, <3>2, <3>3, <3>4
      <4> QED
        BY <4>1, <4>2
    <3> QED
      BY <3>3, <3>4, <3>5
  <2>7. IsInjective(r)
    <3> SUFFICES ASSUME NEW i \in 1 .. Len(r), NEW k \in 1 .. Len(r), r[i] = r[k]
                 PROVE  i = k
      BY <2>6 DEF IsInjective
    <3> DEFINE At(x) == IF x < j THEN x ELSE x + 1
    <3>1. At(i) \in DOMAIN s /\ At(k) \in DOMAIN s /\ r[i] = s[At(i)] /\ r[k] = s[At(k)]
      BY <2>6
    <3>2. At(i) = At(k)
      BY <3>1 DEF IsInjective
    <3> QED
      BY <3>2
  <2>8. {r[i] : i \in DOMAIN r} = {s[i] : i \in DOMAIN s} \ {p}
    <3>1. ASSUME NEW i \in DOMAIN r
          PROVE  r[i] \in {s[k] : k \in DOMAIN s} /\ r[i] # p
      BY <2>1, <2>6 DEF IsInjective
    <3>2. ASSUME NEW k \in DOMAIN s, s[k] # p
          PROVE  \E i \in DOMAIN r : r[i] = s[k]
      <4>1. k \in 1 .. Len(s) /\ k # j
        BY <2>1, <3>2
      <4>2. CASE k < j
        BY <4>1, <4>2, <2>6
      <4>3. CASE k > j
        <5>1. k - 1 \in DOMAIN r /\ ~(k - 1 < j) /\ k - 1 + 1 = k
          BY <4>1, <4>3, <2>6
        <5> QED
          BY <5>1, <2>6
      <4> QED
        BY <4>1, <4>2, <4>3
    <3> QED
      BY <3>1, <3>2
  <2>9. Len(s) > 0 /\ s[1] # p => Len(r) > 0 /\ r[1] = s[1]
    BY <2>1, <2>6
  <2> QED
    BY <2>6, <2>7, <2>8, <2>9
<1> QED
  BY <1>1, <1>2

\* What rotateAllSenderKeys makes of the key map when it gets through k members.
LEMMA RotateProps ==
  ASSUME KeysInv, NEW g \in Group, IsInjective(g.members),
         NEW k \in 0 .. Len(g.members), NEW r, r = rotateAllSenderKeys(g, k)
  PROVE  /\ r \in [Person -> SenderKey \cup {NoKey}]
         /\ \A p \in Person : r[p] # NoKey => r[p].chain < fresh + k
         /\ (\A i \in 1 .. Len(g.members) : g.members[i] # Creator)
              => r[Creator] = keys[Creator]
         /\ k > 0 /\ g.members[1] = Creator /\ keys[Creator] # NoKey
              => /\ r[Creator] \in SenderKey /\ r[Creator].chain = fresh
                 /\ r[Creator].idx = keys[Creator].idx
<1> DEFINE Pos(p) == CHOOSE i \in 1 .. k : g.members[i] = p
<1>1. ASSUME NEW p \in Person
      PROVE  r[p] = IF \E i \in 1 .. k : g.members[i] = p
                      THEN rotatedKey(keys[p], fresh + Pos(p) - 1, g.epoch) ELSE keys[p]
  BY Zenon DEF rotateAllSenderKeys
<1>2. r = [p \in Person |-> r[p]]
  BY DEF rotateAllSenderKeys
<1>3. g.members \in Seq(Person) /\ DOMAIN g.members = 1 .. Len(g.members) /\ g.epoch \in Nat
  BY DEF Group
<1>4. ASSUME NEW p \in Person, \E i \in 1 .. k : g.members[i] = p
      PROVE  Pos(p) \in 1 .. k /\ g.members[Pos(p)] = p
  BY <1>4
<1>5. ASSUME NEW old \in SenderKey \cup {NoKey}, NEW c \in Nat, NEW e \in Nat
      PROVE  /\ rotatedKey(old, c, e) \in SenderKey
             /\ rotatedKey(old, c, e).chain = c
             /\ old # NoKey => rotatedKey(old, c, e).idx = old.idx
  BY DEF rotatedKey, GenerateSenderKey, SenderKey
<1> HIDE DEF Pos
<1>6. ASSUME NEW p \in Person
      PROVE  /\ r[p] \in SenderKey \cup {NoKey}
             /\ r[p] # NoKey => r[p].chain < fresh + k
  <2>1. CASE \E i \in 1 .. k : g.members[i] = p
    <3>1. fresh + Pos(p) - 1 \in Nat /\ fresh + Pos(p) - 1 < fresh + k
      BY <2>1, <1>4 DEF KeysInv
    <3>2. keys[p] \in SenderKey \cup {NoKey}
      BY DEF KeysInv
    <3>3. r[p] = rotatedKey(keys[p], fresh + Pos(p) - 1, g.epoch)
      BY <1>1, <2>1
    <3>4. /\ rotatedKey(keys[p], fresh + Pos(p) - 1, g.epoch) \in SenderKey
          /\ rotatedKey(keys[p], fresh + Pos(p) - 1, g.epoch).chain = fresh + Pos(p) - 1
      BY <1>3, <1>5, <3>1, <3>2, Zenon
    <3> QED
      BY <3>1, <3>3, <3>4
  <2>2. CASE ~ \E i \in 1 .. k : g.members[i] = p
    <3>1. r[p] = keys[p]
      BY <1>1, <2>2
    <3>2. r[p] \in SenderKey \cup {NoKey} /\ (r[p] # NoKey => r[p].chain < fresh)
      BY <3>1 DEF KeysInv
    <3>3. r[p] # NoKey => r[p].chain \in Nat
      BY <3>2 DEF SenderKey
    <3> QED
      BY <3>2, <3>3 DEF KeysInv
  <2> QED
    BY <2>1, <2>2
<1>7. (\A i \in 1 .. Len(g.members) : g.members[i] # Creator) => r[Creator] = keys[Creator]
  BY <1>1, PersonAssumption
<1>8. ASSUME k > 0, g.members[1] = Creator, keys[Creator] # NoKey
      PROVE  /\ r[Creator] \in SenderKey /\ r[Creator].chain = fresh
             /\ r[Creator].idx = keys[Creator].idx
  <2>1. 1 \in 1 .. k /\ Creator \in Person /\ 1 .. k \subseteq DOMAIN g.members
    BY <1>3, <1>8, PersonAssumption
  <2>2. Pos(Creator) = 1
    BY <1>4, <1>8, <2>1 DEF IsInjective
  <2>3. r[Creator] = rotatedKey(keys[Creator], fresh, g.epoch)
    BY <1>1, <1>8, <2>1, <2>2 DEF KeysInv
  <2>4. keys[Creator] \in SenderKey \cup {NoKey} /\ fresh \in Nat
    BY <2>1 DEF KeysInv
  <2>5. /\ rotatedKey(keys[Creator], fresh, g.epoch) \in SenderKey
        /\ rotatedKey(keys[Creator], fresh, g.epoch).chain = fresh
        /\ rotatedKey(keys[Creator], fresh, g.epoch).idx = keys[Creator].idx
    BY <1>3, <1>5, <1>8, <2>4, Zenon
  <2> QED
    BY <2>3, <2>5
<1> QED
  BY <1>2, <1>6, <1>7, <1>8

-----------------------------------------------------------------------------
(* The invariant implies the properties *)

LEMMA Implied == IInv => OnlyMembersRead /\ MessageKeysUnique /\ KeysContinue
<1> SUFFICES ASSUME IInv PROVE TypeOK
  BY DEF IInv, KeysContinue
<1> USE DEF IInv
<1>1. ASSUME group # NoGroup
      PROVE  /\ group.epoch \in 1 .. MaxEpoch /\ Members \subseteq Person
             /\ Len(group.members) = Cardinality(Members)
  <2> DEFINE s == group.members
             n == Len(s)
  <2>1. s \in Seq(Person) /\ n \in Nat /\ DOMAIN s = 1 .. n
    BY <1>1 DEF GroupInv, Group
  <2>2. s \in Bijection(1 .. n, Members)
    BY <1>1, <2>1, SMTT(40) DEF GroupInv, Members, IsInjective, Bijection, Injection, Surjection
  <2>3. IsFiniteSet(1 .. n) /\ Cardinality(1 .. n) = n
    BY <2>1, FS_Interval
  <2>4. Cardinality(Members) = n
    BY <2>2, <2>3, FS_Bijection, Zenon DEF ExistsBijection
  <2> QED
    BY <1>1, <2>1, <2>4 DEF GroupInv, Members
<1>2. \A p \in Person : IsKey(keys[p]) /\ IsKey(imported[p]) /\ IsKey(saved.keys[p])
  BY DEF KeysInv, IsKey
<1>3. \A t \in Thread : pc[t] # "idle" => loc[t].mk \in MessageKey /\ loc[t].cnt \in Nat
  BY DEF ThreadsInv, ThreadInv
<1> QED
  BY <1>1, <1>2, <1>3 DEF TypeOK, KeysInv, DistsInv, MsgsInv, ThreadsInv, ThreadInv

-----------------------------------------------------------------------------
(* Every step keeps the invariant *)

LEMMA InitHolds == Init => IInv
<1> SUFFICES ASSUME Init PROVE IInv
  OBVIOUS
<1>1. KeysInv
  BY PersonAssumption, AbsentAssumption DEF Init, KeysInv, IsKey
<1>2. MsgsInv
  BY FS_EmptySet DEF Init, MsgsInv
<1> QED
  BY <1>1, <1>2 DEF Init, IInv, GroupInv, DistsInv, ThreadsInv, ThreadInv,
                    OnlyMembersRead, MessageKeysUnique, IndexContinuity

LEMMA CreateGroupKeeps ==
  ASSUME IInv, CreateGroup
  PROVE  IInv'
<1> USE DEF IInv
<1> DEFINE sk == GenerateSenderKey(fresh)
<1>1. /\ group = NoGroup /\ group' = NewGroupState /\ fresh' = fresh + 1
      /\ keys' = [keys EXCEPT ![Creator] = sk]
      /\ saved' = [group |-> group', keys |-> keys']
      /\ UNCHANGED <<pc, loc, calls, dists, imported, msgs>>
  BY DEF CreateGroup
<1>2. group' \in Group /\ group' # NoGroup
  <2>1. <<Creator>> \in Seq(Person)
    BY PersonAssumption
  <2> QED
    BY <1>1, <2>1, AbsentAssumption DEF NewGroupState, Group
<1>3. GroupInv'
  <2>1. group'.epoch = 1 /\ group'.members = <<Creator>>
    BY <1>1 DEF NewGroupState
  <2>2. IsInjective(<<Creator>>)
    BY DEF IsInjective
  <2> QED
    BY <1>2, <2>1, <2>2, BoundAssumption DEF GroupInv
<1>4. dists = {} /\ msgs = {}
  BY <1>1 DEF DistsInv, MsgsInv
<1>5. KeysInv'
  <2>1. sk \in SenderKey /\ sk.chain = fresh
    BY DEF KeysInv, SenderKey, GenerateSenderKey
  <2>2. keys' \in [Person -> SenderKey \cup {NoKey}] /\ keys'[Creator] = sk
    BY <1>1, <2>1, PersonAssumption DEF KeysInv
  <2>3. \A p \in Person : keys'[p] # NoKey => keys'[p].chain < fresh'
    <3> SUFFICES ASSUME NEW p \in Person, keys'[p] # NoKey PROVE keys'[p].chain < fresh'
      OBVIOUS
    <3>1. CASE p = Creator
      BY <1>1, <2>1, <2>2, <3>1 DEF KeysInv
    <3>2. CASE p # Creator
      <4>1. keys'[p] = keys[p] /\ keys[p].chain < fresh /\ keys[p].chain \in Nat
        BY <1>1, <3>2 DEF KeysInv, SenderKey
      <4> QED
        BY <1>1, <4>1 DEF KeysInv
    <3> QED
      BY <3>1, <3>2
  <2>4. saved'.keys = keys' /\ saved' = [group |-> saved'.group, keys |-> saved'.keys]
    BY <1>1
  <2>5. \A p \in Person : IsKey(keys'[p])
    BY <2>2 DEF IsKey
  <2>6. keys'[Creator] # NoKey
    BY <2>1, <2>2, AbsentAssumption
  <2>7. keys' = [p \in Person |-> keys'[p]]
    BY <2>2
  <2>8. fresh' \in Nat
    BY <1>1 DEF KeysInv
  <2> QED
    BY <1>1, <1>2, <2>2, <2>3, <2>4, <2>5, <2>6, <2>7, <2>8 DEF KeysInv, IsKey
<1>6. DistsInv' /\ MsgsInv'
  BY <1>1, <1>2, <1>4 DEF DistsInv, MsgsInv
<1>7. ThreadsInv'
  BY <1>1 DEF ThreadsInv, ThreadInv, CreateGroup, WriteLock
<1> QED
  BY <1>1, <1>3, <1>4, <1>5, <1>6, <1>7
     DEF OnlyMembersRead, MessageKeysUnique, IndexContinuity
LEMMA AddMemberKeeps ==
  ASSUME IInv, NEW p \in Person, AddMember(p)
  PROVE  IInv'
<1> USE DEF IInv
<1> DEFINE s == group.members
           s2 == Append(s, p)
<1>1. /\ group # NoGroup /\ Creator \in Members /\ p \notin Members
      /\ group.epoch < MaxEpoch /\ group' = [epoch |-> group.epoch + 1, members |-> s2]
      /\ saved' = [saved EXCEPT !.group = group']
      /\ UNCHANGED <<keys, fresh, pc, loc, calls, dists, imported, msgs>>
  BY DEF AddMember, Authorized
<1>2. s \in Seq(Person) /\ IsInjective(s) /\ group.epoch \in 1 .. MaxEpoch /\ s[1] = Creator
  BY <1>1 DEF GroupInv, Group
<1>3. /\ s2 \in Seq(Person) /\ DOMAIN s2 = 1 .. Len(s) + 1 /\ s2[Len(s) + 1] = p
      /\ DOMAIN s = 1 .. Len(s) /\ \A i \in 1 .. Len(s) : s2[i] = s[i]
  BY <1>2
<1>4. group'.members = s2 /\ group'.epoch = group.epoch + 1
  BY <1>1
<1>5. group' \in Group /\ group' # NoGroup /\ group'.epoch \in 1 .. MaxEpoch
  <2> HIDE DEF s2
  <2>1. group.epoch + 1 \in 1 .. MaxEpoch /\ group.epoch + 1 \in Nat
    BY <1>1, <1>2, BoundAssumption
  <2>2. [epoch |-> group.epoch + 1, members |-> s2] \in Group
    BY <1>3, <2>1 DEF Group
  <2> QED
    BY <1>1, <1>4, <2>1, <2>2, AbsentAssumption
<1>6. IsInjective(s2)
  BY <1>1, <1>2, <1>3 DEF IsInjective, Members
<1>7. Members' = Members \cup {p} /\ s2[1] = Creator
  <2>1. 1 \in 1 .. Len(s)
    BY <1>1, <1>2, <1>3 DEF Members
  <2> QED
    BY <1>2, <1>3, <1>4, <2>1 DEF Members
<1>8. GroupInv'
  BY <1>4, <1>5, <1>6, <1>7 DEF GroupInv
<1>9. KeysInv'
  <2>1. saved'.keys = saved.keys /\ saved' = [group |-> saved'.group, keys |-> saved'.keys]
    BY <1>1 DEF KeysInv
  <2> QED
    BY <1>1, <1>5, <2>1 DEF KeysInv
<1>10. DistsInv' /\ MsgsInv'
  BY <1>1, <1>5, <1>7 DEF DistsInv, MsgsInv
<1>11. ThreadsInv'
  BY <1>1 DEF ThreadsInv, ThreadInv
<1> QED
  BY <1>1, <1>8, <1>9, <1>10, <1>11 DEF OnlyMembersRead, MessageKeysUnique, IndexContinuity

\* The creator's chain after a removal: a fresh one, or the old one when the creator
\* removed itself.
LEMMA RemoveMemberKeeps ==
  ASSUME IInv, NEW p \in Person, RemoveMember(p)
  PROVE  IInv'
<1> USE DEF IInv
<1> DEFINE s == group.members
           rest == RemoveFirst(s, p)
           g == [epoch |-> group.epoch + 1, members |-> rest]
<1>1. /\ group # NoGroup /\ Creator \in Members /\ group.epoch < MaxEpoch /\ group' = g
      /\ \A t \in Thread : pc[t] = "idle"
      /\ UNCHANGED <<pc, loc, calls, dists, imported, msgs>>
  BY DEF RemoveMember, Authorized, WriteLock
<1>2. PICK k \in 0 .. Len(rest), stored \in BOOLEAN :
         /\ stored => k = Len(rest)
         /\ ~stored => k > 0
         /\ keys' = rotateAllSenderKeys(g, k)
         /\ fresh' = fresh + k
         /\ saved' = [group |-> g,
                      keys  |-> rotateAllSenderKeys(g, IF stored THEN k ELSE k - 1)]
  BY DEF RemoveMember
<1>3. /\ s \in Seq(Person) /\ IsInjective(s) /\ group.epoch \in 1 .. MaxEpoch
      /\ s[1] = Creator /\ Len(s) > 0
  BY <1>1 DEF GroupInv, Group, Members
<1>4. /\ rest \in Seq(Person) /\ IsInjective(rest)
      /\ {rest[i] : i \in DOMAIN rest} = Members \ {p}
      /\ Creator # p => Len(rest) > 0 /\ rest[1] = Creator
  <2>1. /\ rest \in Seq(Person) /\ IsInjective(rest)
        /\ {rest[i] : i \in DOMAIN rest} = {s[i] : i \in DOMAIN s} \ {p}
        /\ Len(s) > 0 /\ s[1] # p => Len(rest) > 0 /\ rest[1] = s[1]
    BY <1>3, RemoveFirstProps, Zenon
  <2> QED
    BY <1>3, <2>1, Zenon DEF Members
<1> HIDE DEF rest
<1>5. /\ g \in Group /\ g # NoGroup /\ g.epoch \in 1 .. MaxEpoch /\ g.members = rest
  BY <1>1, <1>3, <1>4, BoundAssumption, AbsentAssumption DEF Group
<1> HIDE DEF g
<1>6. Members' = Members \ {p}
  BY <1>1, <1>4, <1>5 DEF Members
<1>7. GroupInv'
  BY <1>1, <1>4, <1>5, <1>6 DEF GroupInv
<1>8. Len(rest) \in Nat /\ k \in Nat /\ DOMAIN rest = 1 .. Len(rest)
  BY <1>4
<1>9. /\ keys' \in [Person -> SenderKey \cup {NoKey}]
      /\ \A q \in Person : keys'[q] # NoKey => keys'[q].chain < fresh + k
      /\ (\A i \in 1 .. Len(rest) : rest[i] # Creator) => keys'[Creator] = keys[Creator]
      /\ k > 0 /\ rest[1] = Creator /\ keys[Creator] # NoKey
           => /\ keys'[Creator] \in SenderKey /\ keys'[Creator].chain = fresh
              /\ keys'[Creator].idx = keys[Creator].idx
  BY <1>2, <1>4, <1>5, RotateProps
<1>10. saved'.keys \in [Person -> SenderKey \cup {NoKey}]
  <2> DEFINE k2 == IF stored THEN k ELSE k - 1
  <2>1. k2 \in 0 .. Len(rest)
    <3>1. CASE stored
      BY <3>1
    <3>2. CASE ~stored
      <4>1. k2 = k - 1 /\ k > 0
        BY <1>2, <3>2, Zenon
      <4> QED
        BY <1>8, <4>1
    <3> QED
      BY <3>1, <3>2
  <2>2. rotateAllSenderKeys(g, k2) \in [Person -> SenderKey \cup {NoKey}]
    BY <1>4, <1>5, <2>1, RotateProps
  <2> QED
    BY <1>2, <2>2
<1>11. keys[Creator] \in SenderKey /\ keys[Creator] # NoKey
  BY <1>1, PersonAssumption DEF KeysInv
<1>12. \/ Creator = p /\ keys'[Creator] = keys[Creator]
       \/ /\ Creator # p /\ keys'[Creator] \in SenderKey /\ keys'[Creator].chain = fresh
          /\ keys'[Creator].idx = keys[Creator].idx
  <2>1. CASE Creator = p
    <3>1. \A i \in 1 .. Len(rest) : rest[i] # Creator
      BY <1>4, <1>8, <2>1
    <3> QED
      BY <1>9, <2>1, <3>1
  <2>2. CASE Creator # p
    <3>1. k > 0
      BY <1>2, <1>4, <1>8, <2>2
    <3> QED
      BY <1>4, <1>9, <1>11, <2>2, <3>1
  <2> QED
    BY <2>1, <2>2
<1>13. fresh' = fresh + k /\ fresh \in Nat /\ fresh' \in Nat /\ fresh <= fresh'
  BY <1>2, <1>8 DEF KeysInv
<1>14. KeysInv'
  <2>1. keys'[Creator] # NoKey
    BY <1>11, <1>12, AbsentAssumption
  <2>2. /\ \A q \in Person : IsKey(saved'.keys[q])
        /\ saved'.keys = [q \in Person |-> saved'.keys[q]]
    BY <1>10 DEF IsKey
  <2>3. saved' = [group |-> saved'.group, keys |-> saved'.keys]
    BY <1>2
  <2> QED
    BY <1>1, <1>5, <1>9, <1>13, <2>1, <2>2, <2>3 DEF KeysInv, IsKey
<1>15. DistsInv'
  <2> SUFFICES ASSUME NEW d \in dists
               PROVE  /\ d.to \in Person \ {Creator} /\ d.sk \in SenderKey
                      /\ d.sk.chain < fresh'
                      /\ d.sk.chain = keys'[Creator].chain => d.to \in Members'
    BY <1>1, <1>5 DEF DistsInv
  <2>1. /\ d.to \in Person \ {Creator} /\ d.sk \in SenderKey /\ d.sk.chain < fresh
        /\ d.sk.chain = keys[Creator].chain => d.to \in Members
    BY DEF DistsInv
  <2>2. d.sk.chain \in Nat
    BY <2>1 DEF SenderKey
  <2> QED
    BY <1>6, <1>12, <1>13, <2>1, <2>2
<1>16. MsgsInv'
  <2> SUFFICES ASSUME NEW m \in msgs
               PROVE  /\ m.mk.chain < fresh'
                      /\ m.mk.chain = keys'[Creator].chain => m.mk.step < keys'[Creator].step
                      /\ m.idx < keys'[Creator].idx
    BY <1>1, <1>5 DEF MsgsInv
  <2>1. /\ m.mk \in MessageKey /\ m.mk.chain < fresh /\ m.idx < keys[Creator].idx
        /\ m.mk.chain = keys[Creator].chain => m.mk.step < keys[Creator].step
    BY DEF MsgsInv
  <2>2. m.mk.chain \in Nat
    BY <2>1 DEF MessageKey
  <2> QED
    BY <1>12, <1>13, <2>1, <2>2
<1>17. ThreadsInv'
  BY <1>1 DEF ThreadsInv, ThreadInv
<1> QED
  BY <1>1, <1>7, <1>14, <1>15, <1>16, <1>17
     DEF OnlyMembersRead, MessageKeysUnique, IndexContinuity

LEMMA DistributeKeeps ==
  ASSUME IInv, NEW p \in Person, p \in Members \ {Creator}, Distribute(p)
  PROVE  IInv'
<1> USE DEF IInv
<1> DEFINE new == [to |-> p, sk |-> keys[Creator]]
<1>1. /\ group # NoGroup /\ p \in Members \ {Creator} /\ dists' = dists \cup {new}
      /\ UNCHANGED <<group, keys, fresh, pc, loc, calls, imported, saved, msgs>>
  BY DEF Distribute
<1>2. keys[Creator] \in SenderKey /\ keys[Creator].chain < fresh
  BY <1>1, PersonAssumption DEF KeysInv
<1>3. new.to = p /\ new.sk = keys[Creator]
  OBVIOUS
<1> HIDE DEF new
<1>4. GroupInv' /\ KeysInv' /\ MsgsInv' /\ ThreadsInv'
  BY <1>1 DEF GroupInv, KeysInv, MsgsInv, ThreadsInv, ThreadInv, Members
<1>5. DistsInv'
  BY <1>1, <1>2, <1>3 DEF DistsInv, Members
<1>6. \A m \in msgs : ~CanDerive(new.sk, m.mk)
  <2> SUFFICES ASSUME NEW m \in msgs, m.mk.chain = keys[Creator].chain
               PROVE  ~(keys[Creator].step <= m.mk.step)
    BY <1>3 DEF CanDerive
  <2>1. m.mk \in MessageKey /\ m.mk.step < keys[Creator].step
    BY DEF MsgsInv
  <2> QED
    BY <1>2, <2>1 DEF MessageKey, SenderKey
<1>7. OnlyMembersRead'
  BY <1>1, <1>6 DEF OnlyMembersRead, CanDerive
<1> QED
  BY <1>1, <1>4, <1>5, <1>7 DEF MessageKeysUnique, IndexContinuity

\* Import and decryption change the key a member holds, and nothing at the creator.
LEMMA ImportedKeeps ==
  ASSUME IInv, imported' \in [Person -> SenderKey \cup {NoKey}],
         UNCHANGED <<group, keys, fresh, pc, loc, calls, dists, saved, msgs>>
  PROVE  IInv'
<1> USE DEF IInv
<1>1. GroupInv' /\ KeysInv' /\ DistsInv' /\ MsgsInv' /\ ThreadsInv'
  BY DEF GroupInv, KeysInv, DistsInv, MsgsInv, ThreadsInv, ThreadInv, Members
<1> QED
  BY <1>1 DEF OnlyMembersRead, MessageKeysUnique, IndexContinuity

LEMMA ImportSenderKeyKeeps ==
  ASSUME IInv, NEW d \in dists, ImportSenderKey(d)
  PROVE  IInv'
<1>1. d.to \in Person /\ d.sk \in SenderKey
  BY DEF IInv, DistsInv
<1>2. imported' \in [Person -> SenderKey \cup {NoKey}]
  BY <1>1 DEF ImportSenderKey, IInv, KeysInv
<1> QED
  BY <1>2, ImportedKeeps DEF ImportSenderKey

LEMMA DecryptKeeps ==
  ASSUME IInv, NEW p \in Person, NEW m \in msgs, DecryptGroupMessage(p, m)
  PROVE  IInv'
<1> DEFINE sk == imported[p]
           sk2 == [sk EXCEPT !.step = @ + (m.idx + 1 - sk.idx), !.idx = m.idx + 1]
<1>1. sk \in SenderKey /\ m.idx \in Nat /\ m.idx >= sk.idx
  BY DEF IInv, KeysInv, MsgsInv, DecryptGroupMessage
<1>2. sk2 \in SenderKey
  <2>1. m.idx + 1 \in Nat /\ sk.step + (m.idx + 1 - sk.idx) \in Nat
    BY <1>1 DEF SenderKey
  <2> QED
    BY <1>1, <2>1 DEF SenderKey
<1>3. imported' \in [Person -> SenderKey \cup {NoKey}]
  BY <1>2 DEF DecryptGroupMessage, IInv, KeysInv
<1> QED
  BY <1>3, ImportedKeeps DEF DecryptGroupMessage
\* The steps of EncryptGroupMessage.  With no other goroutine encrypting, only the
\* caller's own control point has to be looked at.
LEMMA DeriveKeeps ==
  ASSUME Sequential, IInv, NEW t \in Thread, Derive(t)
  PROVE  IInv'
<1> USE DEF IInv
<1> DEFINE sk == keys[Creator]
           mk == DeriveMessageKey(sk)
<1>1. /\ pc[t] = "idle" /\ sk # NoKey
      /\ loc' = [loc EXCEPT ![t] = [mk |-> mk, cnt |-> 0]]
      /\ pc' = [pc EXCEPT ![t] = "advance"]
      /\ UNCHANGED <<group, keys, fresh, dists, imported, saved, msgs>>
  BY DEF Derive
<1>2. sk \in SenderKey
  BY <1>1, PersonAssumption DEF KeysInv
<1>3. mk \in MessageKey /\ mk.chain = sk.chain /\ mk.step = sk.step
  BY <1>2 DEF DeriveMessageKey, MessageKey, SenderKey
<1> HIDE DEF mk
<1>4. GroupInv' /\ KeysInv' /\ DistsInv' /\ MsgsInv'
  BY <1>1 DEF GroupInv, KeysInv, DistsInv, MsgsInv, Members
<1>5. loc'[t] = [mk |-> mk, cnt |-> 0] /\ pc'[t] = "advance"
  BY <1>1 DEF ThreadsInv
<1>6. ThreadInv(t)'
  BY <1>1, <1>3, <1>5 DEF ThreadInv
<1>7. ThreadsInv'
  BY <1>1, <1>6 DEF ThreadsInv, Sequential
<1> QED
  BY <1>1, <1>4, <1>7 DEF OnlyMembersRead, MessageKeysUnique, IndexContinuity

LEMMA AdvanceKeeps ==
  ASSUME Sequential, IInv, NEW t \in Thread, Advance(t)
  PROVE  IInv'
<1> USE DEF IInv
<1> DEFINE sk == keys[Creator]
           sk2 == [sk EXCEPT !.step = sk.step + 1]
<1>1. /\ pc[t] = "advance" /\ pc' = [pc EXCEPT ![t] = "load"]
      /\ keys' = [keys EXCEPT ![Creator].step = loc[t].mk.step + 1]
      /\ UNCHANGED <<group, fresh, loc, calls, dists, imported, saved, msgs>>
  BY DEF Advance, advancedStep
<1>2. ThreadInv(t) /\ keys \in [Person -> SenderKey \cup {NoKey}]
  BY DEF ThreadsInv, KeysInv
<1>3. /\ sk \in SenderKey /\ sk # NoKey /\ loc[t].mk.step = sk.step
      /\ loc[t].mk.chain = sk.chain /\ loc[t] \in [mk : MessageKey, cnt : Nat]
  BY <1>1, <1>2, PersonAssumption DEF ThreadInv
<1>4. /\ sk2 \in SenderKey /\ sk2.chain = sk.chain /\ sk2.step = sk.step + 1
      /\ sk2.idx = sk.idx
  BY <1>3 DEF SenderKey
<1>5. keys' = [keys EXCEPT ![Creator] = sk2]
  BY <1>1, <1>2, <1>3, PersonAssumption
<1> HIDE DEF sk2
<1>6. keys'[Creator] = sk2 /\ keys' \in [Person -> SenderKey \cup {NoKey}] /\ sk2 # NoKey
  BY <1>2, <1>4, <1>5, PersonAssumption, AbsentAssumption
<1>7. KeysInv'
  <2>1. \A p \in Person : keys'[p] # NoKey => keys'[p].chain < fresh'
    BY <1>1, <1>2, <1>3, <1>4, <1>5 DEF KeysInv
  <2> QED
    BY <1>1, <1>3, <1>6, <2>1 DEF KeysInv
<1>8. GroupInv' /\ DistsInv'
  BY <1>1, <1>4, <1>6 DEF GroupInv, DistsInv, Members
<1>9. MsgsInv'
  <2> SUFFICES ASSUME NEW m \in msgs, m.mk.chain = sk.chain
               PROVE  m.mk.step < sk2.step
    BY <1>1, <1>4, <1>6 DEF MsgsInv
  <2>1. m.mk.step < sk.step /\ m.mk.step \in Nat /\ sk.step \in Nat
    BY <1>3 DEF MsgsInv, MessageKey, SenderKey
  <2> QED
    BY <1>4, <2>1
<1>10. ThreadInv(t)'
  <2>1. pc'[t] = "load" /\ loc'[t] = loc[t]
    BY <1>1 DEF ThreadsInv
  <2>2. sk.step \in Nat
    BY <1>3 DEF SenderKey
  <2>3. \A m \in msgs : m.mk.chain = loc[t].mk.chain => m.mk.step < loc[t].mk.step
    BY <1>3 DEF MsgsInv
  <2>4. loc[t].mk.step < sk2.step /\ loc[t].mk.chain = sk2.chain
    BY <1>3, <1>4, <2>2
  <2> QED
    BY <1>1, <1>3, <1>6, <2>1, <2>3, <2>4 DEF ThreadInv
<1>11. ThreadsInv'
  BY <1>1, <1>10 DEF ThreadsInv, Sequential
<1> QED
  BY <1>1, <1>7, <1>8, <1>9, <1>11 DEF OnlyMembersRead, MessageKeysUnique, IndexContinuity

LEMMA LoadKeeps ==
  ASSUME Sequential, IInv, NEW t \in Thread, Load(t)
  PROVE  IInv'
<1> USE DEF IInv
<1>1. /\ pc[t] = "load" /\ pc' = [pc EXCEPT ![t] = "count"]
      /\ loc' = [loc EXCEPT ![t].cnt = keys[Creator].idx]
      /\ UNCHANGED <<group, keys, fresh, calls, dists, imported, saved, msgs>>
  BY DEF Load
<1>2. ThreadInv(t)
  BY DEF ThreadsInv
<1>3. /\ keys[Creator] \in SenderKey /\ keys[Creator] # NoKey
      /\ loc[t] \in [mk : MessageKey, cnt : Nat]
  BY <1>1, <1>2, PersonAssumption DEF ThreadInv, KeysInv
<1>4. GroupInv' /\ KeysInv' /\ DistsInv' /\ MsgsInv'
  BY <1>1 DEF GroupInv, KeysInv, DistsInv, MsgsInv, Members
<1>5. /\ pc'[t] = "count" /\ loc'[t] \in [mk : MessageKey, cnt : Nat]
      /\ loc'[t].cnt = keys[Creator].idx /\ loc'[t].mk = loc[t].mk
  BY <1>1, <1>3 DEF ThreadsInv, SenderKey
<1>6. ThreadInv(t)'
  BY <1>1, <1>2, <1>5 DEF ThreadInv
<1>7. ThreadsInv'
  BY <1>1, <1>6 DEF ThreadsInv, Sequential
<1> QED
  BY <1>1, <1>4, <1>7 DEF OnlyMembersRead, MessageKeysUnique, IndexContinuity

LEMMA CountKeeps ==
  ASSUME Sequential, IInv, NEW t \in Thread, Count(t)
  PROVE  IInv'
<1> USE DEF IInv
<1> DEFINE sk == keys[Creator]
           sk2 == [sk EXCEPT !.idx = sk.idx + 1]
<1>1. /\ pc[t] = "count" /\ pc' = [pc EXCEPT ![t] = "seal"]
      /\ keys' = [keys EXCEPT ![Creator].idx = loc[t].cnt + 1]
      /\ UNCHANGED <<group, fresh, loc, calls, dists, imported, saved, msgs>>
  BY DEF Count
<1>2. ThreadInv(t) /\ keys \in [Person -> SenderKey \cup {NoKey}]
  BY DEF ThreadsInv, KeysInv
<1>3. /\ sk \in SenderKey /\ sk # NoKey /\ loc[t].cnt = sk.idx
  BY <1>1, <1>2, PersonAssumption DEF ThreadInv
<1>4. /\ sk2 \in SenderKey /\ sk2.chain = sk.chain /\ sk2.step = sk.step
      /\ sk2.idx = sk.idx + 1
  BY <1>3 DEF SenderKey
<1>5. keys' = [keys EXCEPT ![Creator] = sk2]
  BY <1>1, <1>2, <1>3, PersonAssumption
<1> HIDE DEF sk2
<1>6. keys'[Creator] = sk2 /\ keys' \in [Person -> SenderKey \cup {NoKey}] /\ sk2 # NoKey
  BY <1>2, <1>4, <1>5, PersonAssumption, AbsentAssumption
<1>7. KeysInv'
  <2>1. \A p \in Person : keys'[p] # NoKey => keys'[p].chain < fresh'
    BY <1>1, <1>2, <1>3, <1>4, <1>5 DEF KeysInv
  <2> QED
    BY <1>1, <1>3, <1>6, <2>1 DEF KeysInv
<1>8. GroupInv' /\ DistsInv'
  BY <1>1, <1>4, <1>6 DEF GroupInv, DistsInv, Members
<1>9. sk.idx \in Nat /\ \A m \in msgs : m.idx \in Nat /\ m.idx < sk.idx
  BY <1>3 DEF SenderKey, MsgsInv
<1>10. MsgsInv'
  <2>1. \A m \in msgs : m.idx < sk2.idx
    BY <1>4, <1>9
  <2> QED
    BY <1>1, <1>4, <1>6, <2>1 DEF MsgsInv
<1>11. ThreadInv(t)'
  <2>1. pc'[t] = "seal" /\ loc'[t] = loc[t]
    BY <1>1 DEF ThreadsInv
  <2>2. sk2.idx >= 1 /\ \A m \in msgs : m.idx < sk2.idx - 1
    BY <1>4, <1>9
  <2> QED
    BY <1>1, <1>2, <1>4, <1>6, <2>1, <2>2 DEF ThreadInv
<1>12. ThreadsInv'
  BY <1>1, <1>11 DEF ThreadsInv, Sequential
<1> QED
  BY <1>1, <1>7, <1>8, <1>10, <1>12 DEF OnlyMembersRead, MessageKeysUnique, IndexContinuity

LEMMA SealKeeps ==
  ASSUME Sequential, IInv, NEW t \in Thread, Seal(t)
  PROVE  IInv'
<1> USE DEF IInv
<1> DEFINE sk == keys[Creator]
           new == [n |-> Cardinality(msgs), epoch |-> sk.epoch, idx |-> sk.idx - 1,
                   mk |-> loc[t].mk, members |-> Members]
<1>1. /\ pc[t] = "seal" /\ pc' = [pc EXCEPT ![t] = "idle"]
      /\ msgs' = msgs \cup {new}
      /\ saved' = [saved EXCEPT !.keys[Creator] = sk]
      /\ UNCHANGED <<group, keys, fresh, loc, calls, dists, imported>>
  BY DEF Seal
<1>2. ThreadInv(t)
  BY DEF ThreadsInv
<1>3. /\ sk \in SenderKey /\ sk # NoKey /\ sk.chain < fresh /\ sk.idx \in Nat
      /\ sk.idx >= 1 /\ sk.step \in Nat
  BY <1>1, <1>2, PersonAssumption DEF ThreadInv, KeysInv, SenderKey
<1>4. /\ new.n = Cardinality(msgs) /\ new.idx = sk.idx - 1 /\ new.mk = loc[t].mk
      /\ new.members = Members
  OBVIOUS
<1> HIDE DEF new
<1>5. /\ new.mk \in MessageKey /\ new.mk.chain = sk.chain /\ new.mk.step < sk.step
      /\ \A m \in msgs : m.mk.chain = new.mk.chain => m.mk.step < new.mk.step
      /\ \A m \in msgs : m.idx < new.idx
  BY <1>1, <1>2, <1>4 DEF ThreadInv
<1>6. \A m \in msgs : m.mk # new.mk
  <2>1. new.mk.step \in Nat
    BY <1>5 DEF MessageKey
  <2> QED
    BY <1>5, <2>1
<1>7. /\ IsFiniteSet(msgs') /\ Cardinality(msgs) \in Nat
      /\ Cardinality(msgs') = Cardinality(msgs) + 1
  <2>1. new \notin msgs /\ IsFiniteSet(msgs)
    BY <1>6 DEF MsgsInv
  <2> QED
    BY <1>1, <2>1, FS_AddElement, FS_CardinalityType
<1>8. group # NoGroup
  BY <1>3 DEF KeysInv
<1>9. MsgsInv'
  <2> SUFFICES ASSUME NEW m \in msgs'
               PROVE  /\ m.mk \in MessageKey /\ m.idx \in Nat /\ m.n \in Nat
                      /\ m.n < Cardinality(msgs')
                      /\ m.mk.chain < fresh
                      /\ m.mk.chain = sk.chain => m.mk.step < sk.step
                      /\ m.idx < sk.idx
    BY <1>1, <1>7, <1>8 DEF MsgsInv
  <2>1. CASE m \in msgs
    BY <1>7, <2>1 DEF MsgsInv
  <2>2. CASE m = new
    BY <1>3, <1>4, <1>5, <1>7, <2>2
  <2> QED
    BY <1>1, <2>1, <2>2
<1>10. KeysInv'
  <2> DEFINE sv == [saved.keys EXCEPT ![Creator] = sk]
  <2>1. saved' = [group |-> saved.group, keys |-> sv]
    BY <1>1 DEF KeysInv
  <2>2. \A p \in Person : IsKey(sv[p])
    BY <1>3 DEF KeysInv, IsKey
  <2>3. sv = [p \in Person |-> sv[p]]
    BY DEF KeysInv
  <2> HIDE DEF sv
  <2>4. saved'.keys = sv /\ saved' = [group |-> saved'.group, keys |-> saved'.keys]
    BY <2>1
  <2> QED
    BY <1>1, <2>2, <2>3, <2>4 DEF KeysInv, IsKey
<1>11. GroupInv' /\ DistsInv'
  BY <1>1 DEF GroupInv, DistsInv, Members
<1>12. ThreadsInv'
  <2>1. pc'[t] = "idle"
    BY <1>1 DEF ThreadsInv
  <2>2. ThreadInv(t)'
    BY <2>1 DEF ThreadInv
  <2> QED
    BY <1>1, <2>2 DEF ThreadsInv, Sequential
<1>13. OnlyMembersRead'
  <2>1. \A d \in dists : CanDerive(d.sk, new.mk) => d.to \in new.members
    BY <1>4, <1>5 DEF DistsInv, CanDerive
  <2> QED
    BY <1>1, <2>1 DEF OnlyMembersRead, CanDerive
<1>14. MessageKeysUnique'
  BY <1>1, <1>6 DEF MessageKeysUnique
<1>15. IndexContinuity'
  <2> SUFFICES ASSUME NEW m1 \in msgs', NEW m2 \in msgs', m1.n < m2.n
               PROVE  m1.idx < m2.idx
    BY DEF IndexContinuity
  <2>1. m1 \in msgs
    <3> SUFFICES ASSUME m1 = new PROVE FALSE
      BY <1>1
    <3>1. CASE m2 = new
      BY <1>4, <1>7, <3>1
    <3>2. CASE m2 \in msgs
      BY <1>4, <1>7, <3>2 DEF MsgsInv
    <3> QED
      BY <1>1, <3>1, <3>2
  <2> QED
    BY <1>1, <1>5, <2>1 DEF IndexContinuity
<1> QED
  BY <1>9, <1>10, <1>11, <1>12, <1>13, <1>14, <1>15

LEMMA SealFailsKeeps ==
  ASSUME Sequential, IInv, NEW t \in Thread, SealFails(t)
  PROVE  IInv'
<1> USE DEF IInv
<1>1. /\ pc' = [pc EXCEPT ![t] = "idle"]
      /\ UNCHANGED <<group, keys, fresh, loc, calls, dists, imported, saved, msgs>>
  BY DEF SealFails
<1>2. GroupInv' /\ KeysInv' /\ DistsInv' /\ MsgsInv'
  BY <1>1 DEF GroupInv, KeysInv, DistsInv, MsgsInv, Members
<1>3. ThreadsInv'
  <2>1. pc'[t] = "idle"
    BY <1>1 DEF ThreadsInv
  <2>2. ThreadInv(t)'
    BY <2>1 DEF ThreadInv
  <2> QED
    BY <1>1, <2>2 DEF ThreadsInv, Sequential
<1> QED
  BY <1>1, <1>2, <1>3 DEF OnlyMembersRead, MessageKeysUnique, IndexContinuity

LEMMA NextKeeps ==
  ASSUME Sequential
  PROVE  IInv /\ [Next]_vars => IInv'
<1> SUFFICES ASSUME IInv, [Next]_vars PROVE IInv'
  OBVIOUS
<1>1. CASE UNCHANGED vars
  <2>1. imported' \in [Person -> SenderKey \cup {NoKey}]
    BY <1>1 DEF vars, IInv, KeysInv
  <2> QED
    BY <1>1, <2>1, ImportedKeeps DEF vars
<1>2. ASSUME NEW t \in Thread, EncryptGroupMessage(t) PROVE IInv'
  BY <1>2, DeriveKeeps, AdvanceKeeps, LoadKeeps, CountKeeps, SealKeeps, SealFailsKeeps
     DEF EncryptGroupMessage
<1> QED
  BY <1>1, <1>2, CreateGroupKeeps, AddMemberKeeps, RemoveMemberKeeps, DistributeKeeps,
     ImportSenderKeyKeeps, DecryptKeeps DEF Next

-----------------------------------------------------------------------------
(* Theorems *)

\* IInv is an invariant of sequential use.
THEOREM Invariant ==
  ASSUME Sequential
  PROVE  Spec => []IInv
<1>1. IInv /\ [Next]_vars => IInv'
  BY NextKeeps
<1> QED
  BY <1>1, InitHolds, PTL DEF Spec

\* Whoever can derive the key of a message, from any distribution it was ever sent, was
\* a member when the message was sealed: RemoveMember locks the removed member out even
\* when rotateAllSenderKeys fails after the first key, and AddMember gives a new member
\* nothing of the past.
THEOREM ReadersAreMembers ==
  ASSUME Sequential
  PROVE  Spec => []OnlyMembersRead
<1>1. Spec => []IInv
  BY Invariant
<1> QED
  BY <1>1, Implied, PTL

\* No message key, and so no nonce, seals two messages of EncryptGroupMessage.
THEOREM KeysSealOnce ==
  ASSUME Sequential
  PROVE  Spec => []MessageKeysUnique
<1>1. Spec => []IInv
  BY Invariant
<1> QED
  BY <1>1, Implied, PTL

\* The keys of the service, of the members and in storage stay well formed, and the
\* chain index grows from message to message, across rotations too.
THEOREM IndexesContinue ==
  ASSUME Sequential
  PROVE  Spec => []KeysContinue
<1>1. Spec => []IInv
  BY Invariant
<1> QED
  BY <1>1, Implied, PTL

-----------------------------------------------------------------------------
(* Replicas: the inductive invariant *)

\* What TypeOK asks of one state.
WellFormed(s) ==
  /\ s.epoch \in 1 .. MaxReplicaEpoch
  /\ DOMAIN s.members \subseteq Replica
  /\ \A x \in DOMAIN s.members : s.members[x] \in R!Role
  /\ s.by \in Replica /\ s.creator = Founder

\* What LineageAuthorized asks of one state, which is not the initial one.
Successor(s) ==
  /\ s.prev # R!NoHash
  /\ s.by \in R!Admins(Head(s.prev))
  /\ s.epoch = Head(s.prev).epoch + 1

UpdatesSound ==
  \A u \in updates :
    /\ u.prev = u.new.prev /\ u.updater = u.new.by
    /\ WellFormed(u.new) /\ Successor(u.new)

\* A replica holds a published state.  The creator alone holds the initial state,
\* and only until somebody publishes: this is why an update is never applied to a
\* state whose hash ValidateStateUpdate cannot compare.
ReplicasSound ==
  \A p \in Replica :
    state[p] # NoGroup =>
      \/ state[p] \in {u.new : u \in updates}
      \/ state[p] = R!NewGroupState /\ p = Founder /\ updates = {}

ReplicaInv ==
  /\ state = [p \in Replica |-> state[p]]
  /\ UpdatesSound
  /\ ReplicasSound
  /\ R!HashChained

-----------------------------------------------------------------------------
(* Replicas: lemmas *)

\* ResolveSplitBrain of two states keeps the first unless the second is better.
LEMMA ResolveTwo ==
  ASSUME NEW a, NEW b
  PROVE  R!ResolveSplitBrain(<<a, b>>) = IF R!Better(b, a) THEN b ELSE a
<1> DEFINE w == [s \in SUBSET {1} |-> IF s = {} THEN a ELSE IF R!Better(b, a) THEN b ELSE a]
           Is(it) == it = [s \in SUBSET {1} |->
                       IF s = {} THEN a
                       ELSE IF R!Better(<<b>>[R!Max(s)], it[s \ {R!Max(s)}])
                         THEN <<b>>[R!Max(s)] ELSE it[s \ {R!Max(s)}]]
<1>1. Tail(<<a, b>>) = <<b>> /\ <<a, b>>[1] = a /\ DOMAIN <<b>> = {1}
  OBVIOUS
<1>2. R!Max({1}) = 1
  BY DEF R!Max
<1>3. R!ResolveSplitBrain(<<a, b>>) = (CHOOSE it : Is(it))[{1}]
  BY <1>1 DEF R!ResolveSplitBrain, R!FoldLeft, R!MapThenFoldSet
<1>4. ASSUME NEW s \in SUBSET {1}
      PROVE  s = {} \/ (s = {1} /\ R!Max(s) = 1 /\ s \ {R!Max(s)} = {})
  BY <1>2
<1>5. Is(w)
  <2>1. ASSUME NEW s \in SUBSET {1}, s # {}
        PROVE  <<b>>[R!Max(s)] = b /\ w[s \ {R!Max(s)}] = a
    <3>1. s = {1} /\ R!Max(s) = 1 /\ s \ {R!Max(s)} = {}
      BY <1>4, <2>1
    <3> QED
      BY <3>1
  <2> QED
    BY <2>1, Zenon
<1>6. PICK it : Is(it) /\ R!ResolveSplitBrain(<<a, b>>) = it[{1}]
  BY <1>3, <1>5, Zenon
<1> QED
  BY <1>6, <1>2, SMTT(40)

\* A state some replica holds is well formed, and is the initial one or a successor.
LEMMA HeldState ==
  ASSUME ReplicaInv, NEW p \in Replica, state[p] # NoGroup
  PROVE  /\ WellFormed(state[p])
         /\ state[p].prev # R!NoHash => Successor(state[p])
<1>1. CASE state[p] \in {u.new : u \in updates}
  BY <1>1 DEF ReplicaInv, UpdatesSound
<1>2. CASE state[p] = R!NewGroupState
  BY <1>2, ReplicaAssumption DEF R!NewGroupState, WellFormed, R!Role, R!NoHash
<1> QED
  BY <1>1, <1>2 DEF ReplicaInv, ReplicasSound

LEMMA ReplicaImplied == ReplicaInv => R!LineageSound
<1> SUFFICES ASSUME ReplicaInv PROVE R!LineageSound
  OBVIOUS
<1>1. R!TypeOK
  BY HeldState DEF R!TypeOK, WellFormed, ReplicaInv, UpdatesSound
<1>2. R!LineageAuthorized
  BY HeldState DEF R!LineageAuthorized, Successor
<1> QED
  BY <1>1, <1>2 DEF R!LineageSound, ReplicaInv

\* Publishing from a held state, by one of its admins, with well-formed members.
LEMMA PublishKeeps ==
  ASSUME ReplicaInv, NEW p \in Replica, NEW ms, state[p] # NoGroup,
         R!isMemberWithRole(state[p], p),
         DOMAIN ms \subseteq Replica, \A x \in DOMAIN ms : ms[x] \in R!Role,
         R!Publish(p, ms)
  PROVE  ReplicaInv'
<1> DEFINE new == R!nextState(state[p], ms, p)
           upd == [new |-> new, prev |-> new.prev, updater |-> p]
<1>1. WellFormed(state[p])
  BY HeldState
<1>2. /\ state' = [state EXCEPT ![p] = new] /\ new.epoch <= MaxReplicaEpoch
      /\ updates' = updates \cup {upd} /\ applied' = applied
  BY DEF R!Publish
<1>3. /\ new.epoch = state[p].epoch + 1 /\ new.members = ms /\ new.by = p
      /\ new.creator = state[p].creator /\ new.prev = <<state[p]>>
  BY DEF R!nextState, R!ComputeHash
<1>4. WellFormed(new)
  BY <1>1, <1>2, <1>3, ReplicaAssumption DEF WellFormed
<1>5. Successor(new)
  <2>1. Head(new.prev) = state[p] /\ new.prev # R!NoHash
    BY <1>3 DEF R!NoHash
  <2> QED
    BY <2>1, <1>3 DEF Successor, R!isMemberWithRole
<1>6. UpdatesSound'
  <2>1. upd.new = new /\ upd.prev = new.prev /\ upd.updater = new.by
    BY <1>3
  <2> QED
    BY <1>2, <1>4, <1>5, <2>1, Zenon DEF ReplicaInv, UpdatesSound, WellFormed, Successor
<1>7. ReplicasSound'
  <2> SUFFICES ASSUME NEW q \in Replica, state'[q] # NoGroup
               PROVE  state'[q] \in {u.new : u \in updates'}
    BY DEF ReplicasSound
  <2>1. upd \in updates' /\ upd.new = new
    BY <1>2
  <2>2. CASE q = p
    BY <2>1, <2>2, <1>2 DEF ReplicaInv
  <2>3. CASE q # p
    <3>1. state'[q] = state[q]
      BY <2>3, <1>2 DEF ReplicaInv
    <3>2. state[q] = R!NewGroupState /\ q = Founder /\ updates = {} => FALSE
      BY <2>3 DEF ReplicaInv, ReplicasSound
    <3> QED
      BY <3>1, <3>2, <1>2 DEF ReplicaInv, ReplicasSound
  <2> QED
    BY <2>2, <2>3
<1> QED
  BY <1>2, <1>6, <1>7 DEF ReplicaInv, R!HashChained

\* A replica takes over a published state, from an update or from another replica.
LEMMA AdoptKeeps ==
  ASSUME ReplicaInv, NEW p \in Replica, NEW s \in {u.new : u \in updates},
         state' = [state EXCEPT ![p] = s], UNCHANGED updates, R!HashChained'
  PROVE  ReplicaInv'
<1>1. UpdatesSound'
  BY DEF ReplicaInv, UpdatesSound, WellFormed, Successor
<1>2. ReplicasSound'
  BY DEF ReplicaInv, ReplicasSound
<1> QED
  BY <1>1, <1>2 DEF ReplicaInv

LEMMA ReplicaInitHolds == R!Init => ReplicaInv
BY DEF R!Init, ReplicaInv, UpdatesSound, ReplicasSound, R!HashChained

LEMMA ReplicaAddKeeps ==
  ASSUME ReplicaInv, NEW p \in Replica, NEW q \in Replica, NEW role \in R!Role,
         R!AddMember(p, q, role)
  PROVE  ReplicaInv'
<1> DEFINE ms == [x \in DOMAIN state[p].members \cup {q} |->
                    IF x = q THEN role ELSE state[p].members[x]]
<1>1. state[p] # NoGroup /\ R!isMemberWithRole(state[p], p) /\ R!Publish(p, ms)
  BY DEF R!AddMember
<1>2. WellFormed(state[p])
  BY <1>1, HeldState
<1>3. DOMAIN ms \subseteq Replica /\ \A x \in DOMAIN ms : ms[x] \in R!Role
  BY <1>2 DEF WellFormed
<1> HIDE DEF ms
<1> QED
  BY <1>1, <1>3, PublishKeeps

LEMMA ReplicaRemoveKeeps ==
  ASSUME ReplicaInv, NEW p \in Replica, NEW q \in Replica, R!RemoveMember(p, q)
  PROVE  ReplicaInv'
<1> DEFINE ms == R!Restrict(state[p].members, DOMAIN state[p].members \ {q})
<1>1. state[p] # NoGroup /\ R!isMemberWithRole(state[p], p) /\ R!Publish(p, ms)
  BY DEF R!RemoveMember
<1>2. WellFormed(state[p])
  BY <1>1, HeldState
<1>3. DOMAIN ms \subseteq Replica /\ \A x \in DOMAIN ms : ms[x] \in R!Role
  BY <1>2 DEF WellFormed, R!Restrict
<1> HIDE DEF ms
<1> QED
  BY <1>1, <1>3, PublishKeeps

\* ValidateStateUpdate has compared the hashes: neither is empty.
LEMMA ApplyKeeps ==
  ASSUME ReplicaInv, NEW p \in Replica, NEW u \in updates, R!Apply(p, u)
  PROVE  ReplicaInv'
<1>1. Successor(u.new) /\ u.prev = u.new.prev
  BY DEF ReplicaInv, UpdatesSound
<1>2. state[p].prev # R!NoHash
  <2>1. state[p] \in {w.new : w \in updates}
    BY DEF ReplicaInv, ReplicasSound, R!Apply
  <2> QED
    BY <2>1 DEF ReplicaInv, UpdatesSound, Successor
<1>3. u.new.prev = R!ComputeHash(state[p])
  BY <1>1, <1>2 DEF R!Apply, R!ValidateStateUpdate, R!HashAccepted, Successor
<1>4. R!HashChained'
  <2>1. applied' = applied \cup {[by |-> p, from |-> state[p], to |-> u.new]}
    BY DEF R!Apply
  <2> QED
    BY <2>1, <1>3 DEF ReplicaInv, R!HashChained, R!ComputeHash
<1> QED
  BY <1>4, AdoptKeeps DEF R!Apply

LEMMA JoinKeeps ==
  ASSUME ReplicaInv, NEW p \in Replica, NEW u \in updates, R!Join(p, u)
  PROVE  ReplicaInv'
BY AdoptKeeps DEF R!Join, ReplicaInv, R!HashChained

\* Resolving only ever moves a replica to a state of a later epoch.
LEMMA ResolveAdopts ==
  ASSUME ReplicaInv, NEW p \in Replica, NEW q \in Replica, R!Resolve(p, q)
  PROVE  /\ state' = [state EXCEPT ![p] = state[q]]
         /\ state[q] # NoGroup /\ state[q].epoch > state[p].epoch
<1>1. state[p] # NoGroup /\ state[q] # NoGroup
  BY DEF R!Resolve
<1>2. WellFormed(state[p]) /\ WellFormed(state[q])
  BY <1>1, HeldState
<1>3. state' = [state EXCEPT ![p] = IF R!Better(state[q], state[p]) THEN state[q] ELSE state[p]]
  BY ResolveTwo DEF R!Resolve
<1>4. R!Better(state[q], state[p])
  <2> SUFFICES ASSUME ~R!Better(state[q], state[p]) PROVE FALSE
    OBVIOUS
  <2>1. state' = [state EXCEPT ![p] = state[p]]
    BY <1>3
  <2>2. state' # state
    BY DEF R!Resolve
  <2> QED
    BY <2>1, <2>2 DEF ReplicaInv
<1>5. Founder \in Nat
  BY ReplicaAssumption
<1>6. state[q].epoch > state[p].epoch
  BY <1>2, <1>4, <1>5 DEF R!Better, WellFormed
<1> QED
  BY <1>1, <1>3, <1>4, <1>6

LEMMA ResolveKeeps ==
  ASSUME ReplicaInv, NEW p \in Replica, NEW q \in Replica, R!Resolve(p, q)
  PROVE  ReplicaInv'
<1>1. state[p] # NoGroup /\ state[q] # NoGroup /\ UNCHANGED <<updates, applied>>
  BY DEF R!Resolve
<1>2. state' = [state EXCEPT ![p] = state[q]] /\ state[q].epoch > state[p].epoch
  BY ResolveAdopts
<1>3. state[q] \in {u.new : u \in updates}
  <2> SUFFICES ASSUME state[q] = R!NewGroupState, updates = {} PROVE FALSE
    BY <1>1 DEF ReplicaInv, ReplicasSound
  <2>1. state[p] = R!NewGroupState
    BY <1>1 DEF ReplicaInv, ReplicasSound
  <2> QED
    BY <2>1 DEF R!Resolve
<1> QED
  BY <1>1, <1>2, <1>3, AdoptKeeps DEF ReplicaInv, R!HashChained

LEMMA ReplicaNextKeeps == ReplicaInv /\ [R!Next]_R!vars => ReplicaInv'
<1> SUFFICES ASSUME ReplicaInv, [R!Next]_R!vars PROVE ReplicaInv'
  OBVIOUS
<1>1. CASE UNCHANGED R!vars
  BY <1>1 DEF R!vars, ReplicaInv, UpdatesSound, ReplicasSound, R!HashChained, WellFormed, Successor
<1> QED
  BY <1>1, ReplicaAddKeeps, ReplicaRemoveKeeps, ResolveKeeps, ApplyKeeps, JoinKeeps DEF R!Next

-----------------------------------------------------------------------------
(* Replicas: theorems *)

\* ReplicaInv is an invariant of every replica's history.
THEOREM ReplicaInvariant == R!Spec => []ReplicaInv
BY ReplicaInitHolds, ReplicaNextKeeps, PTL DEF R!Spec

\* In every reachable state each replica's group state is well formed, was made by an
\* admin or owner of the state before it, one epoch later, and every update that
\* ValidateStateUpdate accepted succeeds the very state it was applied to.
THEOREM Lineage == R!Spec => []LineageSound
BY ReplicaInvariant, ReplicaImplied, PTL DEF LineageSound

LEMMA EpochGrows ==
  ASSUME ReplicaInv, [R!Next]_R!vars, NEW p \in Replica, state[p] # NoGroup
  PROVE  state'[p].epoch >= state[p].epoch
<1>0. state[p].epoch \in Nat
  BY HeldState DEF WellFormed
<1>1. CASE UNCHANGED state
  BY <1>0, <1>1
<1>2. ASSUME NEW r \in Replica, NEW ms, R!Publish(r, ms)
      PROVE  state'[p].epoch >= state[p].epoch
  BY <1>0, <1>2 DEF R!Publish, R!nextState, ReplicaInv
<1>3. ASSUME NEW r \in Replica, NEW q \in Replica, R!Resolve(r, q)
      PROVE  state'[p].epoch >= state[p].epoch
  <2>1. state' = [state EXCEPT ![r] = state[q]] /\ state[q].epoch > state[r].epoch
        /\ state[q].epoch \in Nat
    BY <1>3, ResolveAdopts, HeldState DEF WellFormed
  <2> QED
    BY <1>0, <2>1 DEF ReplicaInv
<1>4. ASSUME NEW r \in Replica, NEW u \in updates, R!Apply(r, u)
      PROVE  state'[p].epoch >= state[p].epoch
  <2>1. state' = [state EXCEPT ![r] = u.new] /\ u.new.epoch > state[r].epoch
        /\ u.new.epoch \in Nat
    BY <1>4 DEF R!Apply, R!ValidateStateUpdate, R!EpochAccepted, ReplicaInv, UpdatesSound, WellFormed
  <2> QED
    BY <1>0, <2>1 DEF ReplicaInv
<1>5. ASSUME NEW r \in Replica, NEW u \in updates, R!Join(r, u)
      PROVE  state'[p].epoch >= state[p].epoch
  BY <1>0, <1>5 DEF R!Join, ReplicaInv
<1> QED
  BY <1>1, <1>2, <1>3, <1>4, <1>5 DEF R!Next, R!vars, R!AddMember, R!RemoveMember

\* No step of any replica, be it a change of its own, a late update or a split-brain
\* resolution, takes its group back to an earlier epoch.
THEOREM EpochsGrow == R!Spec => EpochsNeverDecrease
<1>1. ReplicaInv /\ [R!Next]_R!vars =>
        [\A p \in Replica : state[p] # NoGroup => state'[p].epoch >= state[p].epoch]_R!vars
  BY EpochGrows
<1> QED
  BY <1>1, ReplicaInvariant, PTL DEF R!Spec, EpochsNeverDecrease, R!EpochsNeverDecrease
=============================================================================
