----------------------------- MODULE SenderKeys -----------------------------
(***************************************************************************)
(* Private-group encryption with sender keys (pkg/groups/service.go and    *)
(* the SenderKey type of pkg/groups/state.go).                             *)
(*                                                                         *)
(* The group lives in the Service of its creator, the only one whose cache *)
(* ever holds it.  AddMember and RemoveMember hold the service's write     *)
(* lock; EncryptGroupMessage holds only the read lock although it advances *)
(* the sender key, so goroutines that encrypt interleave at every access   *)
(* to it.  The members receive the creator's sender key over pairwise      *)
(* channels that may delay, reorder and repeat it (external), import it    *)
(* and decrypt.                                                            *)
(*                                                                         *)
(* A chain key is a chain, named by a number, and the steps taken along    *)
(* it; a message key is the chain key and the index hashed with it.  Only  *)
(* who holds a chain key at or before that step can derive it.             *)
(***************************************************************************)
EXTENDS Integers, Sequences, FiniteSets, SequencesExt

CONSTANTS
  Person, Creator,
  Thread,          \* the creator's goroutines that call EncryptGroupMessage
  NoGroup, NoKey,  \* an absent map entry
  MaxEpoch,        \* bound on the group's epoch
  MaxMessages      \* bound on calls of EncryptGroupMessage

ASSUME PersonAssumption == Creator \in Person /\ IsFiniteSet(Person)
ASSUME BoundAssumption == MaxEpoch \in Nat \ {0} /\ MaxMessages \in Nat

VARIABLES
  group,    \* s.groups: epoch and member list
  keys,     \* s.senderKeys of the group: person to SenderKey or NoKey
  fresh,    \* the next chain GenerateSenderKey makes
  pc, loc,  \* control point and locals of each encrypting goroutine
  calls,    \* calls of EncryptGroupMessage so far
  dists,    \* distribution messages sent, each with its addressee
  imported, \* imported[p]: the creator's SenderKey as p's service holds it
  saved,    \* what storage holds: the group and the sender keys
  msgs      \* history: messages sealed, with the members at that time

vars == <<group, keys, fresh, pc, loc, calls, dists, imported, saved, msgs>>

SenderKey == [chain : Nat, step : Nat, idx : Nat, epoch : Nat]
MessageKey == [chain : Nat, step : Nat, idx : Nat]
Group == [epoch : Nat, members : Seq(Person)]

ASSUME AbsentAssumption == NoKey \notin SenderKey /\ NoGroup \notin Group

\* GenerateSenderKey: a new chain at index 0 and epoch 1.
GenerateSenderKey(c) == [chain |-> c, step |-> 0, idx |-> 0, epoch |-> 1]

\* Mutant of DeriveMessageKey: always the first key of the chain.
MutantDeriveMessageKey(sk) == [chain |-> sk.chain, step |-> 0, idx |-> 0]

\* DeriveMessageKey hashes the chain key with the chain index.
DeriveMessageKey(sk) == [chain |-> sk.chain, step |-> sk.step, idx |-> sk.idx]

Members == {group.members[i] : i \in DOMAIN group.members}

\* s.mu: a writer waits for every goroutine that holds the read lock.
WriteLock == \A t \in Thread : pc[t] = "idle"

-----------------------------------------------------------------------------
(* The group *)

Init ==
  /\ group = NoGroup
  /\ keys = [p \in Person |-> NoKey]
  /\ fresh = 0
  /\ pc = [t \in Thread |-> "idle"]
  /\ loc = [t \in Thread |-> NoKey]
  /\ calls = 0
  /\ dists = {}
  /\ imported = [p \in Person |-> NoKey]
  /\ saved = [group |-> NoGroup, keys |-> keys]
  /\ msgs = {}

NewGroupState == [epoch |-> 1, members |-> <<Creator>>]

CreateGroup ==
  /\ WriteLock /\ group = NoGroup
  /\ group' = NewGroupState
  /\ keys' = [keys EXCEPT ![Creator] = GenerateSenderKey(fresh)]
  /\ fresh' = fresh + 1
  /\ saved' = [group |-> group', keys |-> keys']
  /\ UNCHANGED <<pc, loc, calls, dists, imported, msgs>>

\* isMemberWithRole(s.identitySignPub, Admin or Owner): the creator is the owner
\* for as long as it is a member.
Authorized == group # NoGroup /\ Creator \in Members

\* Mutant of AddMember: somebody who is already a member is added again.
MutantAddMember(p) ==
  /\ WriteLock /\ Authorized
  /\ group.epoch < MaxEpoch
  /\ group' = [epoch |-> group.epoch + 1, members |-> Append(group.members, p)]
  /\ saved' = [saved EXCEPT !.group = group']
  /\ UNCHANGED <<keys, fresh, pc, loc, calls, dists, imported, msgs>>

AddMember(p) ==
  /\ WriteLock /\ Authorized /\ p \notin Members
  /\ group.epoch < MaxEpoch
  /\ group' = [epoch |-> group.epoch + 1, members |-> Append(group.members, p)]
  /\ saved' = [saved EXCEPT !.group = group']
  /\ UNCHANGED <<keys, fresh, pc, loc, calls, dists, imported, msgs>>

\* Mutant of rotatedKey: continuity is kept by keeping the chain.
MutantRotatedKey(old, c, e) ==
  IF old = NoKey THEN [GenerateSenderKey(c) EXCEPT !.epoch = e]
  ELSE [old EXCEPT !.epoch = e]

\* Mutant of rotatedKey: the index starts anew.
MutantRotatedIndex(old, c, e) == [GenerateSenderKey(c) EXCEPT !.epoch = e]

\* The rotated key of one member: a new chain that continues the old index.
rotatedKey(old, c, e) ==
  [GenerateSenderKey(c) EXCEPT !.epoch = e, !.idx = IF old = NoKey THEN @ ELSE old.idx]

\* rotateAllSenderKeys over the first k members of the new state.
rotateAllSenderKeys(g, k) ==
  [p \in Person |->
    IF \E i \in 1 .. k : g.members[i] = p
      THEN rotatedKey(keys[p], fresh + (CHOOSE i \in 1 .. k : g.members[i] = p) - 1, g.epoch)
      ELSE keys[p]]

\* RemoveMember of anybody, a member or not.  Rotation stops after k members when
\* storing the key of the k-th fails: the call reports an error, the removal stands.
RemoveMember(p) ==
  /\ WriteLock /\ Authorized
  /\ group.epoch < MaxEpoch
  /\ LET rest == RemoveFirst(group.members, p)   \* nobody is listed twice
         g    == [epoch |-> group.epoch + 1, members |-> rest]
     IN  /\ group' = g
         /\ \E k \in 0 .. Len(rest), stored \in BOOLEAN :
              /\ stored => k = Len(rest)
              /\ ~stored => k > 0
              /\ keys' = rotateAllSenderKeys(g, k)
              /\ fresh' = fresh + k
              /\ saved' = [group |-> g,
                           keys  |-> rotateAllSenderKeys(g, IF stored THEN k ELSE k - 1)]
  /\ UNCHANGED <<pc, loc, calls, dists, imported, msgs>>

-----------------------------------------------------------------------------
(* EncryptGroupMessage, one step per access to the shared sender key *)

\* DeriveMessageKey has read the chain key and the index.
Derive(t) ==
  /\ pc[t] = "idle" /\ keys[Creator] # NoKey /\ calls < MaxMessages
  /\ loc' = [loc EXCEPT ![t] = [mk |-> DeriveMessageKey(keys[Creator]), cnt |-> 0]]
  /\ pc' = [pc EXCEPT ![t] = "advance"]
  /\ calls' = calls + 1
  /\ UNCHANGED <<group, keys, fresh, dists, imported, saved, msgs>>

\* The chain key that replaces the one the message key was derived from.
advancedStep(mk) == mk.step + 1

Advance(t) ==
  /\ pc[t] = "advance"
  /\ keys' = [keys EXCEPT ![Creator].step = advancedStep(loc[t].mk)]
  /\ pc' = [pc EXCEPT ![t] = "load"]
  /\ UNCHANGED <<group, fresh, loc, calls, dists, imported, saved, msgs>>

\* sk.ChainIndex++ reads, then writes.
Load(t) ==
  /\ pc[t] = "load"
  /\ loc' = [loc EXCEPT ![t].cnt = keys[Creator].idx]
  /\ pc' = [pc EXCEPT ![t] = "count"]
  /\ UNCHANGED <<group, keys, fresh, calls, dists, imported, saved, msgs>>

Count(t) ==
  /\ pc[t] = "count"
  /\ keys' = [keys EXCEPT ![Creator].idx = loc[t].cnt + 1]
  /\ pc' = [pc EXCEPT ![t] = "seal"]
  /\ UNCHANGED <<group, fresh, loc, calls, dists, imported, saved, msgs>>

\* The ciphertext is sealed and signed and the key saved; the payload takes its
\* epoch and index from the key as it is by then.
Seal(t) ==
  /\ pc[t] = "seal"
  /\ msgs' = msgs \cup
       {[n |-> Cardinality(msgs), epoch |-> keys[Creator].epoch,
         idx |-> keys[Creator].idx - 1, mk |-> loc[t].mk, members |-> Members]}
  /\ saved' = [saved EXCEPT !.keys[Creator] = keys[Creator]]
  /\ pc' = [pc EXCEPT ![t] = "idle"]
  /\ UNCHANGED <<group, keys, fresh, loc, calls, dists, imported>>

\* Saving the key fails: the ciphertext is dropped, the chain stays advanced.
SealFails(t) ==
  /\ pc[t] = "seal"
  /\ pc' = [pc EXCEPT ![t] = "idle"]
  /\ UNCHANGED <<group, keys, fresh, loc, calls, dists, imported, saved, msgs>>

EncryptGroupMessage(t) ==
  Derive(t) \/ Advance(t) \/ Load(t) \/ Count(t) \/ Seal(t) \/ SealFails(t)

-----------------------------------------------------------------------------
(* Distribution, import and decryption *)

\* GetSenderKeyDistributionMessage, sent to p over the pairwise channel.  It looks
\* at no membership: that the application asks for members only is in Next.
Distribute(p) ==
  /\ group # NoGroup
  /\ dists' = dists \cup {[to |-> p, sk |-> keys[Creator]]}
  /\ dists' # dists
  /\ UNCHANGED <<group, keys, fresh, pc, loc, calls, imported, saved, msgs>>

\* ImportSenderKey overwrites whatever was there, an older key over a newer included.
ImportSenderKey(d) ==
  /\ imported[d.to] # d.sk
  /\ imported' = [imported EXCEPT ![d.to] = d.sk]
  /\ UNCHANGED <<group, keys, fresh, pc, loc, calls, dists, saved, msgs>>

\* DecryptGroupMessage once epoch and index have been accepted: the chain is
\* advanced past the message, whether or not the ciphertext then opens.
DecryptGroupMessage(p, m) ==
  LET sk == imported[p] IN
  /\ sk # NoKey /\ m.epoch = sk.epoch /\ m.idx >= sk.idx
  /\ imported' = [imported EXCEPT ![p] =
       [sk EXCEPT !.step = @ + (m.idx + 1 - sk.idx), !.idx = m.idx + 1]]
  /\ UNCHANGED <<group, keys, fresh, pc, loc, calls, dists, saved, msgs>>

Next ==
  \/ CreateGroup
  \/ \E p \in Person : AddMember(p) \/ RemoveMember(p)
  \/ \E p \in Person : group # NoGroup /\ p \in Members \ {Creator} /\ Distribute(p)
  \/ \E t \in Thread : EncryptGroupMessage(t)
  \/ \E d \in dists : ImportSenderKey(d)
  \/ \E p \in Person, m \in msgs : DecryptGroupMessage(p, m)

Spec == Init /\ [][Next]_vars

-----------------------------------------------------------------------------
(* Properties *)

IsKey(k) == k = NoKey \/ k \in SenderKey

\* Type correctness of the service's caches, the goroutines and what was sent.
TypeOK ==
  /\ group # NoGroup => group.epoch \in 1 .. MaxEpoch /\ Members \subseteq Person
                          /\ Len(group.members) = Cardinality(Members)
  /\ \A p \in Person : IsKey(keys[p]) /\ IsKey(imported[p]) /\ IsKey(saved.keys[p])
  /\ fresh \in Nat
  /\ \A t \in Thread : pc[t] \in {"idle", "advance", "load", "count", "seal"}
  /\ \A t \in Thread : pc[t] # "idle" => loc[t].mk \in MessageKey /\ loc[t].cnt \in Nat
  /\ \A d \in dists : d.to \in Person /\ d.sk \in SenderKey
  /\ \A m \in msgs : m.idx \in Nat /\ m.mk \in MessageKey

\* Whoever holds sender key sk can compute message key mk.
CanDerive(sk, mk) == sk.chain = mk.chain /\ sk.step <= mk.step

\* Who can derive the key of a message, from any distribution ever received, was a
\* member when it was sealed: a removed member reads nothing that comes later, even
\* when rotateAllSenderKeys fails half way, and a new member nothing that came before.
OnlyMembersRead ==
  \A m \in msgs, d \in dists : CanDerive(d.sk, m.mk) => d.to \in m.members

\* No message key, and hence no nonce (which EncryptGroupMessage derives from it
\* alone), ever seals two messages.
MessageKeysUnique == \A m1, m2 \in msgs : m1.mk = m2.mk => m1 = m2

\* Chain indexes grow from message to message, across rotations too: the
\* "chain index continuity" that rotateAllSenderKeys preserves.
IndexContinuity == \A m1, m2 \in msgs : m1.n < m2.n => m1.idx < m2.idx

\* The keys stay well formed and their indexes go on through every change of
\* membership, those that fail half way too (AddMember, rotateAllSenderKeys).
KeysContinue == TypeOK /\ IndexContinuity
=============================================================================
