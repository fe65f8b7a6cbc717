---------------------------- MODULE GroupStates ----------------------------
(***************************************************************************)
(* The replicated membership of a private group: the signed, hash-chained  *)
(* GroupState of pkg/groups/state.go with ValidateStateUpdate and          *)
(* ResolveSplitBrain, changed by Service.AddMember and                     *)
(* Service.RemoveMember of pkg/groups/service.go.                          *)
(*                                                                         *)
(* Several administrators change the group concurrently, each in its own   *)
(* replica.  Updates are published and reach the other replicas late, out  *)
(* of order, several times or never (external).  A hash is the state it    *)
(* was computed from, and a signature is the name of the signer.           *)
(***************************************************************************)
EXTENDS Integers, Sequences, FiniteSets, SequencesExt

CONSTANTS
  Person,           \* public keys, ordered
  Creator,
  NoGroup,
  MaxEpoch,         \* bound on epochs
  MaxUpdates        \* bound on published updates

VARIABLES
  state,     \* state[p]: the GroupState replica p holds
  updates,   \* every GroupStateUpdate published so far
  applied    \* history: the replica, old state and update of each accepted update

vars == <<state, updates, applied>>

Role == {"member", "admin", "owner"}
Admins(s) == {p \in DOMAIN s.members : s.members[p] \in {"admin", "owner"}}

\* PreviousStateHash: empty for the initial state, else the state it is the hash of.
NoHash == <<>>

ComputeHash(s) == <<s>>

NewGroupState ==
  [epoch |-> 1, members |-> [p \in {Creator} |-> "owner"], creator |-> Creator,
   prev |-> NoHash, by |-> Creator]

Init ==
  /\ state = [p \in Person |-> IF p = Creator THEN NewGroupState ELSE NoGroup]
  /\ updates = {}
  /\ applied = {}

\* The successor of state s with members ms, signed by p.
nextState(s, ms, p) ==
  [epoch |-> s.epoch + 1, members |-> ms, creator |-> s.creator,
   prev |-> ComputeHash(s), by |-> p]

\* Mutant of isMemberWithRole: any member may change the group.
MutantMemberWithRole(s, p) == p \in DOMAIN s.members

isMemberWithRole(s, p) == p \in Admins(s)

Publish(p, ms) ==
  LET new == nextState(state[p], ms, p) IN
  /\ Cardinality(updates) < MaxUpdates /\ new.epoch <= MaxEpoch
  /\ state' = [state EXCEPT ![p] = new]
  /\ updates' = updates \cup {[new |-> new, prev |-> new.prev, updater |-> p]}
  /\ UNCHANGED applied

\* Service.AddMember: no limit on the number of members, nor on the role given.
AddMember(p, q, role) ==
  /\ state[p] # NoGroup /\ isMemberWithRole(state[p], p)
  /\ q \notin DOMAIN state[p].members
  /\ Publish(p, [x \in DOMAIN state[p].members \cup {q} |->
                   IF x = q THEN role ELSE state[p].members[x]])

\* Mutant of RemoveMember: the member stays, without a role.
MutantRemoveMember(p, q) ==
  /\ state[p] # NoGroup /\ isMemberWithRole(state[p], p) /\ q \in DOMAIN state[p].members
  /\ Publish(p, [state[p].members EXCEPT ![q] = "none"])

\* Service.RemoveMember: of anybody, the creator and the caller included.
RemoveMember(p, q) ==
  /\ state[p] # NoGroup /\ isMemberWithRole(state[p], p)
  /\ Publish(p, Restrict(state[p].members, DOMAIN state[p].members \ {q}))

\* Mutant of HashAccepted: the hashes are not compared.
MutantHashAccepted(u, s) == TRUE

\* ValidateStateUpdate.  The hashes are compared only when both are present, so
\* never against the initial state.
HashAccepted(u, s) ==
  u.prev # NoHash /\ s.prev # NoHash => u.prev = ComputeHash(s)

EpochAccepted(u, s) == u.new.epoch > s.epoch

ValidateStateUpdate(u, s) ==
  /\ HashAccepted(u, s)
  /\ EpochAccepted(u, s)
  /\ u.updater \in Admins(s)
  /\ u.new.by = u.updater

\* A replica receives an update.
Apply(p, u) ==
  /\ state[p] # NoGroup
  /\ ValidateStateUpdate(u, state[p])
  /\ state' = [state EXCEPT ![p] = u.new]
  /\ applied' = applied \cup {[by |-> p, from |-> state[p], to |-> u.new]}
  /\ UNCHANGED updates

\* A new member is given the group state over its pairwise channel.
Join(p, u) ==
  /\ state[p] = NoGroup /\ p \in DOMAIN u.new.members
  /\ state' = [state EXCEPT ![p] = u.new]
  /\ UNCHANGED <<updates, applied>>

\* Mutant of Better: the creator key decides before the epoch.
MutantBetter(s, best) == s.creator <= best.creator

\* ResolveSplitBrain: the highest epoch, then the lower creator key, then whatever
\* comes first in the list.
Better(s, best) ==
  s.epoch > best.epoch \/ (s.epoch = best.epoch /\ s.creator < best.creator)

ResolveSplitBrain(states) ==
  FoldLeft(LAMBDA best, s : IF Better(s, best) THEN s ELSE best, states[1], Tail(states))

\* Replica p finds out that q holds another state.
Resolve(p, q) ==
  /\ state[p] # NoGroup /\ state[q] # NoGroup /\ state[p] # state[q]
  /\ state' = [state EXCEPT ![p] = ResolveSplitBrain(<<state[p], state[q]>>)]
  /\ state' # state
  /\ UNCHANGED <<updates, applied>>

Next ==
  \/ \E p, q \in Person : RemoveMember(p, q) \/ Resolve(p, q)
                            \/ \E role \in Role : AddMember(p, q, role)
  \/ \E p \in Person, u \in updates : Apply(p, u) \/ Join(p, u)

Spec == Init /\ [][Next]_vars

-----------------------------------------------------------------------------
(* Properties *)

\* Type correctness of the replicas and of what was published.
TypeOK ==
  \A s \in {state[p] : p \in Person} \cup {u.new : u \in updates} :
    s # NoGroup =>
      /\ s.epoch \in 1 .. MaxEpoch
      /\ DOMAIN s.members \subseteq Person
      /\ \A x \in DOMAIN s.members : s.members[x] \in Role
      /\ s.by \in Person /\ s.creator = Creator

\* The epoch of a replica never goes back, whatever mixture of own changes, late
\* updates and split-brain resolutions it goes through (epochs select sender keys).
EpochsNeverDecrease ==
  [][\A p \in Person : state[p] # NoGroup => state'[p].epoch >= state[p].epoch]_vars

\* Every state a replica holds was made by somebody who was admin or owner in the
\* state before it, and is exactly one epoch later.
LineageAuthorized ==
  \A p \in Person :
    state[p] # NoGroup /\ state[p].prev # NoHash =>
      /\ state[p].by \in Admins(Head(state[p].prev))
      /\ state[p].epoch = Head(state[p].prev).epoch + 1

\* An accepted update succeeds the very state the replica was in, although
\* ValidateStateUpdate compares no hashes while a replica holds the initial state:
\* concurrent or skipped updates are never applied on the wrong state.
HashChained == \A a \in applied : a.to.prev = ComputeHash(a.from)

\* The states of a replica form one authorised, hash-chained lineage
\* (ValidateStateUpdate, ResolveSplitBrain).
LineageSound == TypeOK /\ LineageAuthorized /\ HashChained
=============================================================================
