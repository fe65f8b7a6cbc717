------------------------------ MODULE MCGroups ------------------------------
(* Private groups for TLC: the sender keys of SenderKeys or the replicas   *)
(* of GroupStates, which share no state.                                   *)
EXTENDS SenderKeys

CONSTANTS Parts,             \* what a behaviour may show: "keys", "replicas"
          Replica, Founder,  \* the people of the replicated group, and its creator
          MaxReplicaEpoch,   \* MaxEpoch of GroupStates
          MaxUpdates         \* as in GroupStates

\* Public keys are ordered.
ASSUME ReplicaAssumption ==
  /\ Founder \in Replica /\ Replica \subseteq Nat
  /\ MaxReplicaEpoch \in Nat \ {0} /\ MaxUpdates \in Nat

VARIABLES part, state, updates, applied

replicaVars == <<state, updates, applied>>

R == INSTANCE GroupStates WITH
       Person <- Replica, Creator <- Founder, MaxEpoch <- MaxReplicaEpoch

GroupInit == part \in Parts /\ Init /\ R!Init

GroupNext ==
  /\ UNCHANGED part
  /\ \/ part = "keys" /\ Next /\ UNCHANGED replicaVars
     \/ part = "replicas" /\ R!Next /\ UNCHANGED vars

GroupSpec == GroupInit /\ [][GroupNext]_<<part, vars, replicaVars>>

\* GroupStates!LineageSound: the states of a replica form one authorised,
\* hash-chained lineage (ValidateStateUpdate, ResolveSplitBrain).
LineageSound == R!LineageSound
\* GroupStates!EpochsNeverDecrease: no step takes a replica back to an earlier
\* epoch (epochs select sender keys).
EpochsNeverDecrease == R!EpochsNeverDecrease
=============================================================================
