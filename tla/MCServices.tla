---------------------------- MODULE MCServices ------------------------------
(* Services that share no state, for TLC: a behaviour is one of Channels,  *)
(* PublicGroups, GroupCalls, Identity, History, DeviceSync, Fanout or      *)
(* Codecs.                                                                 *)
EXTENDS Integers, Sequences, FiniteSets

CONSTANTS Channel, Subscriber, MaxPosts, MaxClock, MaxOps,
          Member, Creator, Reader, Limit, Window, Durations, Word, Start, MaxNow, MaxCalls,
          Call, Group, Ident, Self, MinSFU, MaxParticipants, Thread, MaxCallOps,
          Device, First, Day, SPKRotation, SPKOverlap, CheckEvery, SequenceWord, MaxDocs, MaxDays,
          User, Stranger, MaxSent, MaxSeconds, MaxAdds, MaxCopies,
          Contact, Asker, Main, PayloadSizes, MaxHandled,
          Recipient, SymmetricFrom, MaxSends,
          Name, Payload, MaxLines

VARIABLES
  part,
  channels, posts, subscribers, stored, storedPosts, posting, used, time, ops,
  members, banned, storedMembers, epoch, muted, rateLimits, reading, groupAlive, now, modCalls,
  allowed, granted, readmitted,
  calls, session, subscriptions, closed, job, elections, callOps, stopped, alive,
  day, certs, prekey, checked, docs, dht, known,
  second, contacts, adds, network, db, kept,
  vectorClock, syncThread, begun, sent, request, results, log,
  sessions, symKey, fanThread, made, sends, failed, gone,
  offer, answer, selected, read

channelVars == <<channels, posts, subscribers, stored, storedPosts, posting, used, time, ops>>
groupVars == <<members, banned, storedMembers, epoch, muted, rateLimits, reading, groupAlive,
               now, modCalls, allowed, granted, readmitted>>
callVars == <<calls, session, subscriptions, closed, job, elections, callOps, stopped, alive>>
identityVars == <<day, certs, prekey, checked, docs, dht, known>>
historyVars == <<second, contacts, adds, network, db, kept>>
syncVars == <<vectorClock, syncThread, begun, sent, request, results, log>>
fanoutVars == <<sessions, symKey, fanThread, made, sends, failed, gone>>
codecVars == <<offer, answer, selected, read>>
vars == <<part, channelVars, groupVars, callVars, identityVars, historyVars, syncVars, fanoutVars,
          codecVars>>

C == INSTANCE Channels
P == INSTANCE PublicGroups WITH alive <- groupAlive, calls <- modCalls
G == INSTANCE GroupCalls WITH ops <- callOps, MaxOps <- MaxCallOps
I == INSTANCE Identity WITH now <- day, Party <- Device, Word <- SequenceWord, MaxNow <- MaxDays
H == INSTANCE History WITH now <- second, MaxNow <- MaxSeconds
S == INSTANCE DeviceSync WITH thread <- syncThread
F == INSTANCE Fanout WITH Device <- Recipient, thread <- fanThread
K == INSTANCE Codecs

\* Zero stands for no group.
ASSUME GroupAssumption == 0 \notin Group
\* There are finitely many goroutines, and devices of a recipient.
ASSUME FanoutAssumption == IsFiniteSet(Thread) /\ IsFiniteSet(Recipient)
\* The goroutine of the devices that have one is a goroutine; zero stands for no
\* contact.
ASSUME SyncAssumption == Main \in Thread /\ 0 \notin Contact
\* Times and durations are unsigned; the window is shorter than the time since
\* 1970, which is far from the end of its word.
ASSUME ModerationAssumption ==
  /\ Start \in Nat /\ MaxNow \in Nat /\ Word \in Nat \ {0} /\ Durations \subseteq Nat
  /\ Limit \in Nat /\ Window \in Nat /\ Window <= Start /\ Start <= MaxNow /\ MaxNow < Word
\* The application looks after its prekeys once in an overlap, and in a rotation.
ASSUME PrekeyAssumption ==
  /\ CheckEvery \in Nat /\ SPKOverlap \in Nat /\ SPKRotation \in Nat
  /\ CheckEvery <= SPKOverlap /\ CheckEvery <= SPKRotation
\* Time is counted, and sequence numbers have at least one bit.
ASSUME DocumentAssumption == Day \in Nat /\ SequenceWord \in Nat /\ SequenceWord > 1

Init ==
  /\ part \in {"channels", "groups", "calls", "identity", "history", "sync", "fanout", "codecs"}
  /\ C!Init /\ P!Init /\ G!Init /\ I!Init /\ H!Init /\ S!Init /\ F!Init /\ K!Init

Next ==
  /\ UNCHANGED part
  /\ \/ part = "channels" /\ C!Next
        /\ UNCHANGED <<groupVars, callVars, identityVars, historyVars, syncVars, fanoutVars, codecVars>>
     \/ part = "groups" /\ P!Next
        /\ UNCHANGED <<channelVars, callVars, identityVars, historyVars, syncVars, fanoutVars, codecVars>>
     \/ part = "calls" /\ G!Next
        /\ UNCHANGED <<channelVars, groupVars, identityVars, historyVars, syncVars, fanoutVars, codecVars>>
     \/ part = "identity" /\ I!Next
        /\ UNCHANGED <<channelVars, groupVars, callVars, historyVars, syncVars, fanoutVars, codecVars>>
     \/ part = "history" /\ H!Next
        /\ UNCHANGED <<channelVars, groupVars, callVars, identityVars, syncVars, fanoutVars, codecVars>>
     \/ part = "sync" /\ S!Next
        /\ UNCHANGED <<channelVars, groupVars, callVars, identityVars, historyVars, fanoutVars, codecVars>>
     \/ part = "fanout" /\ F!Next
        /\ UNCHANGED <<channelVars, groupVars, callVars, identityVars, historyVars, syncVars, codecVars>>
     \/ part = "codecs" /\ K!Next
        /\ UNCHANGED <<channelVars, groupVars, callVars, identityVars, historyVars, syncVars, fanoutVars>>

\* Timers fire and threads go on.
Fairness ==
  /\ WF_callVars(part = "calls" /\ G!Confirm)
  /\ \A t \in Thread : WF_callVars(part = "calls" /\ G!Step(t))

Spec == Init /\ [][Next]_vars /\ Fairness

\* Channels!ChannelsSound: channels lead to their posts, stored ones too.
ChannelsSound == C!ChannelsSound
\* PublicGroups!ModerationHolds: limits, mutes and bans hold.
ModerationHolds == P!ModerationHolds
\* GroupCalls!GroupCallsSound: calls can be ended and their subscriptions end.
GroupCallsSound == G!GroupCallsSound
\* GroupCalls!ForwarderReplaced: a forwarder that leaves is replaced.
ForwarderReplaced == G!ForwarderReplaced
\* Identity!DocumentsSound: documents are accepted, numbered and read alike.
DocumentsSound == I!DocumentsSound
\* History!HistorySound: the history keeps and shows what was said.
HistorySound == H!HistorySound
\* DeviceSync!SyncSound: broadcasts and batches keep their order.
SyncSound == S!SyncSound
\* Fanout!FanoutSound: sessions and keys after concurrent sends and cleanups.
FanoutSound == F!FanoutSound
\* Codecs!CodecsAgreed: both sides use the best codec both have.
CodecsAgreed == K!CodecsAgreed
=============================================================================
