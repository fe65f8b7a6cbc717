----------------------------- MODULE GroupCalls -----------------------------
(***************************************************************************)
(* rtc.GroupCallManager.  Operations look a call up under gcm.mu and go on *)
(* under the mutex of the session; ending a call changes gcm.calls and     *)
(* gcm.subscriptions without gcm.mu.  An election sorts the participants   *)
(* and is confirmed by a timer.                                            *)
(***************************************************************************)
EXTENDS Integers, Sequences, FiniteSets, SequencesExt

CONSTANTS
  Call, Group,     \* call and group identifiers
  Ident, Self,     \* public keys, numbers in their order, and the user's
  MinSFU,          \* participants from which a call has a forwarder (7)
  MaxParticipants,
  Thread,
  MaxOps           \* bound: operations

VARIABLES
  calls,         \* gcm.calls
  session,       \* the sessions ever created
  subscriptions, \* group -> the subscription, 0 without one
  closed,        \* subscriptions that were cancelled
  job,           \* what a thread is doing
  elections,     \* timers of elections: the call and the candidate
  ops,
  stopped, alive

vars == <<calls, session, subscriptions, closed, job, elections, ops, stopped, alive>>

\* A session; served is history: an election made a participant its forwarder.
NoSession == [group |-> 0, sfuMode |-> FALSE, ended |-> FALSE, participants |-> <<>>, sfu |-> 0,
              served |-> FALSE]
Idle == [op |-> "none", at |-> "idle", c |-> 0, sub |-> 0]

\* A participant; n tells apart the entries of one who left and joined again.
Participant(id, owner) == [id |-> id, owner |-> owner, sfu |-> FALSE, n |-> ops]

Init ==
  /\ calls = {} /\ session = [c \in Call |-> NoSession]
  /\ subscriptions = [g \in Group |-> 0] /\ closed = {}
  /\ job = [t \in Thread |-> Idle] /\ elections = {}
  /\ ops = 0 /\ stopped = FALSE /\ alive = TRUE

Created == {c \in Call : session[c] # NoSession}
Ids(s) == {s.participants[i].id : i \in DOMAIN s.participants}

\* gcm.mu is free: Stop keeps it.
Unlocked == alive /\ \A t \in Thread : job[t].op # "stop"
\* The mutex of a session is free.
SessionFree(c) == alive /\ \A t \in Thread : ~(job[t].op = "end" /\ job[t].c = c /\ job[t].at # "found")

Go(t, j) == job' = [job EXCEPT ![t] = j]
Op == ops < MaxOps /\ ops' = ops + 1

CreateGroupCall(c, g) ==
  /\ Unlocked /\ Op /\ session[c] = NoSession
  /\ session' = [session EXCEPT ![c] =
       [NoSession EXCEPT !.group = g, !.participants = <<Participant(Self, TRUE)>>]]
  /\ calls' = calls \cup {c}
  /\ subscriptions' = [subscriptions EXCEPT ![g] = IF @ = 0 THEN c ELSE @]
  /\ UNCHANGED <<closed, job, elections, stopped, alive>>

\* The session is returned to the application, which adds the participants it
\* hears of: nothing in the package handles their messages.
ParticipantHeard(c, id) ==
  /\ SessionFree(c) /\ Op /\ c \in Created /\ id # Self /\ id \notin Ids(session[c])
  /\ Len(session[c].participants) < MaxParticipants
  /\ session' = [session EXCEPT ![c].participants = Append(@, Participant(id, FALSE))]
  /\ UNCHANGED <<calls, subscriptions, closed, job, elections, stopped, alive>>

\* An operation finds its call under gcm.mu.
Find(t, op, c) ==
  /\ Unlocked /\ Op /\ job[t] = Idle /\ c \in calls
  /\ Go(t, [Idle EXCEPT !.op = op, !.at = "found", !.c = c])
  /\ UNCHANGED <<calls, session, subscriptions, closed, elections, stopped, alive>>

\* runSFUElection: the lowest key comes first and is the candidate.  The message
\* is signed with the user's own key and handed to a publisher that only logs:
\* neither fails, and the timer is always started.
Sorted(ps) ==
  {qs \in SetToSeqs(Range(ps)) : \A i \in 2 .. Len(qs) : qs[i - 1].id <= qs[i].id}
runSFUElection(c, s) ==
  IF s.participants = <<>> THEN session' = [session EXCEPT ![c] = s] /\ UNCHANGED elections
  ELSE \E ps \in Sorted(s.participants) :
         /\ session' = [session EXCEPT ![c] = [s EXCEPT !.participants = ps]]
         /\ elections' = elections \cup {[c |-> c, cand |-> ps[1].id, n |-> ps[1].n]}

\* Mutant: who is in already joins again.
MutantJoinGroupCall(t) ==
  LET c == job[t].c
      s == session[c]
      joined == [s EXCEPT !.participants = Append(@, Participant(Self, FALSE))]
  IN  /\ job[t].op = "join" /\ SessionFree(c)
      /\ Go(t, Idle)
      /\ IF Len(s.participants) >= MaxParticipants
         THEN UNCHANGED <<session, elections>>
         ELSE IF Len(joined.participants) >= MinSFU
         THEN runSFUElection(c, [joined EXCEPT !.sfuMode = TRUE])
         ELSE session' = [session EXCEPT ![c] = joined] /\ UNCHANGED elections
      /\ UNCHANGED <<calls, subscriptions, closed, ops, stopped, alive>>

\* The rest of JoinGroupCall: who is in already, or finds the call full, changes
\* nothing.
JoinGroupCall(t) ==
  LET c == job[t].c
      s == session[c]
      joined == [s EXCEPT !.participants = Append(@, Participant(Self, FALSE))]
  IN  /\ job[t].op = "join" /\ SessionFree(c)
      /\ Go(t, Idle)
      /\ IF Self \in Ids(s) \/ Len(s.participants) >= MaxParticipants
         THEN UNCHANGED <<session, elections>>
         ELSE IF Len(joined.participants) >= MinSFU
         THEN runSFUElection(c, [joined EXCEPT !.sfuMode = TRUE])
         ELSE session' = [session EXCEPT ![c] = joined] /\ UNCHANGED elections
      /\ UNCHANGED <<calls, subscriptions, closed, ops, stopped, alive>>

\* Mutant: a forwarder that leaves makes for no election.
MutantLeaveGroupCall(t) ==
  LET c == job[t].c
  IN  /\ job[t].op = "leave" /\ SessionFree(c)
      /\ Go(t, Idle)
      /\ session' = [session EXCEPT ![c].participants = RemoveFirstMatch(@, LAMBDA p : p.id = Self)]
      /\ UNCHANGED <<calls, subscriptions, closed, elections, ops, stopped, alive>>

\* The rest of LeaveGroupCall; a forwarder that leaves makes for an election.
LeaveGroupCall(t) ==
  LET c == job[t].c
      s == session[c]
      rest == [s EXCEPT !.participants = RemoveFirstMatch(@, LAMBDA p : p.id = Self)]
  IN  /\ job[t].op = "leave" /\ SessionFree(c)
      /\ Go(t, Idle)
      /\ IF \E i \in DOMAIN s.participants : s.participants[i].id = Self /\ s.participants[i].sfu
         THEN runSFUElection(c, rest)
         ELSE session' = [session EXCEPT ![c] = rest] /\ UNCHANGED elections
      /\ UNCHANGED <<calls, subscriptions, closed, ops, stopped, alive>>

\* The timer of an election, whatever happened to the candidate and the call.
\* The flag is set on the entry the candidate had when the election began.
ConfirmElection(e) ==
  LET s == session[e.c]
      elected == {i \in DOMAIN s.participants : s.participants[i].id = e.cand /\ s.participants[i].n = e.n}
      ps == [i \in DOMAIN s.participants |->
               IF i \in elected THEN [s.participants[i] EXCEPT !.sfu = TRUE] ELSE s.participants[i]]
      served == s.served \/ elected # {}
  IN  /\ e \in elections /\ ~stopped /\ SessionFree(e.c)
      /\ elections' = elections \ {e}
      /\ session' = [session EXCEPT ![e.c] =
           [s EXCEPT !.sfu = e.cand, !.participants = ps, !.served = served]]
      /\ UNCHANGED <<calls, subscriptions, closed, job, ops, stopped, alive>>

-----------------------------------------------------------------------------
(* Ending calls.                                                           *)

\* The user may end the call: the first participant is the owner, and is us.
MayEnd(s) == s.participants[1].owner /\ s.participants[1].id = Self

\* EndGroupCall: without participants there is no first one, and it panics.
EndGroupCall(t) ==
  LET s == session[job[t].c]
  IN  /\ job[t].op = "end" /\ job[t].at = "found" /\ SessionFree(job[t].c)
      /\ IF s.participants = <<>> THEN alive' = FALSE /\ UNCHANGED job
         ELSE /\ UNCHANGED alive
              /\ Go(t, IF MayEnd(s) THEN [job[t] EXCEPT !.at = "ending"] ELSE Idle)
      /\ UNCHANGED <<calls, session, subscriptions, closed, elections, ops, stopped>>

\* endCallInternal marks the session and looks the subscription up ...
endCallInternal(t) ==
  LET c == job[t].c
  IN  /\ alive /\ job[t].at = "ending"
      /\ session' = [session EXCEPT ![c].ended = TRUE]
      /\ Go(t, [job[t] EXCEPT !.at = "unsubscribing", !.sub = subscriptions[session[c].group]])
      /\ UNCHANGED <<calls, subscriptions, closed, elections, ops, stopped, alive>>

\* Mutant: the cancelled subscription stays in the map.
MutantUnsubscribe(t) ==
  /\ alive /\ job[t].at = "unsubscribing"
  /\ Go(t, [job[t] EXCEPT !.at = "deleting"])
  /\ closed' = IF job[t].sub = 0 THEN closed ELSE closed \cup {job[t].sub}
  /\ UNCHANGED <<calls, session, subscriptions, elections, ops, stopped, alive>>

\* ... cancels and deletes it: cancelling one that is cancelled is a panic ...
unsubscribeFromGroupCallTopic(t) ==
  LET g == session[job[t].c].group
  IN  /\ alive /\ job[t].at = "unsubscribing"
      /\ Go(t, [job[t] EXCEPT !.at = "deleting"])
      /\ IF job[t].sub = 0 THEN UNCHANGED <<subscriptions, closed, alive>>
         ELSE /\ closed' = closed \cup {job[t].sub}
              /\ alive' = (job[t].sub \notin closed)
              /\ subscriptions' = [subscriptions EXCEPT ![g] = 0]
      /\ UNCHANGED <<calls, session, elections, ops, stopped>>

\* ... and deletes the call.  Stop goes on with the next one.
DeleteCall(t) ==
  /\ alive /\ job[t].at = "deleting"
  /\ calls' = calls \ {job[t].c}
  /\ Go(t, IF job[t].op = "stop" THEN [job[t] EXCEPT !.at = "stopping", !.sub = 0] ELSE Idle)
  /\ UNCHANGED <<session, subscriptions, closed, elections, ops, stopped, alive>>

Stop(t) ==
  /\ Unlocked /\ Op /\ job[t] = Idle /\ ~stopped
  /\ Go(t, [Idle EXCEPT !.op = "stop", !.at = "stopping"])
  /\ UNCHANGED <<calls, session, subscriptions, closed, elections, stopped, alive>>

\* Stop takes no mutex of a session.
StopCall(t, c) ==
  /\ alive /\ job[t].op = "stop" /\ job[t].at = "stopping" /\ c \in calls
  /\ Go(t, [job[t] EXCEPT !.at = "ending", !.c = c])
  /\ UNCHANGED <<calls, session, subscriptions, closed, elections, ops, stopped, alive>>

\* The subscriptions that are left are cancelled and stay in the map.
StopEnds(t) ==
  LET subs == {subscriptions[g] : g \in Group} \ {0}
  IN  /\ alive /\ job[t].op = "stop" /\ job[t].at = "stopping" /\ calls = {}
      /\ closed' = closed \cup subs
      /\ alive' = (subs \cap closed = {})
      /\ stopped' = TRUE /\ elections' = {}
      /\ Go(t, Idle)
      /\ UNCHANGED <<calls, session, subscriptions, ops>>

\* Two goroutines that change the maps at once may end the process.
MapRace ==
  /\ alive
  /\ \E t, u \in Thread : t # u /\ job[t].at \in {"unsubscribing", "deleting"}
                                /\ job[u].at \in {"unsubscribing", "deleting"}
  /\ alive' = FALSE
  /\ UNCHANGED <<calls, session, subscriptions, closed, job, elections, ops, stopped>>

Step(t) ==
  \/ JoinGroupCall(t) \/ LeaveGroupCall(t)
  \/ EndGroupCall(t) \/ endCallInternal(t) \/ unsubscribeFromGroupCallTopic(t) \/ DeleteCall(t)
  \/ StopEnds(t) \/ \E c \in Call : StopCall(t, c)

Confirm == \E e \in elections : ConfirmElection(e)

Next ==
  \/ \E c \in Call :
       \/ \E g \in Group : CreateGroupCall(c, g)
       \/ \E id \in Ident : ParticipantHeard(c, id)
       \/ \E t \in Thread, op \in {"join", "leave", "end"} : Find(t, op, c)
  \/ \E t \in Thread : Stop(t) \/ Step(t)
  \/ Confirm \/ MapRace

Fairness == WF_vars(Confirm) /\ \A t \in Thread : WF_vars(Step(t))

Spec == Init /\ [][Next]_vars /\ Fairness

-----------------------------------------------------------------------------
\* No subscription outlives the calls of its group, whichever threads end them
\* at once; Stop, which keeps the map, aside (endCallInternal, CreateGroupCall).
NoSubscriptionLeak ==
  alive /\ ~stopped =>
    \A g \in Group : subscriptions[g] # 0 => \E c \in calls : session[c].group = g

\* The owner can end the call until it leaves: EndGroupCall asks for the first
\* participant, and no election sorts the participants of a call its owner is
\* in (EndGroupCall, JoinGroupCall, LeaveGroupCall, runSFUElection).
OwnerCanEnd ==
  \A c \in calls :
    (\E i \in DOMAIN session[c].participants : session[c].participants[i].owner)
      => MayEnd(session[c])

\* Calls can be ended by their owner and leave no subscription behind
\* (EndGroupCall, endCallInternal).
GroupCallsSound == NoSubscriptionLeak /\ OwnerCanEnd

HasForwarder(c) == \E i \in DOMAIN session[c].participants : session[c].participants[i].sfu

\* A call that had a forwarder has one again and again: when the forwarder
\* leaves, the election this starts makes a participant who is still there the
\* forwarder, whatever joins, leaves and other elections happen meanwhile
\* (LeaveGroupCall, runSFUElection), unless the manager stops or crashes.
ForwarderReplaced ==
  \A c \in Call :
    []<>(session[c].served =>
           HasForwarder(c) \/ session[c].participants = <<>> \/ stopped \/ ~alive)

\* The forwarder an election settles on is a participant at that moment
\* (runSFUElection; "among connected participants" in specs/protocol-v2.md).
ElectedIsConnected ==
  [][\A c \in Call : session'[c].sfu # session[c].sfu => session'[c].sfu \in Ids(session'[c])]_vars
=============================================================================
