-------------------------------- MODULE Calls --------------------------------
(***************************************************************************)
(* One-to-one calls of one node: CallManager, SignalingService and         *)
(* SessionManager (pkg/rtc/manager.go, signaling.go, session.go).          *)
(*                                                                         *)
(* Goroutines that call the API, deliver signaling messages or run the     *)
(* call timeout interleave with the cleanup goroutine of expired offers.   *)
(* Two mutexes matter: cm.mu of the CallManager, which guards the current  *)
(* call, and sm.mu of the SessionManager, which guards the sessions.  A    *)
(* critical section of sm.mu is one step unless it calls back into the     *)
(* CallManager: EndCall and the cleanup call handleSessionEnded, which     *)
(* locks cm.mu, with sm.mu held.  StartOutgoingCall, AnswerIncomingCall    *)
(* and Stop hold cm.mu over their calls of the SessionManager.  The mutex  *)
(* of the SignalingService is only read-locked once it runs and never      *)
(* blocks.  Consecutive sections of sm.mu of which only the last decides   *)
(* the outcome (GetSession before UpdateState) are one step.               *)
(*                                                                         *)
(* sendSignalingMessage is a placeholder that cannot fail, so a sent       *)
(* message changes nothing here; the messages of the peers arrive through  *)
(* HandleSignalingMessage.  SDP texts, ICE candidates and media keys are   *)
(* left out: no transition depends on them.                                *)
(***************************************************************************)
EXTENDS Integers

CONSTANTS
  Thread,       \* goroutines that call the API or deliver messages
  Cleaner,      \* the goroutine of cleanupExpiredOffers
  Peer,
  LocalCall,    \* the uuids CreateOutgoingCall draws
  RemoteCall,   \* the call ids of the peers' offers
  NoCall, NoPeer, NoSession, Free,
  Repeated,     \* the calls whose offer may be delivered again
  Ops,          \* the operations this instance performs
  OfferTimeout, \* lifetime of an offer in clock units
  MaxTime       \* bound on the clock

Call == LocalCall \cup RemoteCall

ASSUME ThreadAssumption == Cleaner \notin Thread /\ Free \notin Thread \cup {Cleaner}
ASSUME CallAssumption == LocalCall \cap RemoteCall = {} /\ NoCall \notin Call /\ Repeated \subseteq RemoteCall
ASSUME TimeAssumption == OfferTimeout \in Nat /\ MaxTime \in Nat

VARIABLES
  sessions,   \* sm.sessions: call id to CallSession or NoSession
  current,    \* cm.currentCallID
  cmMu, smMu, \* who holds the two mutexes
  loc,        \* control point and locals of each goroutine
  seen,       \* the call ids drawn and the offers delivered so far
  timers,     \* calls with a startCallTimeout goroutine
  stopped,    \* sm.ctx and cm.ctx are cancelled
  now,        \* the clock
  forced      \* history: offers of peers that a peer's answer took up, not AnswerIncomingCall

vars == <<sessions, current, cmMu, smMu, loc, seen, timers, stopped, now, forced>>
locks == <<cmMu, smMu>>

CallState == {"offered", "accepted", "connecting", "active", "ended"}
Session == [peer : Peer, incoming : BOOLEAN, state : CallState, expires : Nat]
ASSUME SessionAssumption == NoSession \notin Session

Idle == [at |-> "idle", op |-> "none", call |-> NoCall, peer |-> NoPeer, todo |-> {}]

Exists(c) == sessions[c] # NoSession
InState(c, S) == Exists(c) /\ sessions[c].state \in S
Live(c) == InState(c, CallState \ {"ended"})

NewSession(p, in) ==
  [peer |-> p, incoming |-> in, state |-> "offered", expires |-> now + OfferTimeout]

SetState(c, s) == sessions' = [sessions EXCEPT ![c].state = s]
Goto(t, label) == loc' = [loc EXCEPT ![t].at = label]
Return(t) == loc' = [loc EXCEPT ![t] = Idle]

\* A goroutine begins operation op with its locals.
Begin(t, op, label, c, p) ==
  /\ op \in Ops
  /\ loc[t] = Idle
  /\ loc' = [loc EXCEPT ![t] = [at |-> label, op |-> op, call |-> c, peer |-> p, todo |-> {}]]

At(t, label) == loc[t].at = label /\ UNCHANGED <<seen, timers, stopped, now, forced>>

Init ==
  /\ sessions = [c \in Call |-> NoSession]
  /\ current = NoCall
  /\ cmMu = Free /\ smMu = Free
  /\ loc = [t \in Thread \cup {Cleaner} |-> Idle]
  /\ seen = {} /\ timers = {}
  /\ stopped = FALSE
  /\ now = 0 /\ forced = {}

-----------------------------------------------------------------------------
(* Placing a call *)

\* StartOutgoingCall takes cm.mu for the whole call.
StartOutgoingCall(t, p) ==
  /\ cmMu = Free /\ current = NoCall
  /\ Begin(t, "start", "offer", NoCall, p)
  /\ cmMu' = t
  /\ UNCHANGED <<sessions, current, smMu, seen, timers, stopped, now, forced>>

\* GetActiveSessionWithPeer and CreateOutgoingCall: refused when a session
\* with the peer has not ended.
CreateOutgoingCall(t) ==
  /\ loc[t].at = "offer" /\ smMu = Free
  /\ \A c \in Call : ~(Live(c) /\ sessions[c].peer = loc[t].peer)
  /\ \E c \in LocalCall \ seen :
       /\ sessions' = [sessions EXCEPT ![c] = NewSession(loc[t].peer, FALSE)]
       /\ seen' = seen \cup {c}
       /\ loc' = [loc EXCEPT ![t].call = c, ![t].at = "offerSdp"]
  /\ UNCHANGED <<current, locks, timers, stopped, now, forced>>

\* Mutant: cm.mu is not released on the error return.
MutantOfferRefused(t) ==
  /\ At(t, "offer") /\ smMu = Free
  /\ \E c \in Call : Live(c) /\ sessions[c].peer = loc[t].peer
  /\ Return(t)
  /\ UNCHANGED <<sessions, current, locks>>

OfferRefused(t) ==
  /\ At(t, "offer") /\ smMu = Free
  /\ \E c \in Call : Live(c) /\ sessions[c].peer = loc[t].peer
  /\ Return(t) /\ cmMu' = Free
  /\ UNCHANGED <<sessions, current, smMu>>

\* SetLocalSDP of the caller, then the offer is sent; an error when the
\* session is gone.
SendOffer(t) ==
  /\ At(t, "offerSdp") /\ smMu = Free
  /\ IF Exists(loc[t].call)
     THEN Goto(t, "offerDone") /\ UNCHANGED cmMu
     ELSE Return(t) /\ cmMu' = Free
  /\ UNCHANGED <<sessions, current, smMu>>

\* The end of StartOutgoingCall, with the optional call timeout.
OfferStarted(t) ==
  /\ loc[t].at = "offerDone"
  /\ current' = loc[t].call
  /\ timers' \in {timers, timers \cup {loc[t].call}}
  /\ cmMu' = Free
  /\ Return(t)
  /\ UNCHANGED <<sessions, smMu, seen, stopped, now, forced>>

-----------------------------------------------------------------------------
(* Answering a call *)

\* AnswerIncomingCall, by the user or by the auto-answer goroutine.
AnswerIncomingCall(t, c) ==
  /\ cmMu = Free /\ current = NoCall
  /\ Begin(t, "answer", "accept", c, NoPeer)
  /\ cmMu' = t
  /\ UNCHANGED <<sessions, current, smMu, seen, timers, stopped, now, forced>>

\* UpdateState to accepted is possible for an offered session only.
CanAccept(c) == InState(c, {"offered"})

Accept(t) ==
  /\ At(t, "accept") /\ smMu = Free
  /\ IF CanAccept(loc[t].call)
     THEN SetState(loc[t].call, "accepted") /\ Goto(t, "answerSdp") /\ UNCHANGED cmMu
     ELSE Return(t) /\ cmMu' = Free /\ UNCHANGED sessions
  /\ UNCHANGED <<current, smMu>>

\* SendAnswer: GetSession and SetLocalSDP.
SendAnswer(t) ==
  /\ At(t, "answerSdp") /\ smMu = Free
  /\ IF Exists(loc[t].call)
     THEN Goto(t, "answerDone") /\ UNCHANGED cmMu
     ELSE Return(t) /\ cmMu' = Free
  /\ UNCHANGED <<sessions, current, smMu>>

Answered(t) ==
  /\ At(t, "answerDone")
  /\ current' = loc[t].call
  /\ cmMu' = Free
  /\ Return(t)
  /\ UNCHANGED <<sessions, smMu>>

-----------------------------------------------------------------------------
(* Ending a call *)

\* RejectIncomingCall: an error when the session does not exist.
RejectIncomingCall(t, c) ==
  /\ smMu = Free /\ Exists(c)
  /\ Begin(t, "reject", "end", c, NoPeer)
  /\ UNCHANGED <<sessions, current, locks, seen, timers, stopped, now, forced>>

\* EndCall of the CallManager: it reads the current call and lets cm.mu go
\* before it ends that call.
EndCurrentCall(t) ==
  /\ cmMu = Free /\ current # NoCall
  /\ Begin(t, "hangup", "end", current, NoPeer)
  /\ UNCHANGED <<sessions, current, locks, seen, timers, stopped, now, forced>>

\* startCallTimeout: the timer of a call fires unless the manager has stopped.
CallTimeout(t, c) ==
  /\ c \in timers /\ ~stopped
  /\ Begin(t, "timeout", "end", c, NoPeer)
  /\ timers' = timers \ {c}
  /\ UNCHANGED <<sessions, current, locks, seen, stopped, now, forced>>

\* Mutant: whoever ends a call forgets the current one, whichever it is.
MutantCleared(c) == NoCall

\* Mutant: the current call is forgotten only once its session is removed.
MutantKept(c) == IF current = c /\ ~Exists(c) THEN NoCall ELSE current

\* handleSessionEnded, handleIncomingHangup and EndCallByID forget the
\* current call if it is the one that ended.
Cleared(c) == IF current = c THEN NoCall ELSE current

\* SendHangup only reads.  EndCall of the SessionManager keeps sm.mu for the
\* callback; a session that has ended already is left alone.
EndCall(t) ==
  /\ At(t, "end") /\ smMu = Free
  /\ LET c == loc[t].call IN
       \/ /\ Live(c)
          /\ SetState(c, "ended")
          /\ smMu' = t
          /\ Goto(t, "endCb")
       \/ /\ ~Live(c)
          /\ IF loc[t].op = "reject" \/ (loc[t].op # "remoteHangup" /\ ~Exists(c))
             THEN Return(t) ELSE Goto(t, "clear")
          /\ UNCHANGED <<sessions, smMu>>
  /\ UNCHANGED <<current, cmMu>>

\* handleSessionEnded, called with sm.mu held.
handleSessionEnded(t) ==
  /\ At(t, "endCb") /\ cmMu = Free
  /\ current' = Cleared(loc[t].call)
  /\ smMu' = Free
  /\ CASE loc[t].op = "reject" -> Return(t)
       [] loc[t].op = "stop" -> Goto(t, "stopNext")
       [] OTHER -> Goto(t, "clear")
  /\ UNCHANGED <<sessions, cmMu>>

\* The end of EndCallByID and handleIncomingHangup.
ClearCurrent(t) ==
  /\ At(t, "clear") /\ cmMu = Free
  /\ current' = Cleared(loc[t].call)
  /\ Return(t)
  /\ UNCHANGED <<sessions, locks>>

-----------------------------------------------------------------------------
(* Messages of the peers, in any order *)

\* handleOffer: an offer for a known call id is refused; messaging does not
\* filter duplicates, so an offer may come twice.
handleOffer(t, c, p) ==
  /\ "offer" \in Ops /\ loc[t] = Idle /\ smMu = Free
  /\ c \in seen => c \in Repeated
  /\ ~Exists(c)
  /\ seen' = seen \cup {c}
  /\ sessions' = [sessions EXCEPT ![c] = NewSession(p, TRUE)]
  /\ UNCHANGED <<current, locks, loc, timers, stopped, now, forced>>

\* Mutant: any session can be connected.
MutantCanConnect(c) == Exists(c)

\* UpdateState to connecting is possible from offered and accepted.
CanConnect(c) == InState(c, {"offered", "accepted"})

\* handleAnswer and handleIncomingAnswer: a peer answers a call, which need not
\* be one it was offered; neither the direction nor the sender is compared.
handleAnswer(t, c) ==
  /\ "peerAnswer" \in Ops /\ loc[t] = Idle /\ smMu = Free
  /\ CanConnect(c)
  /\ SetState(c, "connecting")
  /\ forced' = IF c \in RemoteCall /\ InState(c, {"offered"}) THEN forced \cup {c} ELSE forced
  /\ UNCHANGED <<current, locks, loc, seen, timers, stopped, now>>

\* UpdateState to active, by the media layer.
MediaFlows(t, c) ==
  /\ "media" \in Ops /\ loc[t] = Idle /\ smMu = Free
  /\ InState(c, {"connecting", "accepted"})
  /\ SetState(c, "active")
  /\ UNCHANGED <<current, locks, loc, seen, timers, stopped, now, forced>>

\* handleHangup: the session exists and the sender is its peer.
handleHangup(t, c) ==
  /\ smMu = Free /\ Exists(c)
  /\ Begin(t, "remoteHangup", "end", c, NoPeer)
  /\ UNCHANGED <<sessions, current, locks, seen, timers, stopped, now, forced>>

-----------------------------------------------------------------------------
(* Expiry of offers *)

\* IsExpired, and the condition of cleanupExpiredOffers.
Expired(c) == InState(c, {"offered"}) /\ now > sessions[c].expires

\* The ticker of cleanupExpiredOffers; a tick that finds nothing changes
\* nothing.  The sweep keeps sm.mu over all its callbacks.
CleanupTick ==
  /\ loc[Cleaner] = Idle /\ ~stopped
  /\ smMu = Free
  /\ \E c \in Call : Expired(c)
  /\ smMu' = Cleaner
  /\ loc' = [loc EXCEPT ![Cleaner].at = "sweep", ![Cleaner].todo = {c \in Call : Expired(c)}]
  /\ UNCHANGED <<sessions, current, cmMu, seen, timers, stopped, now, forced>>

RemoveExpired ==
  /\ At(Cleaner, "sweep")
  /\ \E c \in loc[Cleaner].todo :
       /\ sessions' = [sessions EXCEPT ![c] = NoSession]
       /\ loc' = [loc EXCEPT ![Cleaner].at = "sweepCb", ![Cleaner].call = c,
                             ![Cleaner].todo = @ \ {c}]
  /\ UNCHANGED <<current, locks>>

\* handleSessionEnded for a removed offer.
ExpiredCallback ==
  /\ At(Cleaner, "sweepCb") /\ cmMu = Free
  /\ current' = Cleared(loc[Cleaner].call)
  /\ IF loc[Cleaner].todo = {}
     THEN Return(Cleaner) /\ smMu' = Free
     ELSE Goto(Cleaner, "sweep") /\ UNCHANGED smMu
  /\ UNCHANGED <<sessions, cmMu>>

Tick ==
  /\ now < MaxTime
  /\ now' = now + 1
  /\ UNCHANGED <<sessions, current, locks, loc, seen, timers, stopped, forced>>

-----------------------------------------------------------------------------
(* Stopping *)

\* Stop holds cm.mu from here to its end.
Stop(t) ==
  /\ cmMu = Free /\ ~stopped
  /\ Begin(t, "stop", "stopList", NoCall, NoPeer)
  /\ cmMu' = t
  /\ UNCHANGED <<sessions, current, smMu, seen, timers, stopped, now, forced>>

\* GetAllActiveSessions.
StopList(t) ==
  /\ At(t, "stopList") /\ smMu = Free
  /\ loc' = [loc EXCEPT ![t].at = "stopNext", ![t].todo = {c \in Call : Live(c)}]
  /\ UNCHANGED <<sessions, current, locks>>

\* SendHangup and EndCall of the next session; the callback of EndCall waits
\* for cm.mu, which this goroutine holds.
StopEndCall(t) ==
  /\ At(t, "stopNext") /\ smMu = Free
  /\ \E c \in loc[t].todo :
       /\ loc' = [loc EXCEPT ![t].at = IF Live(c) THEN "endCb" ELSE "stopNext",
                             ![t].call = c, ![t].todo = @ \ {c}]
       /\ IF Live(c) THEN SetState(c, "ended") /\ smMu' = t
                     ELSE UNCHANGED <<sessions, smMu>>
  /\ UNCHANGED <<current, cmMu>>

\* Stop of the SessionManager and the end of Stop.
Stopped(t) ==
  /\ loc[t].at = "stopNext" /\ smMu = Free /\ loc[t].todo = {}
  /\ sessions' = [c \in Call |-> IF Live(c) THEN [sessions[c] EXCEPT !.state = "ended"]
                                 ELSE sessions[c]]
  /\ stopped' = TRUE
  /\ cmMu' = Free
  /\ Return(t)
  /\ UNCHANGED <<current, smMu, seen, timers, now, forced>>

-----------------------------------------------------------------------------
\* The steps of an operation that has begun.
Continue(t) ==
  \/ CreateOutgoingCall(t) \/ OfferRefused(t) \/ SendOffer(t) \/ OfferStarted(t)
  \/ Accept(t) \/ SendAnswer(t) \/ Answered(t)
  \/ EndCall(t) \/ handleSessionEnded(t) \/ ClearCurrent(t)
  \/ StopList(t) \/ StopEndCall(t) \/ Stopped(t)

Cleanup == CleanupTick \/ RemoveExpired \/ ExpiredCallback

Next ==
  \/ \E t \in Thread :
       \/ \E p \in Peer : StartOutgoingCall(t, p)
       \/ \E p \in Peer, c \in RemoteCall : handleOffer(t, c, p)
       \/ \E c \in RemoteCall : AnswerIncomingCall(t, c) \/ RejectIncomingCall(t, c)
       \/ \E c \in LocalCall : CallTimeout(t, c)
       \/ \E c \in Call : handleAnswer(t, c) \/ MediaFlows(t, c) \/ handleHangup(t, c)
       \/ EndCurrentCall(t) \/ Stop(t)
       \/ Continue(t)
  \/ Cleanup
  \/ Tick

Spec == Init /\ [][Next]_vars

\* Goroutines run, Go's mutexes do not starve a waiter, the ticker ticks.
FairSpec ==
  /\ Spec
  /\ \A t \in Thread : SF_vars(Continue(t))
  /\ SF_vars(Cleanup)
  /\ WF_vars(Tick)

-----------------------------------------------------------------------------
(* Properties *)

ControlPoint == {"idle", "offer", "offerSdp", "offerDone", "accept", "answerSdp", "answerDone",
                 "end", "endCb", "clear", "sweep", "sweepCb", "stopList", "stopNext"}

\* The mutexes are held exactly where the code holds them: cm.mu inside
\* StartOutgoingCall, AnswerIncomingCall and Stop, sm.mu around the callback
\* of an ended session, and every variable has its type.
TypeOK ==
  /\ sessions \in [Call -> Session \cup {NoSession}]
  /\ current \in Call \cup {NoCall}
  /\ DOMAIN loc = Thread \cup {Cleaner}
  /\ \A t \in DOMAIN loc :
       /\ loc[t].at \in ControlPoint
       /\ loc[t].call \in Call \cup {NoCall} /\ loc[t].todo \subseteq Call
       /\ cmMu = t <=> loc[t].op \in {"start", "answer", "stop"}
       /\ smMu = t <=> loc[t].at \in {"endCb", "sweep", "sweepCb"}
  /\ seen \subseteq Call /\ timers \subseteq LocalCall
  /\ stopped \in BOOLEAN /\ now \in 0..MaxTime /\ forced \subseteq RemoteCall

\* currentCallID never names a call that is over, except while the callback
\* that will clear it (handleSessionEnded) is waiting for cm.mu.  A stale
\* value would refuse every later call with "already in call".
CurrentCallLive ==
  current # NoCall =>
    Live(current) \/ \E t \in DOMAIN loc : /\ loc[t].at \in {"endCb", "sweepCb"}
                                           /\ loc[t].call = current

\* A call in progress that was placed or accepted here is the current call, or
\* the goroutine that starts or answers it is about to make it so
\* (StartOutgoingCall, AnswerIncomingCall): at most one such call is in progress,
\* and EndCall can end it.  The only others are offers that a peer's answer took
\* up before the user did.  Calls whose offer comes again are excepted: a hangup
\* of the expired call that is still at its last step clears the current call of
\* the second one.
EngagedIsCurrent ==
  \A c \in Call \ (Repeated \cup forced) :
    InState(c, {"accepted", "connecting", "active"}) =>
      \/ current = c
      \/ \E t \in Thread : /\ loc[t].at \in {"offerSdp", "offerDone", "answerSdp", "answerDone"}
                           /\ loc[t].call = c

\* The current call and the call placed or accepted here are the same, and each
\* mutex is held by who is inside its critical section (manager.go, session.go).
CallsAgree == TypeOK /\ CurrentCallLive /\ EngagedIsCurrent

Rank(s) == CASE s = "offered" -> 1 [] s = "accepted" -> 2 [] s = "connecting" -> 3
             [] s = "active" -> 4 [] s = "ended" -> 5

\* A session only moves forward (UpdateState, EndCall, Stop): no late answer,
\* repeated offer or racing timeout revives a call that has ended, and only
\* an offer that was never taken up is forgotten.
StatesAdvance ==
  [][\A c \in Call : Exists(c) =>
       IF sessions'[c] = NoSession THEN sessions[c].state = "offered"
       ELSE Rank(sessions'[c].state) >= Rank(sessions[c].state)]_vars

Overdue(c) == Exists(c) /\ sessions[c].state = "offered" /\ now > sessions[c].expires

\* Every offer that nobody takes up is removed (cleanupExpiredOffers).
OffersExpire ==
  \A c \in Call : Overdue(c) ~> ~Overdue(c)

=============================================================================
