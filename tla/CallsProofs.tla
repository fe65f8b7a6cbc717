---------------------------- MODULE CallsProofs ----------------------------
(***************************************************************************)
(* Proofs about Calls, for any number of goroutines, peers and calls:      *)
(*   - the current call and the call in progress agree, and the mutexes    *)
(*     are held where the code holds them (Agreement);                     *)
(*   - a session only moves forward (Advance).                             *)
(***************************************************************************)
EXTENDS Calls, TLAPS

-----------------------------------------------------------------------------
(* The inductive invariant *)

Goroutine == Thread \cup {Cleaner}

Local == [at : ControlPoint,
          op : {"none", "start", "answer", "reject", "hangup", "timeout", "remoteHangup", "stop"},
          call : Call \cup {NoCall}, peer : Peer \cup {NoPeer}, todo : SUBSET Call]

Types ==
  /\ sessions \in [Call -> Session \cup {NoSession}]
  /\ current \in Call \cup {NoCall}
  /\ loc \in [Goroutine -> Local]
  /\ seen \subseteq Call /\ timers \subseteq LocalCall
  /\ stopped \in BOOLEAN /\ now \in 0..MaxTime /\ forced \subseteq RemoteCall

Connecting == {"offerSdp", "offerDone", "answerSdp", "answerDone"}
InCallback == {"endCb", "sweepCb"}

\* Which operation of which goroutine a control point l belongs to.
Operation(t, l, o) ==
  /\ l \in {"idle", "sweep", "sweepCb"} <=> o = "none"
  /\ l \in {"offer", "offerSdp", "offerDone"} <=> o = "start"
  /\ l \in {"accept", "answerSdp", "answerDone"} <=> o = "answer"
  /\ l \in {"stopList", "stopNext"} => o = "stop"
  /\ l \in {"end", "clear"} => o # "stop"
  /\ t = Cleaner => l \in {"idle", "sweep", "sweepCb"}
  /\ t # Cleaner => l \notin {"sweep", "sweepCb"}

Control ==
  \A t \in Goroutine :
    /\ Operation(t, loc[t].at, loc[t].op)
    /\ loc[t].at = "offer" => loc[t].peer \in Peer
    /\ loc[t].at = "accept" => loc[t].call \in Call
    /\ cmMu = t <=> loc[t].op \in {"start", "answer", "stop"}
    /\ smMu = t <=> loc[t].at \in {"endCb", "sweep", "sweepCb"}

\* Every call id in use was drawn or offered.
Known ==
  /\ \A c \in Call : Exists(c) => c \in seen
  /\ current # NoCall => current \in seen
  /\ timers \subseteq seen
  /\ \A t \in Goroutine :
       /\ loc[t].at \in Connecting \cup InCallback \cup {"end", "clear"} => loc[t].call \in seen
       /\ loc[t].at \in {"offerSdp", "offerDone"} => loc[t].call \in LocalCall

\* The session is not over, or the callback that reports its end is still waiting.
Pending(c) ==
  Live(c) \/ \E t \in Goroutine : loc[t].at \in InCallback /\ loc[t].call = c

\* What a goroutine with locals l may rely on.
RelyOn(l) ==
  /\ l.op \in {"start", "answer"} => current = NoCall
  /\ l.at \in Connecting => Pending(l.call)
  /\ l.at \in InCallback => ~Live(l.call)
  /\ l.at = "clear" /\ l.call \notin Repeated => ~Live(l.call)
  /\ l.at \in {"sweep", "sweepCb"} => \A c \in l.todo : InState(c, {"offered"})
  /\ l.at = "stopNext" /\ current # NoCall /\ Live(current) => current \in l.todo

Reliance == \A t \in Goroutine : RelyOn(loc[t])

\* CurrentCallLive, with Pending.
CurrentPending == current # NoCall => Pending(current)

\* Call c is the current call or about to become it.
Taken(c) ==
  current = c \/ \E t \in Thread : loc[t].at \in Connecting /\ loc[t].call = c

\* A call placed here is taken from the start, one of a peer once it is accepted.
Engaged ==
  \A c \in Call \ (Repeated \cup forced) :
    /\ InState(c, {"accepted", "connecting", "active"}) => Taken(c)
    /\ c \in LocalCall /\ Live(c) => Taken(c)

IInv ==
  /\ Types /\ Control /\ Known /\ Reliance /\ Engaged /\ CurrentPending

-----------------------------------------------------------------------------
(* Lemmas about one goroutine's step *)

\* Goroutine t goes on with locals l.
Moves(t, l) == l \in Local /\ loc' = [loc EXCEPT ![t] = l]

LEMMA LocStep ==
  ASSUME Types, NEW t \in Goroutine, NEW l, Moves(t, l)
  PROVE  /\ l \in Local /\ loc' \in [Goroutine -> Local] /\ loc'[t] = l
         /\ \A u \in Goroutine : u # t => loc'[u] = loc[u]
BY DEF Types, Moves

LEMMA IdleLocal == Idle \in Local
BY DEF Idle, Local, ControlPoint

\* The control points after a step of t, which holds or releases mutexes of its own.
LEMMA ControlStep ==
  ASSUME Types, Control, NEW t \in Goroutine, NEW l, Moves(t, l),
         Operation(t, l.at, l.op), l.at = "offer" => l.peer \in Peer,
         l.at = "accept" => l.call \in Call,
         \/ cmMu' = cmMu /\ (l.op \in {"start", "answer", "stop"}
                              <=> loc[t].op \in {"start", "answer", "stop"})
         \/ cmMu = Free /\ cmMu' = t /\ l.op \in {"start", "answer", "stop"}
         \/ cmMu = t /\ cmMu' = Free /\ l.op \notin {"start", "answer", "stop"},
         \/ smMu' = smMu /\ (l.at \in {"endCb", "sweep", "sweepCb"}
                              <=> loc[t].at \in {"endCb", "sweep", "sweepCb"})
         \/ smMu = Free /\ smMu' = t /\ l.at \in {"endCb", "sweep", "sweepCb"}
         \/ smMu = t /\ smMu' = Free /\ l.at \notin {"endCb", "sweep", "sweepCb"}
  PROVE  Control'
<1>1. /\ loc'[t] = l /\ \A u \in Goroutine : u # t => loc'[u] = loc[u]
  BY LocStep
<1>2. Free \notin Goroutine
  BY ThreadAssumption DEF Goroutine
<1> SUFFICES ASSUME NEW u \in Goroutine
             PROVE  /\ Operation(u, loc'[u].at, loc'[u].op)
                    /\ loc'[u].at = "offer" => loc'[u].peer \in Peer
                    /\ loc'[u].at = "accept" => loc'[u].call \in Call
                    /\ cmMu' = u <=> loc'[u].op \in {"start", "answer", "stop"}
                    /\ smMu' = u <=> loc'[u].at \in {"endCb", "sweep", "sweepCb"}
  BY DEF Control, Operation
<1>3. CASE u = t
  BY <1>1, <1>2, <1>3 DEF Control
<1>4. CASE u # t
  BY <1>1, <1>2, <1>4 DEF Control
<1> QED
  BY <1>3, <1>4

LEMMA RelianceIntro ==
  ASSUME \A u \in Goroutine : \A k : k = loc'[u] => RelyOn(k)'
  PROVE  Reliance'
BY DEF Reliance, RelyOn, Pending, Live, InState, Exists

LEMMA CurrentIntro ==
  ASSUME \A c : c = current' /\ c # NoCall => Pending(c)'
  PROVE  CurrentPending'
BY DEF CurrentPending, Pending, Live, InState, Exists

\* A step of t that changes its locals, the mutexes and at most the timers.
LEMMA LocalStep ==
  ASSUME IInv, NEW t \in Goroutine, NEW l, Moves(t, l), Control',
         UNCHANGED <<sessions, current, seen>>,
         timers' \subseteq timers, stopped' \in BOOLEAN, now' = now, forced' = forced,
         l.at \in Connecting \cup {"end", "clear"} => l.call \in seen,
         l.op \in {"start", "answer"} => current = NoCall,
         l.at \notin InCallback, loc[t].at \notin InCallback,
         l.at \in Connecting => loc[t].at \in Connecting /\ l.call = loc[t].call,
         l.at \in {"offerSdp", "offerDone"} => loc[t].at \in {"offerSdp", "offerDone"},
         loc[t].at \in Connecting =>
           (l.at \in Connecting /\ l.call = loc[t].call) \/ ~Live(loc[t].call),
         l.at = "clear" => ~Live(l.call),
         l.at = "sweep" => \A c \in l.todo : InState(c, {"offered"}),
         l.at = "stopNext" /\ current # NoCall /\ Live(current) => current \in l.todo
  PROVE  IInv'
<1> USE DEF IInv
<1>1. /\ l \in Local /\ loc' \in [Goroutine -> Local] /\ loc'[t] = l
      /\ \A u \in Goroutine : u # t => loc'[u] = loc[u]
  BY LocStep
<1>2. \A c, S : InState(c, S)' <=> InState(c, S)
  BY DEF InState, Exists
<1>3. \A c : Live(c)' <=> Live(c)
  BY <1>2 DEF Live
<1>4. \A c : Pending(c) => Pending(c)'
  BY <1>1, <1>3 DEF Pending
<1>5. Types'
  BY <1>1 DEF Types
<1>6. Known'
  BY <1>1 DEF Known, Exists, InCallback, Connecting
<1>7. Reliance'
  <2> SUFFICES ASSUME NEW u \in Goroutine, NEW k, k = loc'[u] PROVE RelyOn(k)'
    BY RelianceIntro
  <2>1. CASE u # t
    <3>1. RelyOn(k)
      BY <1>1, <2>1 DEF Reliance
    <3> QED
      BY <1>2, <1>3, <1>4, <3>1 DEF RelyOn
  <2>2. CASE u = t
    <3>1. k = l /\ RelyOn(loc[t])
      BY <1>1, <2>2 DEF Reliance
    <3> QED
      BY <1>2, <1>3, <1>4, <3>1 DEF RelyOn, InCallback
  <2> QED
    BY <2>1, <2>2
<1>8. Engaged'
  <2> SUFFICES ASSUME NEW c \in Call \ (Repeated \cup forced), Taken(c), Live(c)
               PROVE  Taken(c)'
    BY <1>2, <1>3 DEF Engaged, Live, InState, CallState
  <2> QED
    BY <1>1 DEF Taken, Goroutine
<1>9. CurrentPending'
  BY <1>4, CurrentIntro DEF CurrentPending
<1> QED
  BY <1>5, <1>6, <1>7, <1>8, <1>9
-----------------------------------------------------------------------------
(* Steps that change neither the sessions nor the current call *)

\* An operation begins: a signaling or API call that takes cm.mu first, or one that
\* goes to EndCall without a mutex.
LEMMA BeginStep ==
  ASSUME IInv, NEW t \in Thread, NEW op, NEW label, NEW c, NEW p,
         Begin(t, op, label, c, p), c \in Call \cup {NoCall}, p \in Peer \cup {NoPeer},
         UNCHANGED <<sessions, current, smMu, seen, stopped, now, forced>>, timers' \subseteq timers,
         \/ /\ cmMu = Free /\ cmMu' = t
            /\ \/ op = "start" /\ label = "offer" /\ p \in Peer /\ current = NoCall
               \/ op = "answer" /\ label = "accept" /\ c \in Call /\ current = NoCall
               \/ op = "stop" /\ label = "stopList"
         \/ /\ cmMu' = cmMu /\ label = "end" /\ c \in seen
            /\ op \in {"reject", "hangup", "timeout", "remoteHangup"}
  PROVE  IInv'
<1> USE DEF IInv
<1> DEFINE l == [at |-> label, op |-> op, call |-> c, peer |-> p, todo |-> {}]
<1>1. loc[t] = Idle /\ t \in Goroutine /\ t # Cleaner
  BY ThreadAssumption DEF Begin, Goroutine
<1>2. loc[t].at = "idle" /\ loc[t].op = "none"
  BY <1>1 DEF Idle
<1>3. l.at = label /\ l.op = op /\ l.call = c /\ l.peer = p /\ l.todo = {}
  OBVIOUS
<1>4. Moves(t, l)
  <2>1. l \in Local
    BY DEF Local, ControlPoint
  <2> QED
    BY <2>1 DEF Moves, Begin
<1> HIDE DEF l
<1>5. Control'
  <2>1. Operation(t, l.at, l.op)
    BY <1>1, <1>3 DEF Operation
  <2> QED
    BY <1>1, <1>2, <1>3, <1>4, <2>1, ControlStep
<1>6. stopped' \in BOOLEAN
  BY DEF Types
<1> QED
  BY <1>1, <1>2, <1>3, <1>4, <1>5, <1>6, LocalStep DEF Connecting, InCallback

LEMMA StartOutgoingCallKeeps ==
  ASSUME IInv, NEW t \in Thread, NEW p \in Peer, StartOutgoingCall(t, p)
  PROVE  IInv'
BY BeginStep DEF StartOutgoingCall

LEMMA AnswerIncomingCallKeeps ==
  ASSUME IInv, NEW t \in Thread, NEW c \in RemoteCall, AnswerIncomingCall(t, c)
  PROVE  IInv'
BY BeginStep DEF AnswerIncomingCall, Call

LEMMA RejectIncomingCallKeeps ==
  ASSUME IInv, NEW t \in Thread, NEW c \in RemoteCall, RejectIncomingCall(t, c)
  PROVE  IInv'
BY BeginStep DEF RejectIncomingCall, Call, IInv, Known, locks

LEMMA EndCurrentCallKeeps ==
  ASSUME IInv, NEW t \in Thread, EndCurrentCall(t)
  PROVE  IInv'
BY BeginStep DEF EndCurrentCall, IInv, Known, Types, locks

LEMMA CallTimeoutKeeps ==
  ASSUME IInv, NEW t \in Thread, NEW c \in LocalCall, CallTimeout(t, c)
  PROVE  IInv'
BY BeginStep DEF CallTimeout, Call, IInv, Known, locks

LEMMA handleHangupKeeps ==
  ASSUME IInv, NEW t \in Thread, NEW c \in Call, handleHangup(t, c)
  PROVE  IInv'
BY BeginStep DEF handleHangup, IInv, Known, locks

LEMMA StopKeeps ==
  ASSUME IInv, NEW t \in Thread, Stop(t)
  PROVE  IInv'
BY BeginStep DEF Stop

\* A goroutine returns from its operation, with cm.mu released if it held it.
LEMMA ReturnStep ==
  ASSUME IInv, NEW t \in Thread, Return(t),
         loc[t].at \notin InCallback, loc[t].op # "stop",
         \/ loc[t].op \in {"start", "answer"} /\ cmMu' = Free
         \/ loc[t].op \notin {"start", "answer"} /\ cmMu' = cmMu,
         UNCHANGED <<sessions, current, smMu, seen, timers, stopped, now, forced>>,
         loc[t].at \in Connecting => ~Live(loc[t].call)
  PROVE  IInv'
<1> USE DEF IInv
<1>1. t \in Goroutine /\ t # Cleaner /\ Idle.at = "idle" /\ Idle.op = "none"
  BY ThreadAssumption DEF Goroutine, Idle
<1>2. Moves(t, Idle)
  BY IdleLocal DEF Moves, Return
<1>3. /\ loc[t].op \in {"start", "answer"} => cmMu = t
      /\ loc[t].at \notin {"endCb", "sweep", "sweepCb"}
  BY <1>1 DEF Control, InCallback, Operation
<1>4. Control'
  <2>1. Operation(t, Idle.at, Idle.op)
    BY <1>1 DEF Operation
  <2> QED
    BY <1>1, <1>2, <1>3, <2>1, ControlStep
<1>5. stopped' \in BOOLEAN
  BY DEF Types
<1> QED
  BY <1>1, <1>2, <1>3, <1>4, <1>5, LocalStep DEF Connecting, InCallback

\* A goroutine goes from one control point of its operation to the next.
LEMMA GotoStep ==
  ASSUME IInv, NEW t \in Thread, NEW label, Goto(t, label),
         UNCHANGED <<sessions, current, cmMu, smMu, seen, timers, stopped, now, forced>>,
         \/ loc[t].at = "offerSdp" /\ label = "offerDone"
         \/ loc[t].at = "answerSdp" /\ label = "answerDone"
         \/ loc[t].at = "end" /\ label = "clear" /\ ~Live(loc[t].call)
  PROVE  IInv'
<1> USE DEF IInv
<1> DEFINE l == [loc[t] EXCEPT !.at = label]
<1>1. t \in Goroutine /\ t # Cleaner /\ loc[t] \in Local
  BY ThreadAssumption DEF Goroutine, Types
<1>2. l \in Local /\ l.at = label /\ l.op = loc[t].op /\ l.call = loc[t].call
  BY <1>1 DEF Local, ControlPoint
<1>3. Moves(t, l)
  BY <1>1, <1>2 DEF Moves, Goto, Types
<1> HIDE DEF l
<1>4. Operation(t, loc[t].at, loc[t].op)
  BY <1>1 DEF Control
<1>5. Control'
  <2>1. Operation(t, l.at, l.op)
    BY <1>1, <1>2, <1>4 DEF Operation
  <2> QED
    BY <1>1, <1>2, <1>3, <2>1, ControlStep
<1>6. stopped' \in BOOLEAN /\ loc[t].call \in seen
  BY <1>1 DEF Types, Known, Connecting
<1>7. l.op \in {"start", "answer"} => current = NoCall
  BY <1>1, <1>2 DEF Reliance, RelyOn
<1> QED
  BY <1>1, <1>2, <1>3, <1>5, <1>6, <1>7, LocalStep DEF Connecting, InCallback
LEMMA OperationAt ==
  ASSUME IInv, NEW t \in Thread
  PROVE  /\ t \in Goroutine /\ t # Cleaner
         /\ Operation(t, loc[t].at, loc[t].op) /\ loc[t] \in Local
BY ThreadAssumption DEF IInv, Control, Types, Goroutine

LEMMA OfferRefusedKeeps ==
  ASSUME IInv, NEW t \in Thread, OfferRefused(t)
  PROVE  IInv'
<1>1. loc[t].op = "start"
  BY OperationAt DEF OfferRefused, At, Operation
<1> QED
  BY <1>1, ReturnStep DEF OfferRefused, At, InCallback, Connecting

LEMMA SendOfferKeeps ==
  ASSUME IInv, NEW t \in Thread, SendOffer(t)
  PROVE  IInv'
<1>1. loc[t].op = "start"
  BY OperationAt DEF SendOffer, At, Operation
<1>2. CASE Exists(loc[t].call)
  BY <1>2, GotoStep DEF SendOffer, At
<1>3. CASE ~Exists(loc[t].call)
  <2>1. ~Live(loc[t].call)
    BY <1>3 DEF Live, InState
  <2> QED
    BY <1>1, <1>3, <2>1, ReturnStep DEF SendOffer, At, InCallback
<1> QED
  BY <1>2, <1>3

LEMMA SendAnswerKeeps ==
  ASSUME IInv, NEW t \in Thread, SendAnswer(t)
  PROVE  IInv'
<1>1. loc[t].op = "answer"
  BY OperationAt DEF SendAnswer, At, Operation
<1>2. CASE Exists(loc[t].call)
  BY <1>2, GotoStep DEF SendAnswer, At
<1>3. CASE ~Exists(loc[t].call)
  <2>1. ~Live(loc[t].call)
    BY <1>3 DEF Live, InState
  <2> QED
    BY <1>1, <1>3, <2>1, ReturnStep DEF SendAnswer, At, InCallback
<1> QED
  BY <1>2, <1>3

LEMMA StopListKeeps ==
  ASSUME IInv, NEW t \in Thread, StopList(t)
  PROVE  IInv'
<1> USE DEF IInv
<1> DEFINE l == [loc[t] EXCEPT !.at = "stopNext", !.todo = {c \in Call : Live(c)}]
<1>1. /\ t \in Goroutine /\ t # Cleaner /\ loc[t] \in Local /\ loc[t].at = "stopList"
      /\ loc[t].op = "stop"
  BY OperationAt DEF StopList, At, Operation
<1>2. l \in Local /\ l.at = "stopNext" /\ l.op = "stop" /\ l.todo = {c \in Call : Live(c)}
  BY <1>1 DEF Local, ControlPoint
<1>3. Moves(t, l)
  BY <1>1, <1>2 DEF Moves, StopList, Types
<1> HIDE DEF l
<1>4. Control'
  <2>1. Operation(t, l.at, l.op)
    BY <1>1, <1>2 DEF Operation
  <2> QED
    BY <1>1, <1>2, <1>3, <2>1, ControlStep DEF StopList, locks
<1>5. stopped' \in BOOLEAN /\ current \in Call \cup {NoCall}
  BY DEF Types, StopList, At
<1> QED
  BY <1>1, <1>2, <1>3, <1>4, <1>5, LocalStep DEF Connecting, InCallback, StopList, At

LEMMA CleanupTickKeeps ==
  ASSUME IInv, CleanupTick
  PROVE  IInv'
<1> USE DEF IInv
<1> DEFINE l == [loc[Cleaner] EXCEPT !.at = "sweep", !.todo = {c \in Call : Expired(c)}]
<1>1. /\ Cleaner \in Goroutine /\ loc[Cleaner] \in Local /\ loc[Cleaner].at = "idle"
      /\ loc[Cleaner].op = "none"
  BY DEF CleanupTick, Idle, Goroutine, Types
<1>2. l \in Local /\ l.at = "sweep" /\ l.op = "none" /\ l.todo = {c \in Call : Expired(c)}
  BY <1>1 DEF Local, ControlPoint
<1>3. Moves(Cleaner, l)
  BY <1>1, <1>2 DEF Moves, CleanupTick, Types
<1> HIDE DEF l
<1>4. Control'
  <2>1. Operation(Cleaner, l.at, l.op)
    BY <1>1, <1>2 DEF Operation
  <2> QED
    BY <1>1, <1>2, <1>3, <2>1, ControlStep DEF CleanupTick
<1>5. stopped' \in BOOLEAN /\ \A c \in l.todo : InState(c, {"offered"})
  BY <1>2 DEF Types, CleanupTick, Expired
<1> QED
  BY <1>1, <1>2, <1>3, <1>4, <1>5, LocalStep DEF Connecting, InCallback, CleanupTick
-----------------------------------------------------------------------------
(* Steps that change the current call *)

\* The end of StartOutgoingCall and AnswerIncomingCall, with cm.mu held.
LEMMA TakeStep ==
  ASSUME IInv, NEW t \in Thread, loc[t].at \in {"offerDone", "answerDone"}, Return(t),
         current' = loc[t].call, cmMu' = Free,
         timers' = timers \/ (loc[t].at = "offerDone" /\ timers' = timers \cup {loc[t].call}),
         UNCHANGED <<sessions, smMu, seen, stopped, now, forced>>
  PROVE  IInv'
<1> USE DEF IInv
<1>1. /\ t \in Goroutine /\ t # Cleaner /\ Idle.at = "idle" /\ Idle.op = "none"
      /\ loc[t].op \in {"start", "answer"}
  BY OperationAt DEF Idle, Operation
<1>2. Moves(t, Idle)
  BY IdleLocal DEF Moves, Return
<1>3. /\ loc' \in [Goroutine -> Local] /\ loc'[t] = Idle
      /\ \A u \in Goroutine : u # t => loc'[u] = loc[u]
  BY <1>1, <1>2, LocStep
<1>4. /\ cmMu = t /\ current = NoCall /\ loc[t].call \in seen /\ loc[t].call \in Call
      /\ \A u \in Goroutine : u # t => loc[u].op \notin {"start", "answer", "stop"}
      /\ loc[t].at = "offerDone" => loc[t].call \in LocalCall
      /\ Pending(loc[t].call)
  BY <1>1 DEF Control, Reliance, RelyOn, Known, Connecting, Types
<1>5. Control'
  <2>1. Operation(t, Idle.at, Idle.op)
    BY <1>1 DEF Operation
  <2> QED
    BY <1>1, <1>2, <1>4, <2>1, ControlStep
<1>6. Types'
  BY <1>3, <1>4 DEF Types
<1>7. Known'
  BY <1>1, <1>3, <1>4 DEF Known, Exists, InCallback, Connecting
<1>8. \A c, S : InState(c, S)' <=> InState(c, S)
  BY DEF InState, Exists
<1>9. \A c : Live(c)' <=> Live(c)
  BY <1>8 DEF Live
<1>10. \A c : Pending(c) => Pending(c)'
  BY <1>1, <1>3, <1>9 DEF Pending, InCallback
<1>11. Reliance'
  <2> SUFFICES ASSUME NEW u \in Goroutine, NEW k, k = loc'[u] PROVE RelyOn(k)'
    BY RelianceIntro
  <2>1. CASE u # t
    <3>1. k = loc[u] /\ RelyOn(k) /\ k.op \notin {"start", "answer", "stop"}
      BY <1>3, <1>4, <2>1 DEF Reliance
    <3>2. k.at # "stopNext"
      BY <3>1 DEF Control, Operation
    <3> QED
      BY <1>8, <1>9, <1>10, <3>1, <3>2 DEF RelyOn
  <2>2. CASE u = t
    BY <1>1, <1>3, <2>2 DEF RelyOn, Connecting, InCallback
  <2> QED
    BY <2>1, <2>2
<1>12. Engaged'
  <2> SUFFICES ASSUME NEW c \in Call \ (Repeated \cup forced), Taken(c) PROVE Taken(c)'
    BY <1>8, <1>9 DEF Engaged
  <2> QED
    BY <1>3, <1>4, CallAssumption DEF Taken, Goroutine
<1>13. CurrentPending'
  BY <1>4, <1>10, CurrentIntro
<1> QED
  BY <1>5, <1>6, <1>7, <1>11, <1>12, <1>13

LEMMA OfferStartedKeeps ==
  ASSUME IInv, NEW t \in Thread, OfferStarted(t)
  PROVE  IInv'
BY TakeStep DEF OfferStarted

LEMMA AnsweredKeeps ==
  ASSUME IInv, NEW t \in Thread, Answered(t)
  PROVE  IInv'
BY TakeStep DEF Answered, At

\* handleSessionEnded and the end of EndCallByID: cm.mu is free, so nobody is placing
\* or answering a call, and the call that is forgotten is over.
LEMMA ClearStep ==
  ASSUME IInv, NEW t \in Goroutine, NEW l, Moves(t, l), Control', cmMu = Free,
         loc[t].at \in InCallback \cup {"clear"},
         current' = Cleared(loc[t].call), l.call \in {loc[t].call, NoCall},
         l.op = loc[t].op \/ l.op = "none",
         \/ l.at = "idle"
         \/ l.at = "clear" /\ loc[t].at \in InCallback /\ l.call = loc[t].call
         \/ l.at = "sweep" /\ l.todo = loc[t].todo /\ loc[t].at = "sweepCb",
         UNCHANGED <<sessions, seen, timers, stopped, now, forced>>
  PROVE  IInv'
<1> USE DEF IInv
<1> DEFINE c == loc[t].call
<1>1. /\ l \in Local /\ loc' \in [Goroutine -> Local] /\ loc'[t] = l
      /\ \A u \in Goroutine : u # t => loc'[u] = loc[u]
  BY LocStep
<1>2. \A u \in Goroutine : loc[u].op \notin {"start", "answer", "stop"}
  BY ThreadAssumption DEF Control, Goroutine
<1>3. \A u \in Goroutine : loc[u].at \notin Connecting \cup {"stopNext"}
  BY <1>2 DEF Control, Operation, Connecting
<1>4. c \notin Repeated => ~Live(c)
  BY DEF Reliance, RelyOn
<1>5. \A x, S : InState(x, S)' <=> InState(x, S)
  BY DEF InState, Exists
<1>6. \A x : Live(x)' <=> Live(x)
  BY <1>5 DEF Live
<1>7. Types'
  BY <1>1 DEF Types, Cleared
<1>8. Known'
  BY <1>1 DEF Known, Exists, InCallback, Connecting, Cleared
<1>9. Reliance'
  <2> SUFFICES ASSUME NEW u \in Goroutine, NEW k, k = loc'[u] PROVE RelyOn(k)'
    BY RelianceIntro
  <2>1. CASE u # t
    <3>1. k = loc[u] /\ RelyOn(k)
      BY <1>1, <2>1 DEF Reliance
    <3> QED
      BY <1>2, <1>3, <1>5, <1>6, <3>1 DEF RelyOn
  <2>2. CASE u = t
    <3>1. k = l /\ RelyOn(loc[t])
      BY <1>1, <2>2 DEF Reliance
    <3> QED
      BY <1>2, <1>5, <1>6, <3>1 DEF RelyOn, Connecting, InCallback
  <2> QED
    BY <2>1, <2>2
<1>10. Engaged'
  <2> SUFFICES ASSUME NEW x \in Call \ (Repeated \cup forced'), Taken(x), Live(x) PROVE Taken(x)'
    BY <1>5, <1>6 DEF Engaged, Live, InState, CallState
  <2>1. current = x
    BY <1>3 DEF Taken, Goroutine
  <2>2. current' = x
    BY <1>4, <2>1 DEF Cleared
  <2> QED
    BY <2>2 DEF Taken
<1>11. CurrentPending'
  <2> SUFFICES ASSUME NEW x, x = current', x # NoCall PROVE Pending(x)'
    BY CurrentIntro
  <2>1. x = current /\ x # c
    BY DEF Cleared
  <2>2. Pending(x)
    BY <2>1 DEF CurrentPending
  <2> QED
    BY <1>1, <1>6, <2>1, <2>2 DEF Pending
<1> QED
  BY <1>7, <1>8, <1>9, <1>10, <1>11

LEMMA ClearCurrentKeeps ==
  ASSUME IInv, NEW t \in Thread, ClearCurrent(t)
  PROVE  IInv'
<1>1. /\ t \in Goroutine /\ t # Cleaner /\ Idle.at = "idle" /\ Idle.op = "none"
      /\ Idle.call = NoCall /\ loc[t].at = "clear"
      /\ loc[t].op \notin {"start", "answer", "stop"}
  BY OperationAt DEF Idle, Operation, ClearCurrent, At
<1>2. Moves(t, Idle)
  BY IdleLocal DEF Moves, Return, ClearCurrent
<1>3. Control'
  <2>1. Operation(t, Idle.at, Idle.op)
    BY <1>1 DEF Operation
  <2> QED
    BY <1>1, <1>2, <2>1, ControlStep DEF ClearCurrent, IInv, locks
<1> QED
  BY <1>1, <1>2, <1>3, ClearStep DEF ClearCurrent, At

LEMMA handleSessionEndedKeeps ==
  ASSUME IInv, NEW t \in Thread, handleSessionEnded(t)
  PROVE  IInv'
<1>1. /\ t \in Goroutine /\ t # Cleaner /\ loc[t] \in Local /\ loc[t].at = "endCb"
      /\ cmMu = Free /\ cmMu' = cmMu /\ smMu' = Free /\ current' = Cleared(loc[t].call)
      /\ UNCHANGED <<sessions, seen, timers, stopped, now, forced>>
  BY OperationAt DEF handleSessionEnded, At
<1>2. loc[t].op \notin {"start", "answer", "stop", "none"} /\ smMu = t
  BY <1>1, ThreadAssumption DEF IInv, Control, Operation, Goroutine
<1>3. CASE loc[t].op = "reject"
  <2>1. Idle.at = "idle" /\ Idle.op = "none" /\ Idle.call = NoCall
    BY DEF Idle
  <2>2. Moves(t, Idle)
    BY <1>3, IdleLocal DEF Moves, Return, handleSessionEnded
  <2>3. Operation(t, Idle.at, Idle.op)
    BY <1>1, <2>1 DEF Operation
  <2>4. Control'
    BY <1>1, <1>2, <2>1, <2>2, <2>3, ControlStep DEF IInv
  <2> QED
    BY <1>1, <2>1, <2>2, <2>4, ClearStep DEF InCallback
<1>4. CASE loc[t].op # "reject"
  <2> DEFINE l == [loc[t] EXCEPT !.at = "clear"]
  <2>1. l \in Local /\ l.at = "clear" /\ l.op = loc[t].op /\ l.call = loc[t].call
    BY <1>1 DEF Local, ControlPoint
  <2>2. Goto(t, "clear")
    BY <1>2, <1>4 DEF handleSessionEnded
  <2>3. Moves(t, l)
    BY <1>1, <2>1, <2>2 DEF Moves, Goto, IInv, Types
  <2> HIDE DEF l
  <2>4. Operation(t, l.at, l.op)
    BY <1>1, <1>2, <2>1 DEF Operation
  <2>5. Control'
    BY <1>1, <1>2, <2>1, <2>3, <2>4, ControlStep DEF IInv
  <2> QED
    BY <1>1, <2>1, <2>3, <2>5, ClearStep DEF InCallback
<1> QED
  BY <1>3, <1>4

LEMMA ExpiredCallbackKeeps ==
  ASSUME IInv, ExpiredCallback
  PROVE  IInv'
<1> DEFINE t == Cleaner
<1>1. /\ t \in Goroutine /\ loc[t] \in Local /\ loc[t].at = "sweepCb" /\ loc[t].op = "none"
      /\ cmMu = Free /\ cmMu' = cmMu /\ smMu = t /\ current' = Cleared(loc[t].call)
      /\ UNCHANGED <<sessions, seen, timers, stopped, now, forced>>
  BY DEF ExpiredCallback, At, IInv, Types, Control, Operation, Goroutine
<1>2. CASE loc[t].todo = {}
  <2>1. Idle.at = "idle" /\ Idle.op = "none" /\ Idle.call = NoCall
    BY DEF Idle
  <2>2. Moves(t, Idle) /\ smMu' = Free
    BY <1>2, IdleLocal DEF Moves, Return, ExpiredCallback
  <2>3. Operation(t, Idle.at, Idle.op)
    BY <1>1, <2>1 DEF Operation
  <2>4. Control'
    BY <1>1, <2>1, <2>2, <2>3, ControlStep DEF IInv
  <2> QED
    BY <1>1, <2>1, <2>2, <2>4, ClearStep DEF InCallback
<1>3. CASE loc[t].todo # {}
  <2> DEFINE l == [loc[t] EXCEPT !.at = "sweep"]
  <2>1. /\ l \in Local /\ l.at = "sweep" /\ l.op = "none" /\ l.call = loc[t].call
        /\ l.todo = loc[t].todo
    BY <1>1 DEF Local, ControlPoint
  <2>2. Goto(t, "sweep") /\ smMu' = smMu
    BY <1>3 DEF ExpiredCallback
  <2>3. Moves(t, l)
    BY <1>1, <2>1, <2>2 DEF Moves, Goto, IInv, Types
  <2> HIDE DEF l
  <2>4. Operation(t, l.at, l.op)
    BY <1>1, <2>1 DEF Operation
  <2>5. Control'
    BY <1>1, <2>1, <2>2, <2>3, <2>4, ControlStep DEF IInv
  <2> QED
    BY <1>1, <2>1, <2>3, <2>5, ClearStep DEF InCallback
<1> QED
  BY <1>2, <1>3
-----------------------------------------------------------------------------
(* Steps that change a session *)

\* A session is over: it has ended or was removed, and the goroutine that saw to it
\* will report it with sm.mu held.
LEMMA OverStep ==
  ASSUME IInv, NEW t \in Goroutine, NEW l, Moves(t, l), Control', NEW c \in Call,
         Live(c), ~(Live(c)'), \A x \in Call : x # c => sessions'[x] = sessions[x],
         sessions' \in [Call -> Session \cup {NoSession}],
         l.at \in InCallback, l.call = c,
         loc[t].at \in {"end", "stopNext", "sweep"}, smMu = Free \/ smMu = t,
         l.at = "sweepCb" => loc[t].at = "sweep" /\ l.todo \subseteq loc[t].todo \ {c},
         UNCHANGED <<current, seen, timers, stopped, now, forced>>
  PROVE  IInv'
<1> USE DEF IInv
<1>1. /\ l \in Local /\ loc' \in [Goroutine -> Local] /\ loc'[t] = l
      /\ \A u \in Goroutine : u # t => loc'[u] = loc[u]
  BY LocStep
<1>2. \A u \in Goroutine : loc[u].at \notin InCallback /\ (u # t => loc[u].at # "sweep")
  BY ThreadAssumption DEF Control, Goroutine, InCallback
<1>3. \A x \in Call : \A S : x # c => (InState(x, S)' <=> InState(x, S))
  BY DEF InState, Exists
<1>4. \A x \in Call : Live(x)' => Live(x) /\ x # c
  BY <1>3 DEF Live
<1>5. \A x \in Call : Pending(x) => Pending(x)'
  <2> SUFFICES ASSUME NEW x \in Call, Live(x) PROVE Pending(x)'
    BY <1>2 DEF Pending
  <2>1. CASE x = c
    BY <1>1, <2>1 DEF Pending
  <2>2. CASE x # c
    BY <1>3, <2>2 DEF Pending, Live
  <2> QED
    BY <2>1, <2>2
<1>6. Types'
  BY <1>1 DEF Types
<1>7. c \in seen /\ Exists(c)
  BY DEF Known, Live, InState
<1>8. Known'
  <2>1. \A x \in Call : Exists(x)' => x \in seen'
    BY <1>7 DEF Known, Exists
  <2>2. l.at \notin {"offerSdp", "offerDone"}
    BY DEF InCallback
  <2> QED
    BY <1>1, <1>7, <2>1, <2>2 DEF Known
<1>9. Reliance'
  <2> SUFFICES ASSUME NEW u \in Goroutine, NEW k, k = loc'[u] PROVE RelyOn(k)'
    BY RelianceIntro
  <2>0. \A v \in Goroutine : loc[v].at \in Connecting \cup {"clear"} => loc[v].call \in Call
    BY DEF Known, Types
  <2>1. CASE u # t
    <3>1. k = loc[u] /\ RelyOn(k) /\ k.at \notin InCallback \cup {"sweep"}
      BY <1>1, <1>2, <2>1 DEF Reliance
    <3>2. k.at \in Connecting \cup {"clear"} => k.call \in Call
      BY <2>0, <3>1
    <3> QED
      BY <1>4, <1>5, <3>1, <3>2 DEF RelyOn, InCallback, Types
  <2>2. CASE u = t
    <3>1. k = l /\ RelyOn(loc[t]) /\ l.op \notin {"start", "answer"}
      BY <1>1, <2>2 DEF Reliance, Control, Operation, InCallback
    <3>2. l.at = "sweepCb" => \A x \in l.todo : InState(x, {"offered"})'
      <4> SUFFICES ASSUME l.at = "sweepCb", NEW x \in l.todo PROVE InState(x, {"offered"})'
        OBVIOUS
      <4>1. x \in loc[t].todo /\ x # c /\ x \in Call
        BY <1>1 DEF Local
      <4>2. InState(x, {"offered"})
        BY <3>1, <4>1 DEF RelyOn
      <4> QED
        BY <1>3, <4>1, <4>2
    <3> QED
      BY <3>1, <3>2 DEF RelyOn, Connecting, InCallback
  <2> QED
    BY <2>1, <2>2
<1>10. Engaged'
  <2>1. \A x \in Call : Taken(x) => Taken(x)'
    BY <1>1 DEF Taken, Goroutine, Connecting
  <2>2. \A x \in Call : \A S : InState(x, S)' /\ S \subseteq CallState \ {"ended"}
                            => InState(x, S)
    <3> SUFFICES ASSUME NEW x \in Call, NEW S, InState(x, S)', S \subseteq CallState \ {"ended"}
                 PROVE  InState(x, S)
      OBVIOUS
    <3>1. Live(x)'
      BY DEF Live, InState
    <3> QED
      BY <1>3, <1>4, <3>1
  <2>3. {"accepted", "connecting", "active"} \subseteq CallState \ {"ended"}
    BY DEF CallState
  <2> QED
    BY <1>4, <2>1, <2>2, <2>3 DEF Engaged
<1>11. CurrentPending'
  BY <1>5, CurrentIntro DEF CurrentPending, Types
<1> QED
  BY <1>6, <1>8, <1>9, <1>10, <1>11

\* Setting the state of a session.
LEMMA SetStateProps ==
  ASSUME Types, NEW c \in Call, Exists(c), NEW s \in CallState, SetState(c, s)
  PROVE  /\ sessions' \in [Call -> Session \cup {NoSession}]
         /\ \A x \in Call : x # c => sessions'[x] = sessions[x]
         /\ sessions'[c] \in Session /\ sessions'[c] # NoSession /\ sessions'[c].state = s
<1>1. sessions \in [Call -> Session \cup {NoSession}] /\ sessions[c] \in Session
  BY DEF Types, Exists
<1>2. [sessions[c] EXCEPT !.state = s] \in Session
  BY <1>1 DEF Session
<1>3. sessions' = [sessions EXCEPT ![c] = [sessions[c] EXCEPT !.state = s]]
  BY <1>1 DEF SetState
<1>4. [sessions[c] EXCEPT !.state = s].state = s
  BY <1>1 DEF Session
<1> QED
  BY <1>1, <1>2, <1>3, <1>4, SessionAssumption

LEMMA EndCallKeeps ==
  ASSUME IInv, NEW t \in Thread, EndCall(t)
  PROVE  IInv'
<1>0. PICK c : c = loc[t].call
  OBVIOUS
<1>1. /\ t \in Goroutine /\ t # Cleaner /\ loc[t] \in Local /\ loc[t].at = "end"
      /\ loc[t].op \notin {"start", "answer", "stop", "none"} /\ smMu = Free
      /\ UNCHANGED <<current, cmMu, seen, timers, stopped, now, forced>>
  BY OperationAt DEF EndCall, At, Operation
<1>2. CASE Live(c) /\ SetState(c, "ended") /\ smMu' = t /\ Goto(t, "endCb")
  <2> DEFINE l == [loc[t] EXCEPT !.at = "endCb"]
  <2>1. l \in Local /\ l.at = "endCb" /\ l.op = loc[t].op /\ l.call = c
    BY <1>0, <1>1 DEF Local, ControlPoint
  <2>2. Moves(t, l)
    BY <1>1, <1>2, <2>1 DEF Moves, Goto, IInv, Types
  <2> HIDE DEF l
  <2>3. Operation(t, l.at, l.op)
    BY <1>1, <2>1 DEF Operation
  <2>4. Control'
    BY <1>1, <1>2, <2>1, <2>2, <2>3, ControlStep DEF IInv
  <2>5. c \in Call /\ Exists(c)
    BY <1>0, <1>1, <1>2 DEF IInv, Known, Types, Live, InState
  <2>6. /\ sessions' \in [Call -> Session \cup {NoSession}]
        /\ \A x \in Call : x # c => sessions'[x] = sessions[x]
        /\ sessions'[c].state = "ended"
    BY <1>2, <2>5, SetStateProps DEF IInv, CallState
  <2>7. ~(Live(c)')
    BY <2>6 DEF Live, InState
  <2> QED
    BY <1>1, <1>2, <2>1, <2>2, <2>4, <2>5, <2>6, <2>7, OverStep DEF InCallback
<1>3. CASE ~Live(c) /\ Return(t) /\ UNCHANGED <<sessions, smMu>>
  BY <1>0, <1>1, <1>3, ReturnStep DEF InCallback, Connecting
<1>4. CASE ~Live(c) /\ Goto(t, "clear") /\ UNCHANGED <<sessions, smMu>>
  BY <1>0, <1>1, <1>4, GotoStep
<1> QED
  BY <1>0, <1>2, <1>3, <1>4 DEF EndCall

LEMMA StopEndCallKeeps ==
  ASSUME IInv, NEW t \in Thread, StopEndCall(t)
  PROVE  IInv'
<1>1. /\ t \in Goroutine /\ t # Cleaner /\ loc[t] \in Local /\ loc[t].at = "stopNext"
      /\ loc[t].op = "stop" /\ smMu = Free
      /\ UNCHANGED <<current, cmMu, seen, timers, stopped, now, forced>>
  BY OperationAt DEF StopEndCall, At, Operation
<1>2. PICK c \in loc[t].todo :
        /\ loc' = [loc EXCEPT ![t].at = IF Live(c) THEN "endCb" ELSE "stopNext",
                              ![t].call = c, ![t].todo = @ \ {c}]
        /\ IF Live(c) THEN SetState(c, "ended") /\ smMu' = t
                      ELSE UNCHANGED <<sessions, smMu>>
  BY DEF StopEndCall
<1> DEFINE l == [loc[t] EXCEPT !.at = IF Live(c) THEN "endCb" ELSE "stopNext",
                               !.call = c, !.todo = @ \ {c}]
<1>3. c \in Call
  BY <1>1 DEF Local
<1>4. /\ l \in Local /\ l.op = "stop" /\ l.call = c /\ l.todo = loc[t].todo \ {c}
      /\ l.at = IF Live(c) THEN "endCb" ELSE "stopNext"
  BY <1>1, <1>3 DEF Local, ControlPoint
<1>5. Moves(t, l)
  BY <1>1, <1>2, <1>4 DEF Moves, IInv, Types
<1> HIDE DEF l
<1>6. Operation(t, l.at, l.op)
  BY <1>1, <1>4 DEF Operation
<1>7. Control'
  BY <1>1, <1>2, <1>4, <1>5, <1>6, ControlStep DEF IInv
<1>8. CASE Live(c)
  <2>1. Exists(c)
    BY <1>8 DEF Live, InState
  <2>2. /\ sessions' \in [Call -> Session \cup {NoSession}]
        /\ \A x \in Call : x # c => sessions'[x] = sessions[x]
        /\ sessions'[c].state = "ended"
    BY <1>2, <1>3, <1>8, <2>1, SetStateProps DEF IInv, CallState
  <2>3. ~(Live(c)')
    BY <2>2 DEF Live, InState
  <2> QED
    BY <1>1, <1>3, <1>4, <1>5, <1>7, <1>8, <2>2, <2>3, OverStep DEF InCallback
<1>9. CASE ~Live(c)
  <2>1. current # NoCall /\ Live(current) => current \in l.todo
    BY <1>1, <1>4, <1>9 DEF IInv, Reliance, RelyOn
  <2>2. stopped' \in BOOLEAN
    BY <1>1 DEF IInv, Types
  <2> QED
    BY <1>1, <1>2, <1>4, <1>5, <1>7, <1>9, <2>1, <2>2, LocalStep DEF InCallback, Connecting
<1> QED
  BY <1>8, <1>9

LEMMA RemoveExpiredKeeps ==
  ASSUME IInv, RemoveExpired
  PROVE  IInv'
<1> DEFINE t == Cleaner
<1>1. /\ t \in Goroutine /\ loc[t] \in Local /\ loc[t].at = "sweep" /\ loc[t].op = "none"
      /\ smMu = t /\ UNCHANGED <<current, cmMu, smMu, seen, timers, stopped, now, forced>>
  BY DEF RemoveExpired, At, IInv, Types, Control, Operation, Goroutine, locks
<1>2. PICK c \in loc[t].todo :
        /\ sessions' = [sessions EXCEPT ![c] = NoSession]
        /\ loc' = [loc EXCEPT ![t].at = "sweepCb", ![t].call = c, ![t].todo = @ \ {c}]
  BY DEF RemoveExpired
<1> DEFINE l == [loc[t] EXCEPT !.at = "sweepCb", !.call = c, !.todo = @ \ {c}]
<1>3. c \in Call
  BY <1>1 DEF Local
<1>4. /\ l \in Local /\ l.op = "none" /\ l.call = c /\ l.todo = loc[t].todo \ {c}
      /\ l.at = "sweepCb"
  BY <1>1, <1>3 DEF Local, ControlPoint
<1>5. Moves(t, l)
  BY <1>1, <1>2, <1>4 DEF Moves, IInv, Types
<1> HIDE DEF l
<1>6. Operation(t, l.at, l.op)
  BY <1>1, <1>4 DEF Operation
<1>7. Control'
  BY <1>1, <1>2, <1>4, <1>5, <1>6, ControlStep DEF IInv
<1>8. Live(c)
  <2>1. InState(c, {"offered"})
    BY <1>1 DEF IInv, Reliance, RelyOn
  <2> QED
    BY <2>1 DEF Live, InState, CallState
<1>9. /\ sessions' \in [Call -> Session \cup {NoSession}] /\ sessions'[c] = NoSession
      /\ \A x \in Call : x # c => sessions'[x] = sessions[x]
  BY <1>2, <1>3 DEF IInv, Types
<1>10. ~(Live(c)')
  BY <1>9 DEF Live, InState, Exists
<1> QED
  BY <1>1, <1>3, <1>4, <1>5, <1>7, <1>8, <1>9, <1>10, OverStep DEF InCallback
\* A session that is not over advances, with sm.mu free.
LEMMA AdvanceStep ==
  ASSUME IInv, NEW t \in Goroutine, NEW l, Moves(t, l), Control', NEW c \in Call,
         Live(c), NEW s \in {"accepted", "connecting", "active"}, SetState(c, s),
         smMu = Free, forced \subseteq forced', forced' \subseteq RemoteCall,
         c \in Repeated \cup forced' \/ Taken(c)',
         l = loc[t] \/ (loc[t].at = "accept" /\ l.at = "answerSdp" /\ l.call = c
                         /\ l.op = loc[t].op),
         UNCHANGED <<current, seen, timers, stopped, now>>
  PROVE  IInv'
<1> USE DEF IInv
<1>1. /\ l \in Local /\ loc' \in [Goroutine -> Local] /\ loc'[t] = l
      /\ \A u \in Goroutine : u # t => loc'[u] = loc[u]
  BY LocStep
<1>2. \A u \in Goroutine : loc[u].at \notin {"endCb", "sweep", "sweepCb"}
  BY ThreadAssumption DEF Control, Goroutine
<1>3. Exists(c) /\ c \in seen /\ s \in CallState
  BY DEF Live, InState, Known, CallState
<1>4. /\ sessions' \in [Call -> Session \cup {NoSession}]
      /\ \A x \in Call : x # c => sessions'[x] = sessions[x]
      /\ sessions'[c] # NoSession /\ sessions'[c].state = s
  BY <1>3, SetStateProps
<1>5. \A x \in Call : \A S : x # c => (InState(x, S)' <=> InState(x, S))
  BY <1>4 DEF InState, Exists
<1>6. \A x \in Call : Live(x)' <=> Live(x)
  <2>1. Live(c)'
    BY <1>4 DEF Live, InState, Exists, CallState
  <2> QED
    BY <1>5, <2>1 DEF Live
<1>7. \A x \in Call : Pending(x) => Pending(x)'
  BY <1>2, <1>6 DEF Pending, InCallback
<1>8. Types'
  BY <1>1, <1>4 DEF Types
<1>9. Known'
  <2>1. \A x \in Call : Exists(x)' => x \in seen'
    BY <1>3, <1>4 DEF Known, Exists
  <2> QED
    BY <1>1, <1>3, <2>1 DEF Known, InCallback, Connecting
<1>10. Reliance'
  <2> SUFFICES ASSUME NEW u \in Goroutine, NEW k, k = loc'[u] PROVE RelyOn(k)'
    BY RelianceIntro
  <2>1. loc[u].at \in Connecting \cup {"clear"} => loc[u].call \in Call
    BY DEF Known, Types
  <2>2. RelyOn(loc[u]) /\ loc[u].at \notin {"endCb", "sweep", "sweepCb"}
    BY <1>2 DEF Reliance
  <2>3. CASE k = loc[u]
    BY <1>6, <1>7, <2>1, <2>2, <2>3 DEF RelyOn, InCallback, Types
  <2>4. CASE k # loc[u]
    <3>1. k.at = "answerSdp" /\ k.call = c /\ k.op = loc[u].op
      BY <1>1, <2>4
    <3>2. Pending(c)'
      BY <1>6 DEF Pending
    <3> QED
      BY <2>2, <3>1, <3>2 DEF RelyOn, InCallback
  <2> QED
    BY <2>3, <2>4
<1>11. Engaged'
  <2> SUFFICES ASSUME NEW x \in Call \ (Repeated \cup forced'),
                      \/ InState(x, {"accepted", "connecting", "active"})'
                      \/ x \in LocalCall /\ Live(x)'
               PROVE  Taken(x)'
    BY DEF Engaged
  <2>1. CASE x = c
    BY <2>1
  <2>2. CASE x # c
    <3>1. Taken(x)
      BY <1>5, <1>6, <2>2 DEF Engaged
    <3> QED
      BY <1>1, <3>1 DEF Taken, Goroutine, Connecting
  <2> QED
    BY <2>1, <2>2
<1>12. CurrentPending'
  BY <1>7, CurrentIntro DEF CurrentPending, Types
<1> QED
  BY <1>8, <1>9, <1>10, <1>11, <1>12

LEMMA AcceptKeeps ==
  ASSUME IInv, NEW t \in Thread, Accept(t)
  PROVE  IInv'
<1>0. PICK c : c = loc[t].call
  OBVIOUS
<1>1. /\ t \in Goroutine /\ t # Cleaner /\ loc[t] \in Local /\ loc[t].at = "accept"
      /\ loc[t].op = "answer" /\ smMu = Free
      /\ UNCHANGED <<current, smMu, seen, timers, stopped, now, forced>>
  BY OperationAt DEF Accept, At, Operation
<1>2. CASE CanAccept(c)
  <2> DEFINE l == [loc[t] EXCEPT !.at = "answerSdp"]
  <2>1. l \in Local /\ l.at = "answerSdp" /\ l.op = loc[t].op /\ l.call = c
    BY <1>0, <1>1 DEF Local, ControlPoint
  <2>2. SetState(c, "accepted") /\ Goto(t, "answerSdp") /\ cmMu' = cmMu
    BY <1>0, <1>2 DEF Accept
  <2>3. Moves(t, l)
    BY <1>1, <2>1, <2>2 DEF Moves, Goto, IInv, Types
  <2> HIDE DEF l
  <2>4. Operation(t, l.at, l.op)
    BY <1>1, <2>1 DEF Operation
  <2>5. Control'
    BY <1>1, <2>1, <2>2, <2>3, <2>4, ControlStep DEF IInv
  <2>6. Live(c)
    BY <1>2 DEF CanAccept, Live, InState, CallState
  <2>7. c \in Call
    BY <1>0, <1>1 DEF IInv, Control
  <2>8. loc'[t] = l
    BY <1>1, <2>3, LocStep DEF IInv
  <2>9. Taken(c)'
    BY <2>1, <2>8 DEF Taken, Connecting
  <2>10. forced \subseteq forced' /\ forced' \subseteq RemoteCall
    BY <1>1 DEF IInv, Types
  <2> QED
    BY <1>1, <2>1, <2>2, <2>3, <2>5, <2>6, <2>7, <2>9, <2>10, AdvanceStep
<1>3. CASE ~CanAccept(c)
  BY <1>0, <1>1, <1>3, ReturnStep DEF Accept, InCallback, Connecting
<1> QED
  BY <1>2, <1>3
\* A step that leaves every goroutine where it is.
LEMMA StandStill ==
  ASSUME IInv, UNCHANGED <<loc, cmMu, smMu>>, NEW t \in Goroutine
  PROVE  Moves(t, loc[t]) /\ Control'
BY DEF IInv, Types, Control, Operation, Moves

LEMMA handleAnswerKeeps ==
  ASSUME IInv, NEW t \in Thread, NEW c \in Call, handleAnswer(t, c)
  PROVE  IInv'
<1>1. /\ t \in Goroutine /\ CanConnect(c) /\ SetState(c, "connecting") /\ smMu = Free
      /\ UNCHANGED <<current, cmMu, smMu, loc, seen, timers, stopped, now>>
      /\ forced' = IF c \in RemoteCall /\ InState(c, {"offered"}) THEN forced \cup {c} ELSE forced
  BY DEF handleAnswer, locks, Goroutine
<1>2. Live(c)
  BY <1>1 DEF CanConnect, Live, InState, CallState
<1>3. forced \subseteq forced' /\ forced' \subseteq RemoteCall
  BY <1>1 DEF IInv, Types
<1>4. c \in Repeated \cup forced' \/ Taken(c)'
  <2>1. CASE c \in RemoteCall /\ InState(c, {"offered"})
    BY <1>1, <2>1
  <2>2. CASE c \in LocalCall
    BY <1>1, <1>2, <1>3, <2>2 DEF IInv, Engaged, Taken
  <2>3. CASE InState(c, {"accepted"})
    <3>1. InState(c, {"accepted", "connecting", "active"})
      BY <2>3 DEF InState
    <3> QED BY <1>1, <1>3, <3>1 DEF IInv, Engaged, Taken
  <2>4. c \in LocalCall \/ c \in RemoteCall
    BY DEF Call
  <2>5. InState(c, {"offered"}) \/ InState(c, {"accepted"})
    BY <1>1 DEF CanConnect, InState
  <2> QED
    BY <2>1, <2>2, <2>3, <2>4, <2>5
<1>5. Moves(t, loc[t]) /\ Control'
  BY <1>1, StandStill
<1> QED
  BY <1>1, <1>2, <1>3, <1>4, <1>5, AdvanceStep

LEMMA MediaFlowsKeeps ==
  ASSUME IInv, NEW t \in Thread, NEW c \in Call, MediaFlows(t, c)
  PROVE  IInv'
<1>1. /\ t \in Goroutine /\ InState(c, {"connecting", "accepted"}) /\ SetState(c, "active")
      /\ smMu = Free
      /\ UNCHANGED <<current, cmMu, smMu, loc, seen, timers, stopped, now, forced>>
  BY DEF MediaFlows, locks, Goroutine
<1>2. Live(c) /\ InState(c, {"accepted", "connecting", "active"})
  BY <1>1 DEF Live, InState, CallState
<1>3. c \in Repeated \cup forced' \/ Taken(c)'
  BY <1>1, <1>2 DEF IInv, Engaged, Taken
<1>4. Moves(t, loc[t]) /\ Control'
  BY <1>1, StandStill
<1>5. forced \subseteq forced' /\ forced' \subseteq RemoteCall
  BY <1>1 DEF IInv, Types
<1> QED
  BY <1>1, <1>2, <1>3, <1>4, <1>5, AdvanceStep

\* A session is created for a call id that is new, or for an offer that comes again.
LEMMA CreateStep ==
  ASSUME IInv, NEW t \in Goroutine, NEW l, Moves(t, l), Control', NEW c \in Call,
         ~Exists(c), c \notin seen \/ c \in Repeated, smMu = Free, NEW p \in Peer,
         NEW in \in BOOLEAN, sessions' = [sessions EXCEPT ![c] = NewSession(p, in)],
         seen' = seen \cup {c},
         \/ l = loc[t] /\ c \notin LocalCall
         \/ /\ loc[t].at = "offer" /\ l.at = "offerSdp" /\ l.call = c /\ l.op = loc[t].op
            /\ c \in LocalCall /\ t \in Thread,
         UNCHANGED <<current, timers, stopped, now, forced>>
  PROVE  IInv'
<1> USE DEF IInv
<1>1. /\ l \in Local /\ loc' \in [Goroutine -> Local] /\ loc'[t] = l
      /\ \A u \in Goroutine : u # t => loc'[u] = loc[u]
  BY LocStep
<1>2. \A u \in Goroutine : loc[u].at \notin {"endCb", "sweep", "sweepCb"}
  BY ThreadAssumption DEF Control, Goroutine
<1>3. /\ NewSession(p, in) \in Session /\ NewSession(p, in).state = "offered"
      /\ NewSession(p, in) # NoSession
  <2>1. now \in Nat
    BY TimeAssumption DEF Types
  <2>2. NewSession(p, in) \in Session
    BY <2>1, TimeAssumption DEF NewSession, Session, CallState
  <2> QED
    BY <2>2, SessionAssumption DEF NewSession
<1>4. /\ sessions' \in [Call -> Session \cup {NoSession}]
      /\ \A x \in Call : x # c => sessions'[x] = sessions[x]
      /\ sessions'[c] # NoSession /\ sessions'[c].state = "offered"
  BY <1>3 DEF Types
<1>5. \A x \in Call : \A S : x # c => (InState(x, S)' <=> InState(x, S))
  BY <1>4 DEF InState, Exists
<1>6. Live(c)' /\ ~Live(c) /\ ~(InState(c, {"accepted", "connecting", "active"})')
  BY <1>4 DEF Live, InState, Exists, CallState
<1>7. \A x \in Call : x # c => (Live(x)' <=> Live(x))
  BY <1>5 DEF Live
<1>8. \A x \in Call : Pending(x) => Pending(x)'
  BY <1>2, <1>6, <1>7 DEF Pending, InCallback
<1>9. current # c
  <2> SUFFICES ASSUME current = c PROVE FALSE
    OBVIOUS
  <2>1. Pending(c)
    BY CallAssumption DEF CurrentPending
  <2> QED
    BY <1>2, <1>6, <2>1 DEF Pending, InCallback
<1>10. Types'
  BY <1>1, <1>4 DEF Types
<1>11. Known'
  <2>1. \A x \in Call : Exists(x)' => x \in seen'
    BY <1>4 DEF Known, Exists
  <2>2. \A u \in Goroutine :
          /\ loc'[u].at \in Connecting \cup InCallback \cup {"end", "clear"}
               => loc'[u].call \in seen'
          /\ loc'[u].at \in {"offerSdp", "offerDone"} => loc'[u].call \in LocalCall
    BY <1>1 DEF Known
  <2> QED
    BY <2>1, <2>2 DEF Known
<1>12. Reliance'
  <2> SUFFICES ASSUME NEW u \in Goroutine, NEW k, k = loc'[u] PROVE RelyOn(k)'
    BY RelianceIntro
  <2>1. loc[u].at \in Connecting \cup {"clear"} => loc[u].call \in Call /\ loc[u].call \in seen
    BY DEF Known, Types
  <2>2. RelyOn(loc[u]) /\ loc[u].at \notin {"endCb", "sweep", "sweepCb"}
    BY <1>2 DEF Reliance
  <2>3. CASE k = loc[u]
    BY <1>7, <1>8, <1>9, <2>1, <2>2, <2>3 DEF RelyOn, InCallback, Types
  <2>4. CASE k # loc[u]
    <3>1. k.at = "offerSdp" /\ k.call = c /\ k.op = loc[u].op
      BY <1>1, <2>4
    <3>2. Pending(c)'
      BY <1>6 DEF Pending
    <3> QED
      BY <2>2, <3>1, <3>2 DEF RelyOn, InCallback
  <2> QED
    BY <2>3, <2>4
<1>13. Engaged'
  <2> SUFFICES ASSUME NEW x \in Call \ (Repeated \cup forced'),
                      \/ InState(x, {"accepted", "connecting", "active"})'
                      \/ x \in LocalCall /\ Live(x)'
               PROVE  Taken(x)'
    BY DEF Engaged
  <2>1. CASE x = c
    <3>1. c \in LocalCall
      BY <1>6, <2>1
    <3> QED
      BY <1>1, <2>1, <3>1 DEF Taken, Connecting
  <2>2. CASE x # c
    <3>1. Taken(x)
      BY <1>5, <1>7, <2>2 DEF Engaged
    <3> QED
      BY <1>1, <3>1 DEF Taken, Goroutine, Connecting
  <2> QED
    BY <2>1, <2>2
<1>14. CurrentPending'
  BY <1>8, CurrentIntro DEF CurrentPending, Types
<1> QED
  BY <1>10, <1>11, <1>12, <1>13, <1>14

LEMMA CreateOutgoingCallKeeps ==
  ASSUME IInv, NEW t \in Thread, CreateOutgoingCall(t)
  PROVE  IInv'
<1>1. PICK c \in LocalCall \ seen :
        /\ sessions' = [sessions EXCEPT ![c] = NewSession(loc[t].peer, FALSE)]
        /\ seen' = seen \cup {c}
        /\ loc' = [loc EXCEPT ![t].call = c, ![t].at = "offerSdp"]
  BY DEF CreateOutgoingCall
<1>2. /\ t \in Goroutine /\ t # Cleaner /\ loc[t] \in Local /\ loc[t].at = "offer"
      /\ loc[t].op = "start" /\ smMu = Free /\ loc[t].peer \in Peer
      /\ UNCHANGED <<current, cmMu, smMu, timers, stopped, now, forced>>
  BY OperationAt DEF CreateOutgoingCall, Operation, IInv, Control, locks
<1> DEFINE l == [loc[t] EXCEPT !.call = c, !.at = "offerSdp"]
<1>3. c \in Call /\ ~Exists(c)
  BY DEF Call, IInv, Known
<1>4. l \in Local /\ l.at = "offerSdp" /\ l.op = loc[t].op /\ l.call = c
  BY <1>2, <1>3 DEF Local, ControlPoint
<1>5. Moves(t, l)
  BY <1>1, <1>2, <1>4 DEF Moves, IInv, Types
<1> HIDE DEF l
<1>6. Operation(t, l.at, l.op)
  BY <1>2, <1>4 DEF Operation
<1>7. Control'
  BY <1>2, <1>4, <1>5, <1>6, ControlStep DEF IInv
<1> QED
  BY <1>1, <1>2, <1>3, <1>4, <1>5, <1>7, CreateStep

LEMMA handleOfferKeeps ==
  ASSUME IInv, NEW t \in Thread, NEW c \in RemoteCall, NEW p \in Peer, handleOffer(t, c, p)
  PROVE  IInv'
<1>1. /\ t \in Goroutine /\ c \in Call /\ c \notin LocalCall
      /\ sessions' = [sessions EXCEPT ![c] = NewSession(p, TRUE)]
      /\ ~Exists(c) /\ (c \notin seen \/ c \in Repeated) /\ seen' = seen \cup {c}
      /\ smMu = Free /\ UNCHANGED <<current, cmMu, smMu, loc, timers, stopped, now, forced>>
  BY CallAssumption DEF handleOffer, Goroutine, Call, locks
<1>2. Moves(t, loc[t]) /\ Control'
  BY <1>1, StandStill
<1> QED
  BY <1>1, <1>2, CreateStep

\* The end of Stop: no call can be current by then.
LEMMA StoppedKeeps ==
  ASSUME IInv, NEW t \in Thread, Stopped(t)
  PROVE  IInv'
<1> USE DEF IInv
<1>1. /\ t \in Goroutine /\ t # Cleaner /\ loc[t].at = "stopNext" /\ loc[t].op = "stop"
      /\ loc[t].todo = {} /\ smMu = Free /\ cmMu' = Free /\ stopped' = TRUE
      /\ sessions' = [c \in Call |-> IF Live(c) THEN [sessions[c] EXCEPT !.state = "ended"]
                                     ELSE sessions[c]]
      /\ UNCHANGED <<current, smMu, seen, timers, now, forced>>
      /\ Idle.at = "idle" /\ Idle.op = "none"
  BY OperationAt DEF Stopped, Operation, Idle
<1>2. Moves(t, Idle)
  BY IdleLocal DEF Moves, Return, Stopped
<1>3. /\ loc' \in [Goroutine -> Local] /\ loc'[t] = Idle
      /\ \A u \in Goroutine : u # t => loc'[u] = loc[u]
  BY <1>1, <1>2, LocStep
<1>4. /\ cmMu = t /\ \A u \in Goroutine : loc[u].at \notin {"endCb", "sweep", "sweepCb"}
      /\ \A u \in Goroutine : u # t => loc[u].op \notin {"start", "answer", "stop"}
  BY <1>1, ThreadAssumption DEF Control, Goroutine
<1>5. Control'
  <2>1. Operation(t, Idle.at, Idle.op)
    BY <1>1 DEF Operation
  <2> QED
    BY <1>1, <1>2, <1>4, <2>1, ControlStep
<1>6. current = NoCall
  <2> SUFFICES ASSUME current # NoCall PROVE FALSE
    OBVIOUS
  <2>1. Live(current)
    BY <1>4 DEF CurrentPending, Pending, InCallback
  <2> QED
    BY <1>1, <2>1 DEF Reliance, RelyOn
<1>7. ASSUME NEW c \in Call
      PROVE  /\ sessions'[c] \in Session \cup {NoSession} /\ ~(Live(c)')
             /\ Exists(c)' => Exists(c)
  <2>0. sessions[c] \in Session \cup {NoSession}
    BY DEF Types
  <2>1. CASE Live(c)
    <3>1. sessions[c] \in Session
      BY <2>0, <2>1 DEF Live, InState, Exists
    <3>2. /\ [sessions[c] EXCEPT !.state = "ended"] \in Session
          /\ [sessions[c] EXCEPT !.state = "ended"].state = "ended"
      BY <3>1 DEF Session, CallState
    <3>3. sessions'[c] = [sessions[c] EXCEPT !.state = "ended"]
      BY <1>1, <2>1
    <3> QED
      BY <2>1, <3>2, <3>3 DEF Live, InState, Exists
  <2>2. CASE ~Live(c)
    <3>1. sessions'[c] = sessions[c]
      BY <1>1, <2>2
    <3> QED
      BY <2>0, <2>2, <3>1 DEF Live, InState, Exists
  <2> QED
    BY <2>1, <2>2
<1>8. Types'
  <2>1. sessions' \in [Call -> Session \cup {NoSession}]
    BY <1>1, <1>7
  <2> QED
    BY <1>1, <1>3, <2>1 DEF Types
<1>9. Known'
  <2>1. \A x \in Call : Exists(x)' => x \in seen'
    BY <1>1, <1>7 DEF Known
  <2> QED
    BY <1>1, <1>3, <2>1 DEF Known, InCallback, Connecting
<1>10. Reliance'
  <2> SUFFICES ASSUME NEW u \in Goroutine, NEW k, k = loc'[u] PROVE RelyOn(k)'
    BY RelianceIntro
  <2>1. CASE u # t
    <3>1. k = loc[u] /\ k.op \notin {"start", "answer", "stop"}
          /\ k.at \notin {"endCb", "sweep", "sweepCb"}
      BY <1>3, <1>4, <2>1
    <3>2. k.at \notin Connecting \cup {"stopNext"}
      BY <3>1 DEF Control, Operation, Connecting
    <3>3. k.at = "clear" => k.call \in Call
      BY <3>1 DEF Known, Types
    <3> QED
      BY <1>7, <3>1, <3>2, <3>3 DEF RelyOn, InCallback
  <2>2. CASE u = t
    BY <1>1, <1>3, <2>2 DEF RelyOn, Connecting, InCallback
  <2> QED
    BY <2>1, <2>2
<1>11. Engaged'
  BY <1>7 DEF Engaged, Live, InState, CallState
<1>12. CurrentPending'
  BY <1>1, <1>6, CurrentIntro
<1> QED
  BY <1>5, <1>8, <1>9, <1>10, <1>11, <1>12

\* Time passes.
LEMMA ClockStep ==
  ASSUME IInv, now' \in 0..MaxTime,
         UNCHANGED <<sessions, current, cmMu, smMu, loc, seen, timers, stopped, forced>>
  PROVE  IInv'
<1> USE DEF IInv
<1>1. Types' /\ Control' /\ Known'
  BY DEF Types, Control, Operation, Known, Exists
<1>2. Reliance' /\ Engaged' /\ CurrentPending'
  BY DEF Reliance, RelyOn, Engaged, CurrentPending, Taken, Pending, Live, InState, Exists
<1> QED
  BY <1>1, <1>2
-----------------------------------------------------------------------------
(* The invariant *)

LEMMA InitHolds == Init => IInv
<1> SUFFICES ASSUME Init PROVE IInv
  OBVIOUS
<1>0. \A t \in Goroutine : loc[t] = Idle /\ loc[t].at = "idle" /\ loc[t].op = "none"
  BY DEF Init, Idle, Goroutine
<1>1. Types
  <2>1. loc \in [Goroutine -> Local]
    BY IdleLocal DEF Init, Goroutine
  <2>2. now \in 0..MaxTime
    BY TimeAssumption DEF Init
  <2> QED
    BY <2>1, <2>2 DEF Init, Types
<1>2. Control
  BY <1>0, ThreadAssumption DEF Init, Control, Operation, Goroutine
<1>3. \A c \in Call : ~Exists(c)
  BY DEF Init, Exists
<1>4. Known
  BY <1>0, <1>3 DEF Init, Known, Connecting, InCallback
<1>5. Reliance
  BY <1>0 DEF Init, Reliance, RelyOn, Connecting, InCallback
<1>6. Engaged
  BY <1>3 DEF Engaged, Live, InState
<1> QED
  BY <1>1, <1>2, <1>4, <1>5, <1>6 DEF IInv, CurrentPending, Init

LEMMA NextKeeps == IInv /\ [Next]_vars => IInv'
<1> SUFFICES ASSUME IInv, [Next]_vars PROVE IInv'
  OBVIOUS
<1>1. CASE UNCHANGED vars
  BY <1>1, ClockStep DEF vars, IInv, Types
<1>2. CASE Tick
  <2>1. now' \in 0..MaxTime
    BY <1>2, TimeAssumption DEF Tick, IInv, Types
  <2> QED
    BY <1>2, <2>1, ClockStep DEF Tick, locks
<1>3. ASSUME NEW t \in Thread, Continue(t) PROVE IInv'
  BY <1>3, CreateOutgoingCallKeeps, OfferRefusedKeeps, SendOfferKeeps, OfferStartedKeeps,
     AcceptKeeps, SendAnswerKeeps, AnsweredKeeps, EndCallKeeps, handleSessionEndedKeeps,
     ClearCurrentKeeps, StopListKeeps, StopEndCallKeeps, StoppedKeeps DEF Continue
<1>4. CASE Cleanup
  BY <1>4, CleanupTickKeeps, RemoveExpiredKeeps, ExpiredCallbackKeeps DEF Cleanup
<1> QED
  BY <1>1, <1>2, <1>3, <1>4, StartOutgoingCallKeeps, handleOfferKeeps, AnswerIncomingCallKeeps,
     RejectIncomingCallKeeps, handleAnswerKeeps, CallTimeoutKeeps, MediaFlowsKeeps,
     handleHangupKeeps, EndCurrentCallKeeps, StopKeeps DEF Next

LEMMA Implied == IInv => CallsAgree
<1> SUFFICES ASSUME IInv PROVE CallsAgree
  OBVIOUS
<1>1. TypeOK
  <2>1. DOMAIN loc = Thread \cup {Cleaner}
    BY DEF IInv, Types, Goroutine
  <2>2. ASSUME NEW t \in Goroutine
        PROVE  /\ loc[t].at \in ControlPoint
               /\ loc[t].call \in Call \cup {NoCall} /\ loc[t].todo \subseteq Call
    BY DEF IInv, Types, Local
  <2> QED
    BY <2>1, <2>2 DEF TypeOK, IInv, Types, Control, Goroutine
<1>2. CurrentCallLive
  BY DEF IInv, CurrentPending, Pending, InCallback, CurrentCallLive, Types, Goroutine
<1>3. EngagedIsCurrent
  BY DEF IInv, Engaged, Taken, Connecting, EngagedIsCurrent
<1> QED
  BY <1>1, <1>2, <1>3 DEF CallsAgree

-----------------------------------------------------------------------------
(* Sessions only move forward *)

\* What StatesAdvance says of one session.
Advances(c) ==
  Exists(c) =>
    IF sessions'[c] = NoSession THEN sessions[c].state = "offered"
    ELSE Rank(sessions'[c].state) >= Rank(sessions[c].state)

LEMMA RankValues ==
  /\ Rank("offered") = 1 /\ Rank("accepted") = 2 /\ Rank("connecting") = 3
  /\ Rank("active") = 4 /\ Rank("ended") = 5
BY DEF Rank

LEMMA RankType ==
  ASSUME NEW s \in CallState
  PROVE  Rank(s) \in 1 .. 5
BY RankValues DEF CallState

LEMMA SameAdvances ==
  ASSUME IInv, NEW c \in Call, sessions'[c] = sessions[c]
  PROVE  Advances(c)
<1> SUFFICES ASSUME Exists(c) PROVE Rank(sessions[c].state) >= Rank(sessions[c].state)
  BY DEF Advances, Exists
<1>1. sessions[c].state \in CallState
  BY DEF IInv, Types, Session, Exists
<1> QED
  BY <1>1, RankType

LEMMA SetStateAdvances ==
  ASSUME IInv, NEW d \in Call, NEW s \in CallState, SetState(d, s), Exists(d),
         Rank(s) >= Rank(sessions[d].state), NEW c \in Call
  PROVE  Advances(c)
<1>1. /\ \A x \in Call : x # d => sessions'[x] = sessions[x]
      /\ sessions'[d] # NoSession /\ sessions'[d].state = s
  BY SetStateProps DEF IInv
<1>2. CASE c = d
  BY <1>1, <1>2 DEF Advances
<1>3. CASE c # d
  BY <1>1, <1>3, SameAdvances
<1> QED
  BY <1>2, <1>3

LEMMA EndingAdvances ==
  ASSUME IInv, NEW d \in Call, SetState(d, "ended"), Live(d), NEW c \in Call
  PROVE  Advances(c)
<1>1. Exists(d) /\ sessions[d].state \in CallState /\ "ended" \in CallState
  BY DEF Live, InState, CallState
<1>2. Rank("ended") >= Rank(sessions[d].state)
  BY <1>1, RankType, RankValues
<1> QED
  BY <1>1, <1>2, SetStateAdvances

LEMMA StepAdvances ==
  ASSUME IInv, [Next]_vars, NEW c \in Call
  PROVE  Advances(c)
<1>1. CASE UNCHANGED sessions
  BY <1>1, SameAdvances
<1>2. ASSUME NEW d \in Call, ~Exists(d), NEW v, sessions' = [sessions EXCEPT ![d] = v]
      PROVE  Advances(c)
  <2>1. CASE c = d
    BY <1>2, <2>1 DEF Advances
  <2>2. CASE c # d
    BY <1>2, <2>2, SameAdvances DEF IInv, Types
  <2> QED
    BY <2>1, <2>2
<1>3. ASSUME NEW t \in Thread, CreateOutgoingCall(t) PROVE Advances(c)
  <2>1. PICK d \in LocalCall \ seen :
          sessions' = [sessions EXCEPT ![d] = NewSession(loc[t].peer, FALSE)]
    BY <1>3 DEF CreateOutgoingCall
  <2>2. d \in Call /\ ~Exists(d)
    BY DEF IInv, Known, Call
  <2> QED
    BY <1>2, <2>1, <2>2
<1>4. ASSUME NEW t \in Thread, NEW d \in RemoteCall, NEW p \in Peer, handleOffer(t, d, p)
      PROVE  Advances(c)
  BY <1>2, <1>4 DEF handleOffer, Call
<1>5. ASSUME NEW t \in Thread, Accept(t) PROVE Advances(c)
  <2>1. CASE CanAccept(loc[t].call)
    <3>1. loc[t].call \in Call
      BY <1>5 DEF Accept, At, IInv, Control, Goroutine
    <3>2. /\ Exists(loc[t].call) /\ sessions[loc[t].call].state = "offered"
          /\ SetState(loc[t].call, "accepted") /\ "accepted" \in CallState
      BY <1>5, <2>1 DEF Accept, CanAccept, InState, CallState
    <3> QED
      BY <3>1, <3>2, SetStateAdvances, RankValues
  <2>2. CASE ~CanAccept(loc[t].call)
    BY <1>1, <1>5, <2>2 DEF Accept
  <2> QED
    BY <2>1, <2>2
<1>6. ASSUME NEW t \in Thread, EndCall(t) PROVE Advances(c)
  <2>1. CASE Live(loc[t].call) /\ SetState(loc[t].call, "ended")
    <3>1. loc[t].call \in Call
      BY <1>6 DEF EndCall, At, IInv, Known, Types, Goroutine
    <3> QED
      BY <2>1, <3>1, EndingAdvances
  <2> QED
    BY <1>1, <1>6, <2>1 DEF EndCall
<1>7. ASSUME NEW t \in Thread, NEW d \in Call, handleAnswer(t, d) PROVE Advances(c)
  <2>1. /\ d \in Call /\ Exists(d) /\ sessions[d].state \in {"offered", "accepted"}
        /\ SetState(d, "connecting") /\ "connecting" \in CallState
    BY <1>7 DEF handleAnswer, CanConnect, InState, Call, CallState
  <2> QED
    BY <2>1, SetStateAdvances, RankValues
<1>8. ASSUME NEW t \in Thread, NEW d \in Call, MediaFlows(t, d) PROVE Advances(c)
  <2>1. /\ Exists(d) /\ sessions[d].state \in {"connecting", "accepted"}
        /\ SetState(d, "active") /\ "active" \in CallState
    BY <1>8 DEF MediaFlows, InState, CallState
  <2> QED
    BY <2>1, SetStateAdvances, RankValues
<1>9. CASE RemoveExpired
  <2>1. PICK d \in loc[Cleaner].todo : sessions' = [sessions EXCEPT ![d] = NoSession]
    BY <1>9 DEF RemoveExpired
  <2>2. InState(d, {"offered"})
    BY <1>9 DEF RemoveExpired, At, IInv, Reliance, RelyOn, Goroutine
  <2>3. CASE c = d
    BY <2>1, <2>2, <2>3 DEF IInv, Types, Advances, InState
  <2>4. CASE c # d
    BY <2>1, <2>4, SameAdvances DEF IInv, Types
  <2> QED
    BY <2>3, <2>4
<1>10. ASSUME NEW t \in Thread, StopEndCall(t) PROVE Advances(c)
  <2>1. PICK d \in loc[t].todo : \/ Live(d) /\ SetState(d, "ended")
                                 \/ UNCHANGED sessions
    BY <1>10 DEF StopEndCall
  <2>2. d \in Call
    BY DEF IInv, Types, Local, Goroutine
  <2> QED
    BY <1>1, <2>1, <2>2, EndingAdvances
<1>11. ASSUME NEW t \in Thread, Stopped(t) PROVE Advances(c)
  <2>1. sessions'[c] = IF Live(c) THEN [sessions[c] EXCEPT !.state = "ended"] ELSE sessions[c]
    BY <1>11 DEF Stopped
  <2>2. CASE Live(c)
    <3>1. sessions[c] \in Session
      BY <2>2 DEF IInv, Types, Live, InState, Exists
    <3>2. /\ sessions'[c] \in Session /\ sessions'[c].state = "ended"
          /\ sessions[c].state \in CallState
      BY <2>1, <2>2, <3>1 DEF Session, CallState
    <3>3. sessions'[c] # NoSession
      BY <3>2, SessionAssumption
    <3> QED
      BY <3>2, <3>3, RankType, RankValues DEF Advances
  <2>3. CASE ~Live(c)
    BY <2>1, <2>3, SameAdvances
  <2> QED
    BY <2>2, <2>3
<1>12. ASSUME NEW t \in Thread, Continue(t) PROVE Advances(c)
  <2>1. CASE \/ OfferRefused(t) \/ SendOffer(t) \/ OfferStarted(t) \/ SendAnswer(t)
             \/ Answered(t) \/ handleSessionEnded(t) \/ ClearCurrent(t) \/ StopList(t)
    BY <1>1, <2>1 DEF OfferRefused, SendOffer, OfferStarted, SendAnswer, Answered,
                      handleSessionEnded, ClearCurrent, StopList
  <2> QED
    BY <1>3, <1>5, <1>6, <1>10, <1>11, <1>12, <2>1 DEF Continue
<1>13. CASE Cleanup \/ Tick \/ UNCHANGED vars
  BY <1>1, <1>9, <1>13 DEF Cleanup, CleanupTick, ExpiredCallback, Tick, vars
<1> QED
  BY <1>1, <1>4, <1>7, <1>8, <1>12, <1>13
     DEF Next, StartOutgoingCall, AnswerIncomingCall, RejectIncomingCall, CallTimeout,
         handleHangup, EndCurrentCall, Stop

-----------------------------------------------------------------------------
(* Theorems *)

\* IInv is an invariant of the call manager.
THEOREM Invariant == Spec => []IInv
BY InitHolds, NextKeeps, PTL DEF Spec

\* The call in progress is the current call, the current call is never one that is over
\* without a callback on its way to clear it, and each mutex is held by the goroutine
\* inside its critical section.
THEOREM Agreement == Spec => []CallsAgree
BY Invariant, Implied, PTL

\* No interleaving of answers, repeated offers, hangups, timeouts, the cleanup and Stop
\* takes a session back, and only an offer nobody took up is ever removed.
THEOREM Advance == Spec => StatesAdvance
<1>1. IInv /\ [Next]_vars => [\A c \in Call : Advances(c)]_vars
  BY StepAdvances
<1>2. [\A c \in Call : Advances(c)]_vars <=>
        [\A c \in Call : Exists(c) =>
           IF sessions'[c] = NoSession THEN sessions[c].state = "offered"
           ELSE Rank(sessions'[c].state) >= Rank(sessions[c].state)]_vars
  BY DEF Advances
<1> QED
  BY <1>1, <1>2, Invariant, PTL DEF Spec, StatesAdvance
=============================================================================
