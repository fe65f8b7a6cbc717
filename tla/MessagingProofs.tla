--------------------------- MODULE MessagingProofs ---------------------------
(***************************************************************************)
(* Proofs about Messaging, for any messages, draws of nonces, capacities,  *)
(* numbers of starts and crashes:                                          *)
(*   - the history has of our messages only published ones, in the order   *)
(*     in which they were sent (HistorySent);                              *)
(*   - Stop leaves nothing running or subscribed, unless Start is called   *)
(*     while it runs (Stopped), and whenever the service is started once   *)
(*     (StoppedOnce).                                                      *)
(***************************************************************************)
EXTENDS Messaging, FiniteSetTheorems, SequenceTheorems, WellFoundedInduction, TLAPS

-----------------------------------------------------------------------------
(* The inductive invariant *)

SubType ==
  [open : BOOLEAN, alive : BOOLEAN, raw : BoundedSeq(Incoming, SubCap),
   held : Incoming \cup {NoMessage}, ch : BoundedSeq(Incoming, ChanCap)]
ListenerType == [at : {"gone", "select", "store", "emit"}, msg : Incoming \cup {NoMessage}]

\* Listeners, senders and Stop exist only after a Start, and hold the messages
\* their steps need.
Control ==
  /\ starts = 0 => ~started /\ stopper = "idle"
  /\ \A l \in 1..MaxStarts :
       /\ listeners[l].at # "gone" => starts # 0
       /\ listeners[l].at \in {"store", "emit"} => listeners[l].msg \in Incoming
  /\ sending.at # "idle" => sending.msg \in Outgoing

\* Past its wait for the goroutines Stop has none left, unless Start was called.
Waited ==
  ~started /\ stopper \in {"idle", "close"} => \A l \in 1..MaxStarts : listeners[l].at = "gone"

\* What the table says of our messages, and what SendMessage relies on between
\* its steps: stamps come before the seconds of the keys, the message on its
\* way was built after all stored ones, and is stored after it was published.
Sends ==
  /\ IsFiniteSet(store)
  /\ \A e \in store : e.msg \in Outgoing =>
       e.msg \in net /\ stamp[e.msg] # 0 /\ stamp[e.msg] <= e.at
  /\ \A e, f \in store :
       {e.msg, f.msg} \subseteq Outgoing /\ e.at < f.at => stamp[e.msg] <= stamp[f.msg]
  /\ sending.at # "idle" =>
       /\ stamp[sending.msg] # 0
       /\ \A e \in store : e.msg \in Outgoing => stamp[e.msg] <= stamp[sending.msg]
  /\ sending.at = "store" => sending.msg \in net

IInv == TypeOK /\ Control /\ Waited /\ Sends

-----------------------------------------------------------------------------
(* Bounded sequences *)

LEMMA BoundedSeqs ==
  ASSUME NEW S, NEW n \in Nat
  PROVE  BoundedSeq(S, n) = {s \in Seq(S) : Len(s) <= n}
<1>1. ASSUME NEW s \in BoundedSeq(S, n) PROVE s \in Seq(S) /\ Len(s) <= n
  <2>1. PICK m \in 0..n : s \in [1..m -> S]
    BY <1>1 DEF BoundedSeq, SeqOf
  <2> QED BY <2>1
<1>2. ASSUME NEW s \in Seq(S), Len(s) <= n PROVE s \in BoundedSeq(S, n)
  <2>1. s \in [1..Len(s) -> S] /\ Len(s) \in 0..n
    BY <1>2
  <2> QED BY <2>1 DEF BoundedSeq, SeqOf
<1> QED BY <1>1, <1>2

LEMMA BoundedAppend ==
  ASSUME NEW S, NEW n \in Nat, NEW s \in BoundedSeq(S, n), Len(s) < n, NEW x \in S
  PROVE  Append(s, x) \in BoundedSeq(S, n)
<1>1. BoundedSeq(S, n) = {q \in Seq(S) : Len(q) <= n}
  BY BoundedSeqs
<1>2. Append(s, x) \in Seq(S) /\ Len(Append(s, x)) = Len(s) + 1 /\ Len(s) \in Nat
  BY <1>1, AppendProperties, LenProperties
<1> QED BY <1>1, <1>2

LEMMA BoundedTail ==
  ASSUME NEW S, NEW n \in Nat, NEW s \in BoundedSeq(S, n), s # <<>>
  PROVE  Tail(s) \in BoundedSeq(S, n) /\ Head(s) \in S
<1>1. BoundedSeq(S, n) = {q \in Seq(S) : Len(q) <= n}
  BY BoundedSeqs
<1>2. Tail(s) \in Seq(S) /\ Len(Tail(s)) = Len(s) - 1 /\ Head(s) \in S /\ Len(s) \in Nat
  BY <1>1, HeadTailProperties, LenProperties
<1> QED BY <1>1, <1>2

LEMMA BoundedEmpty ==
  ASSUME NEW S, NEW n \in Nat
  PROVE  <<>> \in BoundedSeq(S, n)
<1>1. BoundedSeq(S, n) = {q \in Seq(S) : Len(q) <= n}
  BY BoundedSeqs
<1> QED BY <1>1

-----------------------------------------------------------------------------
(* Every step keeps the invariant *)

LEMMA InitInv == Init => IInv
<1> SUFFICES ASSUME Init PROVE IInv
  OBVIOUS
<1> USE MessageAssumption, NonceAssumption, BoundAssumption
<1>1. TypeOK
  <2>1. /\ <<>> \in BoundedSeq(Incoming, SubCap)
        /\ <<>> \in BoundedSeq(Incoming, ChanCap)
        /\ <<>> \in BoundedSeq(Incoming, EventCap)
    BY BoundedEmpty
  <2>2. nonce \in Nonces /\ traffic \in Traffic
    BY DEF Init
  <2>3. /\ clock \in 1..MaxTime + 1 /\ starts \in 0..MaxStarts
        /\ stopper \in {"idle", "cancel", "wait", "close"}
        /\ crashes \in 0..MaxCrashes
        /\ reading \in Incoming \cup {NoMessage}
        /\ sending \in [at : {"idle", "publish", "store"}, msg : Outgoing \cup {NoMessage}]
        /\ events \in BoundedSeq(Incoming, EventCap)
    BY <2>1 DEF Init, NewService
  <2>4. started \in BOOLEAN /\ cancelled \in BOOLEAN
    BY DEF Init, NewService
  <2>5. subs \in [1..MaxStarts -> SubType]
    BY <2>1 DEF Init, NewService, SubType, Closed
  <2>6. listeners \in [1..MaxStarts -> ListenerType]
    BY DEF Init, NewService, ListenerType, Gone
  <2>7. /\ store \subseteq [at : 1..clock, msg : Message] /\ failed \subseteq Message
        /\ net \subseteq Outgoing /\ delivered \subseteq Incoming
        /\ stamp \in [Outgoing -> 0..clock]
    BY DEF Init
  <2> QED BY <2>2, <2>3, <2>4, <2>5, <2>6, <2>7 DEF TypeOK, SubType, ListenerType
<1>2. Control /\ Waited
  BY DEF Init, NewService, Control, Waited, Gone
<1>3. Sends
  BY FS_EmptySet DEF Init, NewService, Sends
<1> QED BY <1>1, <1>2, <1>3 DEF IInv

-----------------------------------------------------------------------------
(* The history *)

\* Storing a message of the contact says nothing of ours.
LEMMA StoreIncoming ==
  ASSUME IInv, NEW m \in Incoming, AddMessage(m), UNCHANGED <<clock, net, stamp, sending>>
  PROVE  Sends'
<1>1. m \notin Outgoing
  BY MessageAssumption
<1>2. IsFiniteSet(store')
  BY FS_AddElement DEF AddMessage, IInv, Sends
<1>3. \A e \in store' : e.msg \in Outgoing => e \in store
  BY <1>1 DEF AddMessage
<1>4. store \subseteq store'
  BY DEF AddMessage
<1> QED BY <1>2, <1>3, <1>4 DEF IInv, Sends

LEMMA SendsFrame ==
  ASSUME Sends, UNCHANGED <<store, net, stamp, sending>>
  PROVE  Sends'
BY DEF Sends

LEMMA NextSends == IInv /\ [Next]_vars => Sends'
<1> SUFFICES ASSUME IInv, [Next]_vars PROVE Sends'
  OBVIOUS
<1> USE MessageAssumption
<1>1. Sends /\ TypeOK /\ Control
  BY DEF IInv
<1>2. ASSUME UNCHANGED outside PROVE Sends'
  BY <1>1, <1>2, SendsFrame DEF outside, disk, table, topics
<1>3. CASE Start \/ Stop \/ Stopping
  BY <1>2, <1>3 DEF Start, Stop, Stopping, StopCancel, StopWait, StopClose
<1>4. ASSUME NEW s \in 1..MaxStarts, Pump(s) PROVE Sends'
  BY <1>2, <1>4 DEF Pump, PumpNext, PumpForward, PumpExit
<1>5. ASSUME NEW l \in 1..MaxStarts, Listen(l) PROVE Sends'
  <2>1. CASE ListenTake(l) \/ ListenReturn(l) \/ ListenEmit(l)
    BY <1>1, <2>1, SendsFrame DEF ListenTake, ListenReturn, ListenEmit, ListenerAt, table, topics
  <2>2. CASE ListenStore(l)
    BY <1>1, <2>2, StoreIncoming DEF ListenStore, ListenerAt, topics, Control
  <2> QED BY <1>5, <2>1, <2>2 DEF Listen
<1>6. ASSUME NEW m \in Incoming, Deliver(m) \/ ReceiveMessage(m) PROVE Sends'
  BY <1>1, <1>6, SendsFrame DEF Deliver, ReceiveMessage, disk, table, topics
<1>7. CASE ReceiveStore
  BY <1>1, <1>7, StoreIncoming DEF ReceiveStore, TypeOK, topics
<1>8. CASE Show \/ Tick
  BY <1>1, <1>8, SendsFrame DEF Show, Tick, disk, table, topics
<1>9. ASSUME NEW m \in Outgoing, SendMessage(m) PROVE Sends'
  <2>1. /\ store' = store /\ net' = net
        /\ stamp' = [stamp EXCEPT ![m] = clock] /\ stamp[m] = 0
        /\ sending' = [at |-> "publish", msg |-> m]
        /\ stamp \in [Outgoing -> 0..clock] /\ clock \in Nat \ {0}
    BY <1>1, <1>9 DEF SendMessage, table, topics, TypeOK
  <2>2. \A e \in store : e.msg \in Outgoing => e.msg # m /\ stamp'[e.msg] = stamp[e.msg]
    BY <1>1, <2>1 DEF Sends
  <2>3. \A e \in store : e.msg \in Outgoing => stamp[e.msg] <= clock
    BY <2>1
  <2>4. stamp'[m] = clock
    BY <2>1
  <2> QED BY <1>1, <2>1, <2>2, <2>3, <2>4 DEF Sends
<1>10. CASE Publish
  <2>1. store' = store /\ stamp' = stamp /\ net \subseteq net'
    BY <1>10 DEF Publish, table
  <2>2. /\ sending'.at # "idle" => sending.at # "idle" /\ sending'.msg = sending.msg
        /\ sending'.at = "store" => sending'.msg \in net'
    BY <1>1, <1>10 DEF Publish, TypeOK
  <2> QED BY <1>1, <2>1, <2>2 DEF Sends
<1>11. CASE SendStore
  <2> DEFINE m == sending.msg
  <2>1. /\ m \in Outgoing /\ m \in net /\ stamp[m] # 0
        /\ \A e \in store : e.msg \in Outgoing => stamp[e.msg] <= stamp[m]
        /\ sending'.at = "idle" /\ net' = net /\ stamp' = stamp /\ clock' = clock
        /\ AddMessage(m)
    BY <1>1, <1>11 DEF SendStore, Control, Sends, topics
  <2>2. CASE store' = store
    BY <1>1, <2>1, <2>2 DEF Sends
  <2>3. CASE store' = store \cup {[at |-> clock, msg |-> m]}
    <3>1. IsFiniteSet(store')
      BY <1>1, <2>3, FS_AddElement DEF Sends
    <3>2. stamp[m] \in 0..clock /\ clock \in Nat
      BY <1>1, <2>1 DEF TypeOK
    <3>3. \A e \in store : e.at \in 1..clock
      BY <1>1 DEF TypeOK
    <3>4. \A e \in store' : e \in store \/ (e.at = clock /\ e.msg = m)
      BY <2>3
    <3>5. \A e \in store' : e.msg \in Outgoing =>
            e.msg \in net' /\ stamp'[e.msg] # 0 /\ stamp'[e.msg] <= e.at
      BY <1>1, <2>1, <3>2, <3>4 DEF Sends
    <3>6. ASSUME NEW e \in store', NEW f \in store', e.msg \in Outgoing, f.msg \in Outgoing,
                 e.at < f.at
          PROVE  stamp'[e.msg] <= stamp'[f.msg]
      BY <1>1, <2>1, <3>2, <3>3, <3>4, <3>6 DEF Sends
    <3> QED BY <2>1, <3>1, <3>5, <3>6 DEF Sends
  <2> QED BY <2>1, <2>2, <2>3 DEF AddMessage
<1>12. CASE Crash
  BY <1>1, <1>12 DEF Crash, Sends, disk, table, topics
<1>13. CASE UNCHANGED vars
  BY <1>1, <1>13, SendsFrame DEF vars, disk, table, topics
<1> QED BY <1>3, <1>4, <1>5, <1>6, <1>7, <1>8, <1>9, <1>10, <1>11, <1>12, <1>13 DEF Next

-----------------------------------------------------------------------------
(* Control and types *)

LEMMA NextControl == IInv /\ [Next]_vars => Control' /\ Waited'
<1> SUFFICES ASSUME IInv, [Next]_vars PROVE Control' /\ Waited'
  OBVIOUS
<1> USE MessageAssumption, BoundAssumption
<1>1. Control /\ Waited /\ TypeOK
  BY DEF IInv
<1>2. ASSUME UNCHANGED <<started, starts, listeners, stopper>>,
             sending'.at # "idle" => sending'.msg \in Outgoing
      PROVE  Control' /\ Waited'
  BY <1>1, <1>2 DEF Control, Waited
<1>3. CASE Start
  <2>1. starts \in 0..MaxStarts /\ starts + 1 \in 1..MaxStarts /\ starts' # 0
    BY <1>1, <1>3 DEF Start, TypeOK
  <2>2. \A l \in 1..MaxStarts :
          listeners'[l] = IF l = starts' THEN [at |-> "select", msg |-> NoMessage] ELSE listeners[l]
    BY <1>1, <1>3, <2>1 DEF Start, TypeOK
  <2>3. started' /\ sending' = sending
    BY <1>3 DEF Start, outside
  <2> QED BY <1>1, <2>1, <2>2, <2>3 DEF Control, Waited
<1>4. CASE Stop
  BY <1>1, <1>4 DEF Stop, Control, Waited, outside
<1>5. CASE StopCancel
  BY <1>1, <1>5 DEF StopCancel, Control, Waited, outside
<1>6. CASE StopWait
  BY <1>1, <1>6 DEF StopWait, Control, Waited, outside
<1>7. CASE StopClose
  BY <1>1, <1>7 DEF StopClose, Control, Waited, outside
<1>8. ASSUME NEW s \in 1..MaxStarts, Pump(s) PROVE Control' /\ Waited'
  BY <1>1, <1>2, <1>8 DEF Pump, PumpNext, PumpForward, PumpExit, outside, Control
<1>9. ASSUME NEW l \in 1..MaxStarts, Listen(l) PROVE Control' /\ Waited'
  <2>1. /\ UNCHANGED <<started, starts, stopper, sending>>
        /\ listeners[l].at # "gone" /\ starts # 0
    BY <1>1, <1>9 DEF Listen, ListenTake, ListenReturn, ListenStore, ListenEmit, ListenerAt, Control
  <2>2. ASSUME NEW k, listeners' = [listeners EXCEPT ![l] = k],
               k.at \in {"store", "emit"} => k.msg \in Incoming
        PROVE  Control' /\ Waited'
    <3>1. \A i \in 1..MaxStarts : listeners'[i] = IF i = l THEN k ELSE listeners[i]
      BY <1>1, <2>2 DEF TypeOK
    <3> QED BY <1>1, <2>1, <2>2, <3>1 DEF Control, Waited
  <2>3. CASE ListenTake(l)
    <3>1. CASE listeners' = listeners
      BY <1>1, <1>2, <2>1, <3>1 DEF Control
    <3>2. CASE listeners' = [listeners EXCEPT ![l] = [at |-> "store", msg |-> Head(subs[starts].ch)]]
      <4>1. subs[starts].ch # <<>> /\ subs[starts].ch \in BoundedSeq(Incoming, ChanCap)
        BY <1>1, <2>1, <2>3 DEF ListenTake, TypeOK
      <4>2. Head(subs[starts].ch) \in Incoming
        BY <4>1, BoundedTail
      <4> QED BY <2>2, <3>2, <4>2
    <3> QED BY <2>3, <3>1, <3>2 DEF ListenTake
  <2>4. CASE ListenReturn(l)
    BY <2>2, <2>4 DEF ListenReturn, Gone
  <2>5. CASE ListenStore(l)
    <3>1. listeners' = [listeners EXCEPT ![l] = [listeners[l] EXCEPT !.at = "emit"]]
      BY <2>5 DEF ListenStore
    <3>2. listeners[l].at = "store" /\ listeners[l].msg \in Incoming
          /\ listeners[l] = [at |-> listeners[l].at, msg |-> listeners[l].msg]
      BY <1>1, <2>5 DEF ListenStore, ListenerAt, Control, TypeOK
    <3> QED BY <2>2, <3>1, <3>2
  <2>6. CASE ListenEmit(l)
    BY <2>2, <2>6 DEF ListenEmit
  <2> QED BY <1>9, <2>3, <2>4, <2>5, <2>6 DEF Listen
<1>10. ASSUME NEW m \in Incoming, Deliver(m) \/ ReceiveMessage(m) PROVE Control' /\ Waited'
  BY <1>1, <1>2, <1>10 DEF Deliver, ReceiveMessage, service, Control
<1>11. CASE ReceiveStore \/ Show \/ Tick
  BY <1>1, <1>2, <1>11 DEF ReceiveStore, Show, Tick, service, Control
<1>12. ASSUME NEW m \in Outgoing, SendMessage(m) PROVE Control' /\ Waited'
  BY <1>2, <1>12 DEF SendMessage, service
<1>13. CASE Publish \/ SendStore
  BY <1>1, <1>2, <1>13 DEF Publish, SendStore, service, Control, TypeOK
<1>14. CASE Crash
  BY <1>14 DEF Crash, Control, Waited, Gone
<1>15. CASE UNCHANGED vars
  BY <1>1, <1>2, <1>15 DEF vars, service, Control
<1> QED BY <1>3, <1>4, <1>5, <1>6, <1>7, <1>8, <1>9, <1>10, <1>11, <1>12, <1>13, <1>14, <1>15
        DEF Next, Stopping

\* What the steps assign to the fields of a subscription.
LEMMA SubUpdates ==
  ASSUME NEW r \in SubType, NEW q \in BoundedSeq(Incoming, SubCap),
         NEW c \in BoundedSeq(Incoming, ChanCap), NEW h \in Incoming \cup {NoMessage}
  PROVE  /\ [r EXCEPT !.open = FALSE] \in SubType
         /\ [r EXCEPT !.raw = q] \in SubType
         /\ [r EXCEPT !.ch = c] \in SubType
         /\ [r EXCEPT !.held = h, !.raw = q] \in SubType
         /\ [r EXCEPT !.ch = c, !.held = h] \in SubType
         /\ [r EXCEPT !.alive = FALSE, !.held = h, !.raw = q] \in SubType
<1> DEFINE B == BOOLEAN
           R == BoundedSeq(Incoming, SubCap)
           H == Incoming \cup {NoMessage}
           C == BoundedSeq(Incoming, ChanCap)
<1>1. SubType = [open : B, alive : B, raw : R, held : H, ch : C]
  BY DEF SubType
<1>2. FALSE \in B /\ q \in R /\ c \in C /\ h \in H
  OBVIOUS
<1> HIDE DEF B, R, H, C
<1> QED BY <1>1, <1>2

LEMMA NextType == IInv /\ [Next]_vars => TypeOK'
<1> SUFFICES ASSUME IInv, [Next]_vars PROVE TypeOK'
  OBVIOUS
<1> USE MessageAssumption, BoundAssumption
<1>1. TypeOK /\ Control
  BY DEF IInv
<1> DEFINE ServiceOK ==
             /\ started \in BOOLEAN /\ cancelled \in BOOLEAN
             /\ starts \in 0..MaxStarts
             /\ stopper \in {"idle", "cancel", "wait", "close"}
           SubsOK == subs \in [1..MaxStarts -> SubType]
           ListenersOK == listeners \in [1..MaxStarts -> ListenerType]
           CallsOK ==
             /\ sending \in [at : {"idle", "publish", "store"}, msg : Outgoing \cup {NoMessage}]
             /\ reading \in Incoming \cup {NoMessage}
             /\ events \in BoundedSeq(Incoming, EventCap)
           DiskOK ==
             /\ clock \in 1..MaxTime + 1
             /\ store \subseteq [at : 1..clock, msg : Message] /\ failed \subseteq Message
             /\ net \subseteq Outgoing /\ delivered \subseteq Incoming
             /\ stamp \in [Outgoing -> 0..clock]
             /\ nonce \in Nonces /\ traffic \in Traffic
             /\ crashes \in 0..MaxCrashes
<1>2. ServiceOK /\ SubsOK /\ ListenersOK /\ CallsOK /\ DiskOK
  BY <1>1 DEF TypeOK, SubType, ListenerType
<1>3. ServiceOK' /\ SubsOK' /\ ListenersOK' /\ CallsOK' /\ DiskOK' => TypeOK'
  BY DEF TypeOK, SubType, ListenerType
<1>4. /\ UNCHANGED <<sending, reading, events>> => CallsOK'
      /\ UNCHANGED <<clock, disk, draws, crashes>> => DiskOK'
      /\ UNCHANGED <<started, cancelled, starts, stopper>> => ServiceOK'
      /\ subs' = subs => SubsOK'
      /\ listeners' = listeners => ListenersOK'
  BY <1>2 DEF disk, table, topics, draws
<1>5. UNCHANGED outside => CallsOK' /\ DiskOK'
  BY <1>4 DEF outside
<1>6. UNCHANGED service => ServiceOK' /\ SubsOK' /\ ListenersOK'
  BY <1>4 DEF service
<1>7. ASSUME NEW m \in Message, AddMessage(m),
             UNCHANGED <<clock, net, delivered, stamp, nonce, traffic, crashes>>
      PROVE  DiskOK'
  <2>1. [at |-> clock, msg |-> m] \in [at : 1..clock, msg : Message]
    BY <1>2
  <2> QED BY <1>2, <1>7, <2>1 DEF AddMessage
<1>8. <<>> \in BoundedSeq(Incoming, SubCap) /\ <<>> \in BoundedSeq(Incoming, ChanCap)
      /\ <<>> \in BoundedSeq(Incoming, EventCap)
  BY BoundedEmpty
<1>9. Closed \in SubType /\ Opened \in SubType /\ Gone \in ListenerType
  BY <1>8 DEF Closed, Opened, Gone, SubType, ListenerType
<1>10. ASSUME NEW s \in 1..MaxStarts
       PROVE  /\ subs[s] = [open |-> subs[s].open, alive |-> subs[s].alive, raw |-> subs[s].raw,
                            held |-> subs[s].held, ch |-> subs[s].ch]
              /\ subs[s].open \in BOOLEAN /\ subs[s].alive \in BOOLEAN
              /\ subs[s].raw \in BoundedSeq(Incoming, SubCap)
              /\ subs[s].held \in Incoming \cup {NoMessage}
              /\ subs[s].ch \in BoundedSeq(Incoming, ChanCap)
  BY <1>2 DEF SubType
<1>11. ASSUME NEW s \in 1..MaxStarts, NEW k \in SubType, subs' = [subs EXCEPT ![s] = k]
       PROVE  SubsOK'
  BY <1>2, <1>11
<1>12. ASSUME NEW l \in 1..MaxStarts, NEW k \in ListenerType,
              listeners' = [listeners EXCEPT ![l] = k]
       PROVE  ListenersOK'
  BY <1>2, <1>12
<1> HIDE DEF ServiceOK, SubsOK, ListenersOK, CallsOK, DiskOK
<1>13. CASE Start
  <2>1. starts' \in 1..MaxStarts /\ starts' = starts + 1
    BY <1>2, <1>13 DEF Start, ServiceOK
  <2>2. ServiceOK'
    BY <1>2, <1>13, <2>1 DEF Start, ServiceOK
  <2>3. SubsOK' /\ ListenersOK'
    BY <1>9, <1>11, <1>12, <1>13, <2>1 DEF Start, ListenerType
  <2> QED BY <1>3, <1>5, <1>13, <2>2, <2>3 DEF Start
<1>14. CASE Stop \/ StopCancel \/ StopWait
  <2>1. ServiceOK'
    BY <1>2, <1>14 DEF Stop, StopCancel, StopWait, ServiceOK
  <2> QED BY <1>3, <1>4, <1>5, <1>14, <2>1 DEF Stop, StopCancel, StopWait
<1>15. CASE StopClose
  <2>1. ServiceOK' /\ starts \in 1..MaxStarts
    BY <1>1, <1>2, <1>15 DEF StopClose, ServiceOK, Control
  <2>2. [subs[starts] EXCEPT !.open = FALSE] \in SubType
    BY <1>2, <2>1, <1>8, SubUpdates DEF SubsOK
  <2>3. SubsOK'
    BY <1>11, <1>15, <2>1, <2>2 DEF StopClose
  <2> QED BY <1>3, <1>4, <1>5, <1>15, <2>1, <2>3 DEF StopClose
<1>16. ASSUME NEW s \in 1..MaxStarts, Pump(s) PROVE TypeOK'
  <2>1. CASE PumpNext(s)
    <3>1. Head(subs[s].raw) \in Incoming /\ Tail(subs[s].raw) \in BoundedSeq(Incoming, SubCap)
      BY <1>10, <2>1, BoundedTail DEF PumpNext
    <3>2. [subs[s] EXCEPT !.held = Head(subs[s].raw), !.raw = Tail(@)] \in SubType
      BY <1>2, <1>8, <1>10, <3>1, SubUpdates DEF SubsOK
    <3>3. subs' = [subs EXCEPT ![s] = [subs[s] EXCEPT !.held = Head(subs[s].raw), !.raw = Tail(@)]]
      BY <1>2, <2>1 DEF PumpNext, SubsOK
    <3>4. SubsOK'
      BY <1>11, <3>2, <3>3, ZenonT(40)
    <3> QED BY <1>3, <1>4, <1>5, <2>1, <3>4 DEF PumpNext
  <2>2. CASE PumpForward(s)
    <3>1. Append(subs[s].ch, subs[s].held) \in BoundedSeq(Incoming, ChanCap)
      BY <1>10, <2>2, BoundedAppend DEF PumpForward
    <3>2. [subs[s] EXCEPT !.ch = Append(@, subs[s].held), !.held = NoMessage] \in SubType
      BY <1>2, <1>8, <1>10, <3>1, SubUpdates DEF SubsOK
    <3>3. subs' = [subs EXCEPT ![s] =
                     [subs[s] EXCEPT !.ch = Append(@, subs[s].held), !.held = NoMessage]]
      BY <1>2, <2>2 DEF PumpForward, SubsOK
    <3>4. SubsOK'
      BY <1>11, <3>2, <3>3, ZenonT(40)
    <3> QED BY <1>3, <1>4, <1>5, <2>2, <3>4 DEF PumpForward
  <2>3. CASE PumpExit(s)
    <3>1. [subs[s] EXCEPT !.alive = FALSE, !.held = NoMessage, !.raw = <<>>] \in SubType
      BY <1>2, <1>8, SubUpdates DEF SubsOK
    <3>2. subs' = [subs EXCEPT ![s] =
                     [subs[s] EXCEPT !.alive = FALSE, !.held = NoMessage, !.raw = <<>>]]
      BY <1>2, <2>3 DEF PumpExit, SubsOK
    <3> QED BY <1>3, <1>4, <1>5, <1>11, <2>3, <3>1, <3>2, ZenonT(40) DEF PumpExit
  <2> QED BY <1>16, <2>1, <2>2, <2>3 DEF Pump
<1>17. ASSUME NEW l \in 1..MaxStarts, Listen(l) PROVE TypeOK'
  <2>1. starts \in 1..MaxStarts
    BY <1>1, <1>2, <1>17
       DEF Listen, ListenTake, ListenReturn, ListenStore, ListenEmit, ListenerAt, Control, ServiceOK
  <2>2. /\ listeners[l] = [at |-> listeners[l].at, msg |-> listeners[l].msg]
        /\ listeners[l].msg \in Incoming \cup {NoMessage}
    BY <1>2 DEF ListenersOK, ListenerType
  <2>3. CASE ListenTake(l)
    <3> DEFINE q == subs[starts].ch
    <3>1. Head(q) \in Incoming /\ Tail(q) \in BoundedSeq(Incoming, ChanCap)
      BY <1>10, <2>1, <2>3, BoundedTail DEF ListenTake
    <3>2. [subs[starts] EXCEPT !.ch = Tail(@)] \in SubType
      BY <1>2, <1>8, <2>1, <3>1, SubUpdates DEF SubsOK
    <3>3. SubsOK'
      BY <1>11, <2>1, <2>3, <3>2 DEF ListenTake
    <3>4. [at |-> "store", msg |-> Head(q)] \in ListenerType
      BY <3>1 DEF ListenerType
    <3>5. ListenersOK'
      BY <1>4, <1>12, <2>3, <3>4 DEF ListenTake
    <3> QED BY <1>3, <1>4, <2>3, <3>3, <3>5 DEF ListenTake, ListenerAt, disk, draws
  <2>4. CASE ListenReturn(l)
    <3>1. ListenersOK'
      BY <1>9, <1>12, <2>4 DEF ListenReturn
    <3> QED BY <1>3, <1>4, <2>4, <3>1 DEF ListenReturn, ListenerAt, disk, draws
  <2>5. CASE ListenStore(l)
    <3>1. [listeners[l] EXCEPT !.at = "emit"] \in ListenerType
      BY <2>2 DEF ListenerType
    <3>2. ListenersOK'
      BY <1>12, <2>5, <3>1 DEF ListenStore
    <3>3. listeners[l].msg \in Message
      BY <1>1, <2>5 DEF ListenStore, ListenerAt, Control, Message
    <3>4. DiskOK'
      BY <1>7, <2>5, <3>3 DEF ListenStore, ListenerAt, topics, draws
    <3> QED BY <1>3, <1>4, <2>5, <3>2, <3>4 DEF ListenStore, ListenerAt
  <2>6. CASE ListenEmit(l)
    <3>1. ListenersOK'
      BY <1>12, <2>6 DEF ListenEmit, ListenerType
    <3>2. listeners[l].msg \in Incoming
      BY <1>1, <2>6 DEF ListenEmit, ListenerAt, Control
    <3>3. CallsOK'
      <4>1. Len(events) < EventCap => Append(events, listeners[l].msg) \in BoundedSeq(Incoming, EventCap)
        BY <1>2, <3>2, BoundedAppend DEF CallsOK
      <4> QED BY <1>2, <2>6, <4>1 DEF ListenEmit, ListenerAt, CallsOK
    <3> QED BY <1>3, <1>4, <2>6, <3>1, <3>3 DEF ListenEmit, ListenerAt, disk, draws
  <2> QED BY <1>17, <2>3, <2>4, <2>5, <2>6 DEF Listen
<1>18. ASSUME NEW m \in Incoming, Deliver(m) PROVE TypeOK'
  <2>1. SubsOK'
    <3>1. ASSUME NEW s \in 1..MaxStarts, Len(subs[s].raw) < SubCap
          PROVE  [subs[s] EXCEPT !.raw = Append(@, m)] \in SubType
      <4>1. Append(subs[s].raw, m) \in BoundedSeq(Incoming, SubCap)
        BY <1>10, <3>1, BoundedAppend
      <4> QED BY <1>2, <1>8, <4>1, SubUpdates DEF SubsOK
    <3> QED BY <1>2, <1>18, <3>1 DEF Deliver, SubsOK
  <2>2. DiskOK'
    BY <1>2, <1>18 DEF Deliver, DiskOK, table, draws
  <2> QED BY <1>3, <1>4, <1>18, <2>1, <2>2 DEF Deliver
<1>19. ASSUME NEW m \in Incoming, ReceiveMessage(m) PROVE TypeOK'
  <2>1. CallsOK'
    BY <1>2, <1>19 DEF ReceiveMessage, CallsOK
  <2> QED BY <1>3, <1>4, <1>6, <1>19, <2>1 DEF ReceiveMessage
<1>20. CASE ReceiveStore
  <2>1. CallsOK'
    BY <1>2, <1>20 DEF ReceiveStore, CallsOK
  <2>2. reading \in Message
    BY <1>2, <1>20 DEF ReceiveStore, CallsOK, Message
  <2>3. DiskOK'
    BY <1>7, <1>20, <2>2 DEF ReceiveStore, topics, draws
  <2> QED BY <1>3, <1>6, <1>20, <2>1, <2>3 DEF ReceiveStore
<1>21. CASE Show
  <2>1. Tail(events) \in BoundedSeq(Incoming, EventCap)
    BY <1>2, <1>21, BoundedTail DEF Show, CallsOK
  <2>2. CallsOK'
    BY <1>2, <1>21, <2>1 DEF Show, CallsOK
  <2> QED BY <1>3, <1>4, <1>6, <1>21, <2>2 DEF Show
<1>22. ASSUME NEW m \in Outgoing, SendMessage(m) PROVE TypeOK'
  <2>1. CallsOK'
    BY <1>2, <1>22 DEF SendMessage, CallsOK
  <2>2. DiskOK'
    BY <1>2, <1>22 DEF SendMessage, DiskOK, table, topics, draws
  <2> QED BY <1>3, <1>6, <1>22, <2>1, <2>2 DEF SendMessage
<1>23. CASE Publish
  <2>1. CallsOK'
    BY <1>2, <1>23 DEF Publish, CallsOK
  <2>2. sending.msg \in Outgoing
    BY <1>1, <1>23 DEF Publish, Control
  <2>3. DiskOK'
    BY <1>2, <1>23, <2>2 DEF Publish, DiskOK, table, draws
  <2> QED BY <1>3, <1>6, <1>23, <2>1, <2>3 DEF Publish
<1>24. CASE SendStore
  <2>1. CallsOK'
    BY <1>2, <1>24 DEF SendStore, CallsOK
  <2>2. sending.msg \in Message
    BY <1>1, <1>24 DEF SendStore, Control, Message
  <2>3. DiskOK'
    BY <1>7, <1>24, <2>2 DEF SendStore, topics, draws
  <2> QED BY <1>3, <1>6, <1>24, <2>1, <2>3 DEF SendStore
<1>25. CASE Crash
  <2>1. ServiceOK' /\ SubsOK' /\ ListenersOK'
    <3>1. ServiceOK'
      <4>1. started' \in BOOLEAN /\ cancelled' \in BOOLEAN
        BY <1>25 DEF Crash
      <4>2. starts' \in 0..MaxStarts /\ stopper' \in {"idle", "cancel", "wait", "close"}
        BY <1>25 DEF Crash
      <4> QED BY <4>1, <4>2 DEF ServiceOK
    <3>2. SubsOK' /\ ListenersOK'
      BY <1>9, <1>25 DEF Crash, SubsOK, ListenersOK
    <3> QED BY <3>1, <3>2
  <2>2. CallsOK'
    BY <1>8, <1>25 DEF Crash, CallsOK
  <2>3. DiskOK'
    BY <1>2, <1>25 DEF Crash, DiskOK, disk, table, topics, draws
  <2> QED BY <1>3, <2>1, <2>2, <2>3
<1>26. CASE Tick
  <2>1. clock \in 1..MaxTime + 1 /\ clock' = clock + 1 /\ clock <= MaxTime
    BY <1>2, <1>26 DEF Tick, DiskOK
  <2>2. store' \subseteq [at : 1..clock', msg : Message] /\ stamp' \in [Outgoing -> 0..clock']
    BY <1>2, <1>26, <2>1 DEF Tick, DiskOK, disk, table
  <2>3. DiskOK'
    BY <1>2, <1>26, <2>1, <2>2 DEF Tick, DiskOK, disk, table, topics, draws
  <2> QED BY <1>3, <1>4, <1>6, <1>26, <2>3 DEF Tick
<1>27. CASE UNCHANGED vars
  BY <1>3, <1>4, <1>6, <1>27 DEF vars
<1> QED BY <1>13, <1>14, <1>15, <1>16, <1>17, <1>18, <1>19, <1>20, <1>21, <1>22, <1>23, <1>24,
           <1>25, <1>26, <1>27 DEF Next, Stopping

-----------------------------------------------------------------------------
(* Finite sets can be sorted: induction over the subsets of a finite set,  *)
(* by a least counterexample                                               *)

LEMMA LeastSubset ==
  ASSUME NEW S, IsFiniteSet(S), NEW T, T \subseteq SUBSET S, T # {}
  PROVE  \E A \in T : \A B \in T : B \subseteq A => B = A
<1>1. IsWellFoundedOn(StrictSubsetOrdering(S), FiniteSubsetsOf(S))
  BY FS_StrictSubsetOrderingWellFounded
<1>2. T \subseteq FiniteSubsetsOf(S)
  BY FS_Subset DEF FiniteSubsetsOf
<1>3. PICK A \in T : \A B \in T : ~(<<B, A>> \in StrictSubsetOrdering(S))
  BY <1>1, <1>2, WFMin
<1> QED BY <1>3 DEF StrictSubsetOrdering

\* R is a strict total order on S.
StrictOrder(R, S) ==
  /\ \A a \in S : <<a, a>> \notin R
  /\ \A a, b, c \in S : <<a, b>> \in R /\ <<b, c>> \in R => <<a, c>> \in R
  /\ \A a, b \in S : a = b \/ <<a, b>> \in R \/ <<b, a>> \in R

LEMMA HasLast ==
  ASSUME NEW S, IsFiniteSet(S), S # {}, NEW R, StrictOrder(R, S)
  PROVE  \E x \in S : \A y \in S \ {x} : <<y, x>> \in R
<1> DEFINE Good(A) == \E x \in A : \A y \in A \ {x} : <<y, x>> \in R
           T == {A \in SUBSET S : A # {} /\ ~Good(A)}
<1> SUFFICES ASSUME T # {} PROVE FALSE
  OBVIOUS
<1>1. PICK A \in T : \A B \in T : B \subseteq A => B = A
  <2>1. T \subseteq SUBSET S
    OBVIOUS
  <2> HIDE DEF T
  <2> QED BY <2>1, LeastSubset
<1>2. PICK x : x \in A
  BY <1>1
<1>3. A \ {x} = {} \/ Good(A \ {x})
  <2>1. A \ {x} \in SUBSET S /\ A \ {x} \subseteq A /\ A \ {x} # A
    BY <1>1, <1>2
  <2>2. A \ {x} \notin T
    <3> HIDE DEF T
    <3> QED BY <1>1, <2>1
  <2> HIDE DEF Good
  <2> QED BY <2>1, <2>2
<1>4. ASSUME A \ {x} = {} PROVE Good(A)
  BY <1>2, <1>4
<1>5. ASSUME Good(A \ {x}) PROVE Good(A)
  <2>1. PICK z \in A \ {x} : \A y \in (A \ {x}) \ {z} : <<y, z>> \in R
    BY <1>5
  <2>2. x \in S /\ z \in S /\ A \subseteq S /\ x # z
    BY <1>1, <1>2, <2>1
  <2>3. CASE <<x, z>> \in R
    <3>1. z \in A /\ \A y \in A \ {z} : <<y, z>> \in R
      BY <2>1, <2>3
    <3> QED BY <3>1
  <2>4. CASE <<z, x>> \in R
    <3>1. \A y \in A \ {x} : <<y, x>> \in R
      BY <2>1, <2>2, <2>4 DEF StrictOrder
    <3>2. \E u \in A : \A y \in A \ {u} : <<y, u>> \in R
      <4> HIDE DEF T, Good
      <4> QED BY <1>2, <3>1
    <3> QED BY <3>2
  <2>5. <<x, z>> \in R \/ <<z, x>> \in R
    BY <2>2 DEF StrictOrder
  <2> HIDE DEF T, Good
  <2> QED BY <2>3, <2>4, <2>5
<1> QED BY <1>1, <1>3, <1>4, <1>5

LEMMA Sortable ==
  ASSUME NEW S, IsFiniteSet(S), NEW R, StrictOrder(R, S)
  PROVE  \E s \in [1..Cardinality(S) -> S] :
           \A i, j \in 1..Cardinality(S) : i < j => <<s[i], s[j]>> \in R
<1> DEFINE Good(A) == \E s \in [1..Cardinality(A) -> A] :
                        \A i, j \in 1..Cardinality(A) : i < j => <<s[i], s[j]>> \in R
           T == {A \in SUBSET S : ~Good(A)}
<1> SUFFICES ASSUME T # {} PROVE FALSE
  BY DEF StrictOrder
<1>1. PICK A \in T : \A B \in T : B \subseteq A => B = A
  <2>1. T \subseteq SUBSET S
    OBVIOUS
  <2> HIDE DEF T
  <2> QED BY <2>1, LeastSubset
<1>2. A \subseteq S /\ IsFiniteSet(A) /\ StrictOrder(R, A)
  BY <1>1, FS_Subset DEF StrictOrder
<1>3. CASE A = {}
  <2>1. Cardinality(A) = 0
    BY <1>3, FS_EmptySet
  <2>2. <<>> \in [1..0 -> A]
    OBVIOUS
  <2>3. \A i, j \in 1..0 : i < j => <<(<<>>[i]), (<<>>[j])>> \in R
    OBVIOUS
  <2>4. Good(A)
    BY <2>1, <2>2, <2>3
  <2> QED BY <1>1, <2>4
<1>4. CASE A # {}
  <2>1. PICK x \in A : \A y \in A \ {x} : <<y, x>> \in R
    BY <1>2, <1>4, HasLast
  <2>2. PICK n \in Nat : n = Cardinality(A \ {x}) /\ Cardinality(A) = n + 1
    <3>1. IsFiniteSet(A \ {x}) /\ Cardinality(A \ {x}) = Cardinality(A) - 1
      BY <1>2, <2>1, FS_RemoveElement
    <3>2. Cardinality(A) \in Nat /\ Cardinality(A \ {x}) \in Nat
      BY <1>2, <3>1, FS_CardinalityType
    <3> QED BY <3>1, <3>2
  <2>3. Good(A \ {x})
    <3>1. A \ {x} \in SUBSET S /\ A \ {x} \subseteq A /\ A \ {x} # A
      BY <1>2, <2>1
    <3>2. A \ {x} \notin T
      <4> HIDE DEF T
      <4> QED BY <1>1, <3>1
    <3> HIDE DEF Good
    <3> QED BY <3>1, <3>2
  <2>4. PICK s \in [1..n -> A \ {x}] : \A i, j \in 1..n : i < j => <<s[i], s[j]>> \in R
    BY <2>2, <2>3
  <2> HIDE DEF T, Good
  <2> DEFINE t == [i \in 1..n + 1 |-> IF i = n + 1 THEN x ELSE s[i]]
  <2>5. \A i \in 1..n + 1 : i = n + 1 \/ (i \in 1..n /\ s[i] \in A \ {x})
    <3> SUFFICES ASSUME NEW i \in 1..n + 1, i # n + 1 PROVE i \in 1..n /\ s[i] \in A \ {x}
      OBVIOUS
    <3>1. i \in 1..n
      OBVIOUS
    <3> QED BY <2>4, <3>1
  <2>6. t \in [1..n + 1 -> A]
    BY <2>1, <2>5
  <2>7. ASSUME NEW i \in 1..n + 1, NEW j \in 1..n + 1, i < j PROVE <<t[i], t[j]>> \in R
    <3>1. i \in 1..n /\ t[i] = s[i] /\ s[i] \in A \ {x}
      <4>1. i # n + 1
        BY <2>7
      <4> QED BY <2>5, <4>1
    <3>2. CASE j = n + 1
      BY <2>1, <3>1, <3>2
    <3>3. CASE j \in 1..n
      BY <2>4, <2>7, <3>1, <3>3
    <3> QED BY <2>2, <3>2, <3>3
  <2>8. Good(A)
    <3> HIDE DEF t
    <3>1. \E u \in [1..n + 1 -> A] : \A i, j \in 1..n + 1 : i < j => <<u[i], u[j]>> \in R
      BY <2>6, <2>7
    <3> QED BY <2>2, <3>1 DEF Good
  <2> QED BY <1>1, <2>8 DEF T
<1> QED BY <1>3, <1>4

\* The iteration lists the table in the order of its keys.
LEMMA Listed ==
  ASSUME IInv
  PROVE  LET all == GetMessages(0, 0) IN
         /\ all \in Seq(store)
         /\ \A i, j \in 1..Len(all) : i < j => messageKeyLess(all[i], all[j])
<1> DEFINE R == {p \in store \X store : messageKeyLess(p[1], p[2])}
           N == Cardinality(store)
           seq == CHOOSE s \in SetToSeqs(store) : IsSorted(s, messageKeyLess)
<1>1. /\ IsFiniteSet(store) /\ N \in Nat
      /\ store \subseteq [at : 1..clock, msg : Message] /\ clock \in Nat
      /\ nonce \in [Message -> Nat]
      /\ \A m, n \in Message : nonce[m] = nonce[n] => m = n
  BY FS_CardinalityType, NonceAssumption, BoundAssumption DEF IInv, TypeOK, Sends
<1>2. StrictOrder(R, store)
  <2>1. \A e \in store : e = [at |-> e.at, msg |-> e.msg] /\ e.at \in Nat /\ nonce[e.msg] \in Nat
    BY <1>1
  <2>2. \A e \in store : e.msg \in Message
    BY <1>1
  <2>3. \A e, f \in store : e.at = f.at /\ nonce[e.msg] = nonce[f.msg] => e = f
    BY <1>1, <2>1, <2>2
  <2> QED BY <2>1, <2>3 DEF StrictOrder, messageKeyLess
<1>3. PICK s \in [1..N -> store] : \A i, j \in 1..N : i < j => <<s[i], s[j]>> \in R
  <2> HIDE DEF R
  <2> QED BY <1>1, <1>2, Sortable
<1>4. s \in SetToSeqs(store)
  <2>1. ASSUME NEW i \in 1..N, NEW j \in 1..N, i # j PROVE s[i] # s[j]
    <3> HIDE DEF N, R
    <3>1. i < j \/ j < i
      BY <1>1, <2>1
    <3>2. <<s[i], s[j]>> \in R \/ <<s[j], s[i]>> \in R
      BY <1>3, <3>1
    <3> QED BY <1>2, <1>3, <3>2 DEF StrictOrder
  <2> QED BY <1>3, <2>1 DEF SetToSeqs
<1>5. IsSorted(s, messageKeyLess)
  <2>1. Len(s) = N
    BY <1>1, <1>3
  <2>2. \A i, j \in 1..Len(s) : i < j => messageKeyLess(s[i], s[j])
    BY <1>3, <2>1
  <2> QED BY <2>2 DEF IsSorted
<1>6. seq \in SetToSeqs(store) /\ IsSorted(seq, messageKeyLess)
  BY <1>4, <1>5
<1>7. seq \in [1..N -> store]
  BY <1>6 DEF SetToSeqs
<1>8. seq \in Seq(store) /\ Len(seq) = N
  BY <1>1, <1>7
<1>9. \A i, j \in 1..Len(seq) : i < j => messageKeyLess(seq[i], seq[j])
  BY <1>6 DEF IsSorted
<1> HIDE DEF seq
<1>10. GetMessages(0, 0) = SubSeq(seq, 1, Len(seq))
  BY DEF GetMessages, seq
<1>11. SubSeq(seq, 1, Len(seq)) = seq
  BY <1>8
<1> QED BY <1>8, <1>9, <1>10, <1>11

-----------------------------------------------------------------------------
(* The theorems *)

\* The inductive invariant holds in every state of the service.
THEOREM Invariant == Spec => []IInv
<1>1. IInv /\ [Next]_vars => IInv'
  BY NextType, NextControl, NextSends DEF IInv
<1> QED BY InitInv, <1>1, PTL DEF Spec

\* SentHistory for every behaviour: what SendMessage leaves in the table was published, and the
\* iteration lists our messages as they were sent, whatever the nonces, the times, the errors of
\* AddMessage and PublishTo and the crashes were.
THEOREM HistorySent == Spec => []SentHistory
<1>1. IInv => SentHistory
  <2> SUFFICES ASSUME IInv PROVE SentHistory
    OBVIOUS
  <2>1. HistoryOnlyPublished
    BY DEF IInv, Sends, HistoryOnlyPublished
  <2>2. SentInOrder
    <3> DEFINE all == GetMessages(0, 0)
    <3>1. /\ all \in Seq(store)
          /\ \A i, j \in 1..Len(all) : i < j => messageKeyLess(all[i], all[j])
      BY Listed
    <3>2. SUFFICES ASSUME NEW i \in 1..Len(all), NEW j \in 1..Len(all), i < j,
                          {all[i].msg, all[j].msg} \subseteq Outgoing
                   PROVE  all[i].at = all[j].at \/ stamp[all[i].msg] <= stamp[all[j].msg]
      BY DEF SentInOrder
    <3>3. all[i] \in store /\ all[j] \in store
      <4> HIDE DEF all
      <4> QED BY <3>1
    <3>4. all[i].at = all[j].at \/ all[i].at < all[j].at
      BY <3>1, <3>2 DEF messageKeyLess
    <3> HIDE DEF all
    <3> QED BY <3>2, <3>3, <3>4 DEF IInv, Sends
  <2> QED BY <2>1, <2>2 DEF SentHistory
<1> QED BY <1>1, Invariant, PTL

\* Start is never called while Stop is running.
NoStartWhileStopping == [][Start => stopper = "idle"]_vars

\* What StopClose relies on: only the subscription s.subscription holds is open.
Closing ==
  /\ started => stopper = "idle"
  /\ \A s \in 1..MaxStarts : subs[s].open => s = starts /\ (started \/ stopper # "idle")

LEMMA NextClosing ==
  ASSUME IInv, Closing, [Next]_vars, [Start => stopper = "idle"]_vars
  PROVE  Closing'
<1> USE BoundAssumption
<1>1. subs \in [1..MaxStarts -> SubType] /\ starts \in 0..MaxStarts
  BY DEF IInv, TypeOK, SubType
<1>2. ASSUME UNCHANGED <<started, stopper, starts>>,
             \A s \in 1..MaxStarts : subs'[s].open => subs[s].open
      PROVE  Closing'
  BY <1>2 DEF Closing
<1>3. CASE Start
  <2>1. stopper = "idle" /\ ~started /\ starts' \in 1..MaxStarts
    <3>1. ~started /\ started'
      BY <1>3 DEF Start
    <3>2. ~UNCHANGED vars
      BY <3>1 DEF vars, service
    <3>3. starts' \in 1..MaxStarts
      BY <1>1, <1>3 DEF Start
    <3> QED BY <1>3, <3>1, <3>2, <3>3
  <2>2. \A s \in 1..MaxStarts : subs'[s] = IF s = starts' THEN Opened ELSE subs[s]
    BY <1>1, <1>3, <2>1 DEF Start
  <2>3. \A s \in 1..MaxStarts : ~subs[s].open
    BY <2>1 DEF Closing
  <2> QED BY <1>3, <2>1, <2>2, <2>3 DEF Start, Closing
<1>4. CASE Stop \/ StopCancel \/ StopWait
  BY <1>4 DEF Stop, StopCancel, StopWait, Closing
<1>5. CASE StopClose
  <2>1. \A s \in 1..MaxStarts :
          subs'[s] = IF s = starts THEN [subs[s] EXCEPT !.open = FALSE] ELSE subs[s]
    BY <1>1, <1>5 DEF StopClose
  <2>2. \A s \in 1..MaxStarts : subs[s] \in SubType
    BY <1>1
  <2>3. \A s \in 1..MaxStarts : ~subs'[s].open
    BY <2>1, <2>2 DEF Closing, SubType
  <2> QED BY <1>5, <2>3 DEF StopClose, Closing
<1>6. ASSUME NEW s \in 1..MaxStarts, Pump(s) PROVE Closing'
  <2>1. ASSUME NEW i \in 1..MaxStarts PROVE subs'[i].open = subs[i].open
    <3>1. subs[i] \in SubType
      BY <1>1
    <3>2. \/ subs'[i] = subs[i]
          \/ subs'[i] = [subs[i] EXCEPT !.held = Head(subs[i].raw), !.raw = Tail(@)]
          \/ subs'[i] = [subs[i] EXCEPT !.ch = Append(@, subs[i].held), !.held = NoMessage]
          \/ subs'[i] = [subs[i] EXCEPT !.alive = FALSE, !.held = NoMessage, !.raw = <<>>]
      BY <1>1, <1>6 DEF Pump, PumpNext, PumpForward, PumpExit
    <3> QED BY <3>1, <3>2 DEF SubType
  <2> QED BY <1>2, <1>6, <2>1 DEF Pump, PumpNext, PumpForward, PumpExit
<1>7. ASSUME NEW l \in 1..MaxStarts, Listen(l) PROVE Closing'
  <2>1. subs' = subs \/ subs' = [subs EXCEPT ![starts].ch = Tail(@)]
    BY <1>7 DEF Listen, ListenTake, ListenReturn, ListenStore, ListenEmit
  <2>2. ASSUME NEW i \in 1..MaxStarts PROVE subs'[i].open = subs[i].open
    <3>1. subs[i] \in SubType
      BY <1>1
    <3>2. subs'[i] = subs[i] \/ subs'[i] = [subs[i] EXCEPT !.ch = Tail(@)]
      BY <1>1, <2>1
    <3> QED BY <3>1, <3>2 DEF SubType
  <2> QED BY <1>2, <1>7, <2>2
          DEF Listen, ListenTake, ListenReturn, ListenStore, ListenEmit, ListenerAt
<1>8. ASSUME NEW m \in Incoming, Deliver(m) PROVE Closing'
  <2>1. ASSUME NEW i \in 1..MaxStarts PROVE subs'[i].open = subs[i].open
    <3>1. subs[i] \in SubType
      BY <1>1
    <3>2. subs'[i] = subs[i] \/ subs'[i] = [subs[i] EXCEPT !.raw = Append(@, m)]
      BY <1>8 DEF Deliver
    <3> QED BY <3>1, <3>2 DEF SubType
  <2> QED BY <1>2, <1>8, <2>1 DEF Deliver
<1>9. CASE UNCHANGED service
  BY <1>2, <1>9 DEF service
<1>10. CASE Crash
  BY <1>10 DEF Crash, Closing, Closed
<1>11. \/ UNCHANGED service \/ Start \/ Stop \/ Stopping \/ Crash
       \/ \E s \in 1..MaxStarts : Pump(s) \/ Listen(s)
       \/ \E m \in Incoming : Deliver(m)
  BY DEF Next, vars, ReceiveMessage, ReceiveStore, Show, SendMessage, Publish, SendStore, Tick
<1> QED BY <1>3, <1>4, <1>5, <1>6, <1>7, <1>8, <1>9, <1>10, <1>11 DEF Stopping

LEMMA Leaves == IInv /\ Closing => StopLeavesNothing
BY DEF IInv, Closing, Waited, StopLeavesNothing, QuietAfterStop, SubscriptionsClosed

LEMMA InitClosing == Init => Closing
BY DEF Init, NewService, Closing, Closed

\* StopLeavesNothing for every behaviour in which Start is not called while Stop runs: restarts
\* after Stop has returned are included.
THEOREM Stopped == Spec /\ NoStartWhileStopping => []StopLeavesNothing
<1>1. IInv /\ Closing /\ [Next]_vars /\ [Start => stopper = "idle"]_vars => Closing'
  BY NextClosing
<1>2. Spec /\ NoStartWhileStopping => []Closing
  BY InitClosing, Invariant, <1>1, PTL DEF Spec, NoStartWhileStopping
<1> QED BY <1>2, Invariant, Leaves, PTL

\* A process that starts its service once, as main does, never has the overlap: Stop leaves
\* nothing, whatever it meets.
THEOREM StoppedOnce ==
  ASSUME MaxStarts = 1
  PROVE  Spec => []StopLeavesNothing
<1>1. IInv /\ [Next]_vars => [Start => stopper = "idle"]_vars
  <2> SUFFICES ASSUME IInv, Start PROVE stopper = "idle"
    OBVIOUS
  <2>1. starts = 0
    BY DEF Start, IInv, TypeOK
  <2> QED BY <2>1 DEF IInv, Control
<1>2. Spec => NoStartWhileStopping
  BY Invariant, <1>1, PTL DEF Spec, NoStartWhileStopping
<1> QED BY <1>2, Stopped, PTL

\* Whatever Start and Stop overlap, a Stop that has returned with no Start since then has left
\* no listener (Stop waits for the goroutines of every Start).
THEOREM Quiet == Spec => []QuietAfterStop
<1>1. IInv => QuietAfterStop
  BY DEF IInv, Waited, QuietAfterStop
<1> QED BY <1>1, Invariant, PTL

=============================================================================
