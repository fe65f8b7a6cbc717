------------------------------ MODULE Messaging ------------------------------
(***************************************************************************)
(* The conversation of one node with one contact: messaging.Service        *)
(* (pkg/messaging), the PubSub subscription it reads (pkg/ipfsnode/        *)
(* pubsub.go) and the message table of the store (pkg/storage/badger.go).  *)
(*                                                                         *)
(* An incoming envelope crosses three queues, each with its goroutine: the *)
(* buffer of the libp2p subscription, msgChan filled by processMessages,   *)
(* and messageChan filled by listenForMessages, which stores the envelope  *)
(* first.  SendMessage, ReceiveMessage, Start and Stop are called by other *)
(* goroutines, and none of them holds s.mu beyond its first test.  The     *)
(* context is created by NewService and cancelled once, by Stop.           *)
(*                                                                         *)
(* A message stands for its envelope.  Verification, parsing and           *)
(* decryption together decide whether an envelope is handled: the forged   *)
(* ones are not.                                                           *)
(***************************************************************************)
EXTENDS Integers, Sequences, SequencesExt, FiniteSets

CONSTANTS
  Incoming,       \* messages of the contact
  Forged,         \* those that fail verification or decryption
  Outgoing,       \* messages this node sends
  NoMessage,
  Nonces,         \* the draws of GenerateNonce considered: injections to Nat
  SubCap,         \* buffer of the libp2p subscription
  ChanCap,        \* capacity of msgChan (32)
  EventCap,       \* capacity of messageChan (100)
  Direct,         \* incoming messages ReceiveMessage is called with, too
  Traffic,        \* the sets of messages sent in a behaviour that are considered
  MaxStarts, MaxCrashes, MaxTime

Message == Incoming \cup Outgoing

ASSUME MessageAssumption ==
  /\ Incoming \cap Outgoing = {} /\ NoMessage \notin Message
  /\ Forged \subseteq Incoming /\ Direct \subseteq Incoming
  /\ Traffic \subseteq SUBSET Message
  /\ IsFiniteSet(Message)
ASSUME NonceAssumption ==
  /\ Nonces \subseteq [Message -> Nat]
  /\ \A f \in Nonces : \A m, n \in Message : f[m] = f[n] => m = n
ASSUME BoundAssumption ==
  /\ {SubCap, ChanCap, EventCap, MaxStarts} \subseteq Nat \ {0}
  /\ {MaxCrashes, MaxTime} \subseteq Nat

VARIABLES
  clock,     \* the Unix time in seconds
  started,   \* s.isStarted
  cancelled, \* s.ctx is cancelled
  starts,    \* how often Start succeeded: s.subscription is the last one's
  subs,      \* the Subscriptions by the Start that opened them
  listeners, \* the listenForMessages goroutines by their Start
  stopper,   \* where the goroutine in Stop stands
  sending,   \* where the goroutine in SendMessage stands, and its message
  reading,   \* the message of the goroutine in ReceiveMessage
  events,    \* messageChan
  store,     \* the message table: keys (receipt second, nonce), one per record
  failed,    \* history: messages for which AddMessage returned an error
  net,       \* the outgoing messages that were published
  delivered, \* the incoming messages libp2p has delivered, each once
  stamp,     \* Message.Timestamp of our messages, 0 before they are built
  nonce,     \* Envelope.Nonce
  traffic,   \* the messages sent in this behaviour
  crashes

service == <<started, cancelled, starts, subs, listeners, stopper>>
topics == <<net, delivered>>
table == <<store, failed>>
disk == <<table, topics, stamp>>
draws == <<nonce, traffic>>
outside == <<clock, sending, reading, events, disk, draws, crashes>>
vars == <<clock, service, sending, reading, events, disk, draws, crashes>>

Closed == [open |-> FALSE, alive |-> FALSE, raw |-> <<>>, held |-> NoMessage, ch |-> <<>>]
Opened == [Closed EXCEPT !.open = TRUE, !.alive = TRUE]
Gone == [at |-> "gone", msg |-> NoMessage]

TypeOK ==
  /\ clock \in 1..MaxTime + 1
  /\ started \in BOOLEAN /\ cancelled \in BOOLEAN
  /\ starts \in 0..MaxStarts
  /\ subs \in [1..MaxStarts ->
       [open : BOOLEAN, alive : BOOLEAN, raw : BoundedSeq(Incoming, SubCap),
        held : Incoming \cup {NoMessage}, ch : BoundedSeq(Incoming, ChanCap)]]
  /\ listeners \in [1..MaxStarts ->
       [at : {"gone", "select", "store", "emit"}, msg : Incoming \cup {NoMessage}]]
  /\ stopper \in {"idle", "cancel", "wait", "close"}
  /\ sending \in [at : {"idle", "publish", "store"}, msg : Outgoing \cup {NoMessage}]
  /\ reading \in Incoming \cup {NoMessage}
  /\ events \in BoundedSeq(Incoming, EventCap)
  /\ store \subseteq [at : 1..clock, msg : Message] /\ failed \subseteq Message
  /\ net \subseteq Outgoing /\ delivered \subseteq Incoming
  /\ stamp \in [Outgoing -> 0..clock]
  /\ nonce \in Nonces /\ traffic \in Traffic
  /\ crashes \in 0..MaxCrashes

NewService ==
  /\ started = FALSE /\ cancelled = FALSE /\ starts = 0
  /\ subs = [s \in 1..MaxStarts |-> Closed]
  /\ listeners = [s \in 1..MaxStarts |-> Gone]
  /\ stopper = "idle"
  /\ sending = [at |-> "idle", msg |-> NoMessage]
  /\ reading = NoMessage
  /\ events = <<>>

Init ==
  /\ clock = 1
  /\ NewService
  /\ store = {} /\ failed = {} /\ net = {} /\ delivered = {}
  /\ stamp = [m \in Outgoing |-> 0]
  /\ nonce \in Nonces /\ traffic \in Traffic
  /\ crashes = 0

-----------------------------------------------------------------------------
(* The message table *)

\* AddMessage puts the record under the current second and the nonce; its
\* callers log an error and go on.
AddMessage(m) ==
  \/ store' = store \cup {[at |-> clock, msg |-> m]} /\ UNCHANGED failed
  \/ failed' = failed \cup {m} /\ UNCHANGED store

\* Mutant: the nonce comes before the second in the key.
MutantKeyLess(a, b) ==
  nonce[a.msg] < nonce[b.msg] \/ (nonce[a.msg] = nonce[b.msg] /\ a.at < b.at)

\* The byte order of the keys of one contact.
messageKeyLess(a, b) ==
  a.at < b.at \/ (a.at = b.at /\ nonce[a.msg] < nonce[b.msg])

\* The iteration of GetMessagesWithTimestamps with limit and offset.
GetMessages(limit, offset) ==
  LET all == CHOOSE s \in SetToSeqs(store) : IsSorted(s, messageKeyLess)
      end == IF limit > 0 /\ offset + limit < Len(all) THEN offset + limit ELSE Len(all)
  IN  SubSeq(all, offset + 1, end)

-----------------------------------------------------------------------------
(* Start and Stop *)

\* Start holds s.mu throughout: a new subscription and a new listener, but the
\* context NewService made.
Start ==
  /\ ~started /\ starts < MaxStarts
  /\ started' = TRUE
  /\ starts' = starts + 1
  /\ subs' = [subs EXCEPT ![starts'] = Opened]
  /\ listeners' = [listeners EXCEPT ![starts'] = [at |-> "select", msg |-> NoMessage]]
  /\ UNCHANGED <<cancelled, stopper, outside>>

\* Stop clears the flag under s.mu and goes on without it.
Stop ==
  /\ started /\ stopper = "idle"
  /\ started' = FALSE
  /\ stopper' = "cancel"
  /\ UNCHANGED <<cancelled, starts, subs, listeners, outside>>

StopCancel ==
  /\ stopper = "cancel"
  /\ cancelled' = TRUE
  /\ stopper' = "wait"
  /\ UNCHANGED <<started, starts, subs, listeners, outside>>

\* Mutant: Stop does not wait for the listener.
MutantStopWait ==
  /\ stopper = "wait"
  /\ stopper' = "close"
  /\ UNCHANGED <<started, cancelled, starts, subs, listeners, outside>>

\* s.wg.Wait
StopWait ==
  /\ stopper = "wait"
  /\ \A s \in 1..MaxStarts : listeners[s].at = "gone"
  /\ stopper' = "close"
  /\ UNCHANGED <<started, cancelled, starts, subs, listeners, outside>>

\* Mutant: the subscription is left open.
MutantStopClose ==
  /\ stopper = "close"
  /\ stopper' = "idle"
  /\ UNCHANGED <<started, cancelled, starts, subs, listeners, outside>>

\* Subscription.Close of the subscription s.subscription holds now.
StopClose ==
  /\ stopper = "close"
  /\ subs' = [subs EXCEPT ![starts].open = FALSE]
  /\ stopper' = "idle"
  /\ UNCHANGED <<started, cancelled, starts, listeners, outside>>

-----------------------------------------------------------------------------
(* Receiving *)

\* libp2p delivers a message of the contact to every open subscription, or drops it: too slow, or
\* no peer has the topic.
Deliver(m) ==
  /\ m \in (Incoming \cap traffic) \ delivered
  /\ delivered' = delivered \cup {m}
  /\ \E s \in 1..MaxStarts : subs[s].open
  /\ subs' = [s \in 1..MaxStarts |->
       IF subs[s].open /\ Len(subs[s].raw) < SubCap
       THEN [subs[s] EXCEPT !.raw = Append(@, m)] ELSE subs[s]]
  /\ UNCHANGED <<clock, started, cancelled, starts, listeners, stopper, sending, reading, events,
                 table, net, stamp, draws, crashes>>

\* processMessages takes the next message from the subscription...
PumpNext(s) ==
  /\ subs[s].alive /\ subs[s].held = NoMessage /\ subs[s].raw # <<>>
  /\ subs' = [subs EXCEPT ![s].held = Head(subs[s].raw), ![s].raw = Tail(@)]
  /\ UNCHANGED <<started, cancelled, starts, listeners, stopper, outside>>

\* ... and blocks until msgChan has room ...
PumpForward(s) ==
  /\ subs[s].alive /\ subs[s].held # NoMessage /\ Len(subs[s].ch) < ChanCap
  /\ subs' = [subs EXCEPT ![s].ch = Append(@, subs[s].held), ![s].held = NoMessage]
  /\ UNCHANGED <<started, cancelled, starts, listeners, stopper, outside>>

\* ... or the subscription is closed; msgChan and errChan are closed behind it.
PumpExit(s) ==
  /\ subs[s].alive /\ ~subs[s].open
  /\ subs' = [subs EXCEPT ![s].alive = FALSE, ![s].held = NoMessage, ![s].raw = <<>>]
  /\ UNCHANGED <<started, cancelled, starts, listeners, stopper, outside>>

ListenerAt(l, at) ==
  /\ listeners[l].at = at
  /\ UNCHANGED <<clock, started, cancelled, starts, stopper, sending, reading, topics, stamp,
                 draws, crashes>>

\* Mutant: the listener ends at the first envelope it cannot process.
MutantListenTake(l) ==
  /\ ListenerAt(l, "select")
  /\ subs[starts].ch # <<>>
  /\ LET m == Head(subs[starts].ch) IN
       /\ subs' = [subs EXCEPT ![starts].ch = Tail(@)]
       /\ listeners' = [listeners EXCEPT ![l] =
            IF m \in Forged THEN Gone ELSE [at |-> "store", msg |-> m]]
  /\ UNCHANGED <<events, table>>

\* The select picks a message of the subscription s.subscription holds now; an
\* envelope that fails verification or decryption is logged and dropped.
ListenTake(l) ==
  /\ ListenerAt(l, "select")
  /\ subs[starts].ch # <<>>
  /\ LET m == Head(subs[starts].ch) IN
       /\ subs' = [subs EXCEPT ![starts].ch = Tail(@)]
       /\ listeners' = IF m \in Forged THEN listeners
                       ELSE [listeners EXCEPT ![l] = [at |-> "store", msg |-> m]]
  /\ UNCHANGED <<events, table>>

\* The select picks the cancelled context or a closed channel.
ListenReturn(l) ==
  /\ ListenerAt(l, "select")
  /\ cancelled \/ ~subs[starts].alive
  /\ listeners' = [listeners EXCEPT ![l] = Gone]
  /\ UNCHANGED <<subs, events, table>>

ListenStore(l) ==
  /\ ListenerAt(l, "store")
  /\ AddMessage(listeners[l].msg)
  /\ listeners' = [listeners EXCEPT ![l].at = "emit"]
  /\ UNCHANGED <<subs, events>>

\* Mutant: the event is sent without a default branch.
MutantListenEmit(l) ==
  /\ ListenerAt(l, "emit")
  /\ Len(events) < EventCap
  /\ events' = Append(events, listeners[l].msg)
  /\ listeners' = [listeners EXCEPT ![l] = [at |-> "select", msg |-> NoMessage]]
  /\ UNCHANGED <<subs, table>>

\* Mutant: the events go to a list without a limit.
MutantUnbounded(l) ==
  /\ ListenerAt(l, "emit")
  /\ events' = Append(events, listeners[l].msg)
  /\ listeners' = [listeners EXCEPT ![l] = [at |-> "select", msg |-> NoMessage]]
  /\ UNCHANGED <<subs, table>>

\* The event goes to messageChan if there is room, and is dropped otherwise.
ListenEmit(l) ==
  /\ ListenerAt(l, "emit")
  /\ events' = IF Len(events) < EventCap THEN Append(events, listeners[l].msg) ELSE events
  /\ listeners' = [listeners EXCEPT ![l] = [at |-> "select", msg |-> NoMessage]]
  /\ UNCHANGED <<subs, table>>

\* The CLI's goroutine displays an event.
Show ==
  /\ events # <<>>
  /\ events' = Tail(events)
  /\ UNCHANGED <<clock, service, sending, reading, disk, draws, crashes>>

\* ReceiveMessage, the same flow for an envelope that came another way.
ReceiveMessage(m) ==
  /\ started /\ reading = NoMessage
  /\ m \in (Direct \cap traffic) \ Forged
  /\ reading' = m
  /\ UNCHANGED <<clock, service, sending, events, disk, draws, crashes>>

ReceiveStore ==
  /\ reading # NoMessage
  /\ AddMessage(reading)
  /\ reading' = NoMessage
  /\ UNCHANGED <<clock, service, sending, events, topics, stamp, draws, crashes>>

-----------------------------------------------------------------------------
(* Sending *)

\* The test of isStarted and the building of the envelope.
SendMessage(m) ==
  /\ started /\ sending.at = "idle"
  /\ m \in Outgoing \cap traffic /\ stamp[m] = 0
  /\ stamp' = [stamp EXCEPT ![m] = clock]
  /\ sending' = [at |-> "publish", msg |-> m]
  /\ UNCHANGED <<clock, service, reading, events, table, topics, draws, crashes>>

\* Mutant: a failed publish is only logged.
MutantPublish ==
  /\ sending.at = "publish"
  /\ net' \in {net, net \cup {sending.msg}}
  /\ sending' = [sending EXCEPT !.at = "store"]
  /\ UNCHANGED <<clock, service, reading, events, table, delivered, stamp, draws, crashes>>

\* PublishTo, then AddMessage; an error of PublishTo ends the call.
Publish ==
  /\ sending.at = "publish"
  /\ \/ net' = net \cup {sending.msg} /\ sending' = [sending EXCEPT !.at = "store"]
     \/ net' = net /\ sending' = [at |-> "idle", msg |-> NoMessage]
  /\ UNCHANGED <<clock, service, reading, events, table, delivered, stamp, draws, crashes>>

SendStore ==
  /\ sending.at = "store"
  /\ AddMessage(sending.msg)
  /\ sending' = [at |-> "idle", msg |-> NoMessage]
  /\ UNCHANGED <<clock, service, reading, events, topics, stamp, draws, crashes>>

-----------------------------------------------------------------------------
\* The process dies: the store stays, a new process makes a new service.
Crash ==
  /\ crashes < MaxCrashes
  /\ crashes' = crashes + 1
  /\ started' = FALSE /\ cancelled' = FALSE /\ starts' = 0
  /\ subs' = [s \in 1..MaxStarts |-> Closed]
  /\ listeners' = [s \in 1..MaxStarts |-> Gone]
  /\ stopper' = "idle"
  /\ sending' = [at |-> "idle", msg |-> NoMessage]
  /\ reading' = NoMessage
  /\ events' = <<>>
  /\ UNCHANGED <<clock, disk, draws>>

Tick ==
  /\ clock <= MaxTime
  /\ clock' = clock + 1
  /\ UNCHANGED <<service, sending, reading, events, disk, draws, crashes>>

Stopping == StopCancel \/ StopWait \/ StopClose
Pump(s) == PumpNext(s) \/ PumpForward(s) \/ PumpExit(s)
Listen(l) == ListenTake(l) \/ ListenReturn(l) \/ ListenStore(l) \/ ListenEmit(l)

Next ==
  \/ Start \/ Stop \/ Stopping
  \/ \E s \in 1..MaxStarts : Pump(s) \/ Listen(s)
  \/ \E m \in Incoming : Deliver(m) \/ ReceiveMessage(m)
  \/ ReceiveStore
  \/ Show
  \/ \E m \in Outgoing : SendMessage(m)
  \/ Publish \/ SendStore
  \/ Crash \/ Tick

Spec == Init /\ [][Next]_vars

\* The goroutines of the service run; nobody has to read messageChan, to stop
\* the service or to send.
FairSpec ==
  /\ Spec
  /\ WF_vars(Stopping)
  /\ \A s \in 1..MaxStarts : WF_vars(Pump(s)) /\ WF_vars(Listen(s))
-----------------------------------------------------------------------------
(* Properties *)

\* Once Stop has returned, and until the next Start, no listener is left to
\* store envelopes or emit events (Stop waits for its goroutines).
QuietAfterStop ==
  ~started /\ stopper = "idle" => \A l \in 1..MaxStarts : listeners[l].at = "gone"

\* Once Stop has returned, and until the next Start, no subscription is open
\* any more (Stop closes the subscription).
SubscriptionsClosed ==
  ~started /\ stopper = "idle" => \A s \in 1..MaxStarts : ~subs[s].open

\* A message of ours is in the history only if it was published (SendMessage
\* stores after PublishTo), also after a crash.
HistoryOnlyPublished == \A e \in store : e.msg \in Outgoing => e.msg \in net

\* Of two messages of ours stored in different seconds the history lists the
\* one with the earlier time first (messageKey orders by the second of
\* AddMessage, and one goroutine sends).
SentInOrder ==
  LET all == GetMessages(0, 0) IN
  \A i, j \in 1..Len(all) :
    i < j /\ {all[i].msg, all[j].msg} \subseteq Outgoing =>
      all[i].at = all[j].at \/ stamp[all[i].msg] <= stamp[all[j].msg]

\* Stop, however it meets the listener and the queues, leaves nothing of the
\* service running or subscribed, and no queue outgrows its channel (Stop,
\* listenForMessages).
StopLeavesNothing == TypeOK /\ QuietAfterStop /\ SubscriptionsClosed

\* The history has of our messages only published ones, in the order in which
\* they were sent (SendMessage, AddMessage).
SentHistory == HistoryOnlyPublished /\ SentInOrder

Buffered(m) ==
  starts > 0 /\ m \in Range(subs[starts].raw) \cup Range(subs[starts].ch) \cup {subs[starts].held}

\* A genuine envelope that reached the subscription of a running service is
\* handed to the store, unless the service is stopped or dies (listenForMessages
\* handles every envelope and survives the bad ones).
ReceivedHandled ==
  \A m \in Incoming \ Forged :
    (started /\ Buffered(m)) ~> (~started \/ m \in {e.msg : e \in store} \cup failed)

\* Stop returns, also when nobody reads messageChan any more (the listener
\* never blocks on it).
StopReturns == stopper # "idle" ~> stopper = "idle"

=============================================================================
